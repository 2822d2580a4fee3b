------------------------ MODULE SourceControlController ------------------------
(***************************************************************************)
(* The preference handlers of the source control REST controller,          *)
(* src/packages/cli/src/environments/source-control/                       *)
(* source-control.controller.ee.ts.  Each client sends one request at a    *)
(* time; requests of different clients interleave at every await.  A      *)
(* request is a state machine `req[c]` whose pc names the await it is      *)
(* parked on; one action is the synchronous code between two awaits.       *)
(*                                                                         *)
(* The services the controller calls (preferences service, source control  *)
(* service) are not in the repository.  They are the environment here,    *)
(* reduced to what the controller relies on: every awaited call may fail   *)
(* with no effect; setPreferences merges the fields that are not          *)
(* undefined; initializeRepository sets the local folder up for the url   *)
(* and branch it is given; disconnect clears `connected` and `branchName`  *)
(* and deletes the folder; setBranch switches the folder's branch and      *)
(* stores the branch as connected.                                         *)
(***************************************************************************)
EXTENDS Naturals

CONSTANTS
    Clients,        \* users sending requests
    Urls,           \* repository urls a body may carry
    Branches,       \* non-empty branch names a body may carry
    Colors,         \* branch colours a body may carry
    InitRepos,      \* values of initRepo a body may carry
    DefaultBranch,  \* SOURCE_CONTROL_DEFAULT_BRANCH
    Undef,          \* a field absent from the body
    NoRepo,         \* no local repository folder
    MaxRequests     \* bound: requests per client

Body == [repositoryUrl : Urls \cup {Undef}, branchName : Branches \cup {Undef},
         branchReadOnly : BOOLEAN \cup {Undef}, branchColor : Colors \cup {Undef},
         initRepo : InitRepos]

Prefs == [connected : BOOLEAN, repositoryUrl : Urls \cup {""},
          branchName : Branches \cup {""}, branchReadOnly : BOOLEAN,
          branchColor : Colors \cup {""}]

VARIABLES
    prefs,      \* the preferences service's in-memory preferences
    repo,       \* the local git folder: NoRepo or the url and branch set up
    req,        \* each client's request: pc, op, body, snapshot of prefs
    issued      \* requests each client has sent

vars == <<prefs, repo, req, issued>>

Idle(c) == req[c].pc \in {"idle", "ok", "failed"}

\* Environment: setPreferences keeps every field the update leaves undefined.
Merge(p, u) == [f \in DOMAIN p |->
                  IF f \in DOMAIN u /\ u[f] # Undef THEN u[f] ELSE p[f]]

\* Environment: disconnect({keepKeyPair: true}) and disconnect(body).
Disconnected == [prefs EXCEPT !.connected = FALSE, !.branchName = ""]

Goto(c, pc) == req' = [req EXCEPT ![c].pc = pc]

-----------------------------------------------------------------------------
(* setPreferences, POST /preferences (lines 40-100).                       *)

\* The sanitized body (lines 50-55): initRepo defaults to true; connected
\* and publicKey are dropped.
InitRepo(b) == b.initRepo # FALSE
Sanitized(b) == [f \in {"repositoryUrl", "branchName", "branchReadOnly", "branchColor"} |-> b[f]]

\* The branch handed to initializeRepository (lines 66-69).
InitBranchRaw(p) == p.branchName
InitBranch(p) == IF p.branchName = "" THEN DefaultBranch ELSE p.branchName

ConnectsAfterInit(p) == p.branchName # ""

\* Lines 41-56: refuse a body without branchReadOnly while connected,
\* otherwise call validateSourceControlPreferences.
setPreferences(c, b) ==
    /\ Idle(c) /\ issued[c] < MaxRequests
    /\ req' = [req EXCEPT ![c] =
                 [pc |-> IF b.branchReadOnly = Undef /\ prefs.connected
                         THEN "failed" ELSE "post_validate",
                  op |-> "post", body |-> b, snap |-> prefs]]
    /\ issued' = [issued EXCEPT ![c] = @ + 1]
    /\ UNCHANGED <<prefs, repo>>

\* Validation resolves (56-60): on success setPreferences merges the body.
PostValidated(c) ==
    /\ req[c].pc = "post_validate"
    /\ \/ Goto(c, "failed") /\ UNCHANGED prefs
       \/ prefs' = Merge(prefs, Sanitized(req[c].body)) /\ Goto(c, "post_saved")
    /\ UNCHANGED <<repo, issued>>

\* setPreferences resolves with updatedPreferences (59-73): with initRepo,
\* initializeRepository is called with them; otherwise init (85).
PostSaved(c) ==
    /\ req[c].pc = "post_saved"
    /\ req' = [req EXCEPT ![c].snap = prefs, ![c].pc =
                 IF InitRepo(req[c].body) THEN "post_initrepo" ELSE "post_init"]
    /\ UNCHANGED <<prefs, repo, issued>>

\* initializeRepository resolves (63-73): when the preferences, read now,
\* name a branch (line 74), setPreferences({connected: true}) is awaited;
\* on failure the cleanup disconnect runs (81).
PostInitialized(c) ==
    /\ req[c].pc = "post_initrepo"
    /\ LET p == req[c].snap IN
       \/ /\ p.repositoryUrl # ""
          /\ repo' = [url |-> p.repositoryUrl, branch |-> InitBranch(p)]
          /\ Goto(c, IF ConnectsAfterInit(prefs) THEN "post_connect" ELSE "post_init")
       \/ Goto(c, "post_cleanup") /\ UNCHANGED repo
    /\ UNCHANGED <<prefs, issued>>

\* setPreferences({connected: true}) resolves (75-77); its failure is
\* caught by the same catch and runs the cleanup.
PostConnected(c) ==
    /\ req[c].pc = "post_connect"
    /\ \/ prefs' = [prefs EXCEPT !.connected = TRUE] /\ Goto(c, "post_init")
       \/ Goto(c, "post_cleanup") /\ UNCHANGED prefs
    /\ UNCHANGED <<repo, issued>>

\* The cleanup disconnect resolves or fails; either way the request fails
\* with the error (79-83, 97-98).
PostCleanedUp(c) ==
    /\ req[c].pc = "post_cleanup"
    /\ \/ prefs' = Disconnected /\ repo' = NoRepo
       \/ UNCHANGED <<prefs, repo>>
    /\ Goto(c, "failed")
    /\ UNCHANGED issued

-----------------------------------------------------------------------------
(* updatePreferences, PATCH /preferences (lines 104-144).                  *)

\* Line 123: `branchColor ?? branchReadOnly !== undefined` is
\* `branchColor ?? (branchReadOnly !== undefined)`, used as a truth value.
Cond123ColorOnly(b) == b.branchColor # Undef /\ b.branchColor # ""
Cond123(b) == IF b.branchColor # Undef THEN b.branchColor # ""
              ELSE b.branchReadOnly # Undef

\* Lines 123-131 applied to preferences p.
AfterColorAndReadOnly(p, b) ==
    IF Cond123(b)
    THEN Merge(p, [branchColor |-> b.branchColor, branchReadOnly |-> b.branchReadOnly])
    ELSE p

\* Lines 105-116: read currentPreferences, then validate.
updatePreferences(c, b) ==
    /\ Idle(c) /\ issued[c] < MaxRequests
    /\ req' = [req EXCEPT ![c] = [pc |-> "patch_validate", op |-> "patch",
                                  body |-> b, snap |-> prefs]]
    /\ issued' = [issued EXCEPT ![c] = @ + 1]
    /\ UNCHANGED <<prefs, repo>>

\* Validation resolves (117-131): a new branch name goes to setBranch;
\* otherwise colour and read-only are stored at once.
PatchValidated(c) ==
    /\ req[c].pc = "patch_validate"
    /\ LET b == req[c].body IN
       \/ Goto(c, "failed") /\ UNCHANGED prefs
       \/ /\ b.branchName # Undef /\ b.branchName # req[c].snap.branchName
          /\ Goto(c, "patch_setbranch") /\ UNCHANGED prefs
       \/ /\ b.branchName = Undef \/ b.branchName = req[c].snap.branchName
          /\ prefs' = AfterColorAndReadOnly(prefs, b)
          /\ Goto(c, "patch_init")
    /\ UNCHANGED <<repo, issued>>

\* setBranch resolves (121), then lines 123-131 run.
PatchBranchSet(c) ==
    /\ req[c].pc = "patch_setbranch"
    /\ LET b == req[c].body IN
       \/ Goto(c, "failed") /\ UNCHANGED <<prefs, repo>>
       \/ /\ repo # NoRepo
          /\ repo' = [repo EXCEPT !.branch = b.branchName]
          /\ prefs' = AfterColorAndReadOnly(
                        [prefs EXCEPT !.branchName = b.branchName, !.connected = TRUE], b)
          /\ Goto(c, "patch_init")
    /\ UNCHANGED issued

-----------------------------------------------------------------------------
(* The other handlers that reach the preferences.                          *)

\* init() and the event (85-99, 132-143): the request ends.
Initialized(c) ==
    /\ req[c].pc \in {"post_init", "patch_init"}
    /\ \E pc \in {"ok", "failed"} : Goto(c, pc)
    /\ UNCHANGED <<prefs, repo, issued>>

\* getPreferences (31-36): throws before reaching the service.
getPreferences(c) ==
    /\ Idle(c) /\ issued[c] < MaxRequests
    /\ req' = [req EXCEPT ![c] = [@ EXCEPT !.pc = "failed", !.op = "get"]]
    /\ issued' = [issued EXCEPT ![c] = @ + 1]
    /\ UNCHANGED <<prefs, repo>>

\* disconnect (148-154).
disconnect(c) ==
    /\ Idle(c) /\ issued[c] < MaxRequests
    /\ req' = [req EXCEPT ![c] = [@ EXCEPT !.pc = "disconnecting", !.op = "disconnect"]]
    /\ issued' = [issued EXCEPT ![c] = @ + 1]
    /\ UNCHANGED <<prefs, repo>>

DisconnectDone(c) ==
    /\ req[c].pc = "disconnecting"
    /\ \/ prefs' = Disconnected /\ repo' = NoRepo /\ Goto(c, "ok")
       \/ Goto(c, "failed") /\ UNCHANGED <<prefs, repo>>
    /\ UNCHANGED issued

\* pushWorkfolder (167-186): refused on a read-only branch, otherwise
\* setGitUserDetails and pushWorkfolder are awaited.
pushWorkfolder(c) ==
    /\ Idle(c) /\ issued[c] < MaxRequests
    /\ req' = [req EXCEPT ![c] = [@ EXCEPT !.op = "push",
                 !.pc = IF prefs.branchReadOnly THEN "failed" ELSE "pushing"]]
    /\ issued' = [issued EXCEPT ![c] = @ + 1]
    /\ UNCHANGED <<prefs, repo>>

Pushed(c) ==
    /\ req[c].pc = "pushing"
    /\ \E pc \in {"ok", "failed"} : Goto(c, pc)
    /\ UNCHANGED <<prefs, repo, issued>>

-----------------------------------------------------------------------------
InitialPrefs == [connected |-> FALSE, repositoryUrl |-> "", branchName |-> "",
                 branchReadOnly |-> FALSE, branchColor |-> ""]

Init ==
    /\ prefs = InitialPrefs
    /\ repo = NoRepo
    /\ req = [c \in Clients |-> [pc |-> "idle", op |-> "none", body |-> Undef,
                                 snap |-> InitialPrefs]]
    /\ issued = [c \in Clients |-> 0]

Next ==
    \/ \E c \in Clients, b \in Body : setPreferences(c, b) \/ updatePreferences(c, b)
    \/ \E c \in Clients :
          \/ PostValidated(c) \/ PostSaved(c) \/ PostInitialized(c) \/ PostConnected(c)
          \/ PostCleanedUp(c)
          \/ PatchValidated(c) \/ PatchBranchSet(c) \/ Initialized(c)
          \/ getPreferences(c) \/ disconnect(c) \/ DisconnectDone(c)
          \/ pushWorkfolder(c) \/ Pushed(c)

Spec == Init /\ [][Next]_vars

-----------------------------------------------------------------------------
TypeOK ==
    /\ prefs \in Prefs
    /\ repo \in {NoRepo} \cup [url : Urls, branch : Branches \cup {DefaultBranch}]
    /\ \A c \in Clients : req[c].pc \in {"idle", "ok", "failed", "post_validate",
            "post_saved", "post_initrepo", "post_connect", "post_cleanup", "post_init",
            "patch_validate", "patch_setbranch", "patch_init", "disconnecting", "pushing"}
    /\ issued \in [Clients -> 0..MaxRequests]

RepoMatchesPreferences ==
    (\A c \in Clients : Idle(c)) /\ prefs.connected =>
        /\ repo # NoRepo
        /\ repo.url = prefs.repositoryUrl
        /\ repo.branch = prefs.branchName

\* A PATCH that carries branchReadOnly and succeeds leaves the branch
\* read-only setting as the body gave it (the test of line 123).
ReadOnlyUpdateApplied ==
    \A c \in Clients :
        /\ req[c].pc = "ok" /\ req[c].op = "patch"
        /\ req[c].body.branchReadOnly # Undef
        => prefs.branchReadOnly = req[c].body.branchReadOnly

====
