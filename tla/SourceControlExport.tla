-------------------------- MODULE SourceControlExport --------------------------
(***************************************************************************)
(* SourceControlExportService (cli/src/environments/source-control/       *)
(* source-control-export.service.ee.ts): how the export of workflows,      *)
(* credentials, variables and tags writes the git work folder.             *)
(*                                                                         *)
(* `disk` is the work folder: a function from the paths present to what    *)
(* each file holds.  A path is <<folder, base>>; the base of a file is     *)
(* the id of what it holds, or a name (NameOf) where the code builds a     *)
(* path from a name.  Each export runs alone, so its awaits are not        *)
(* interleaved with other calls and it is one step; its Promise.all of     *)
(* writes is a set of writes that may each fail (a disk fault), and the    *)
(* others still happen.  The database is the environment: sharings and    *)
(* credentials are chosen in Init; tags and variables can change between   *)
(* exports.                                                                *)
(***************************************************************************)
EXTENDS Integers, Sequences, FiniteSets, FiniteSetsExt, Functions, TLC

CONSTANTS
    WfIds,          \* workflow ids
    CredIds,        \* credential ids
    TagIds,         \* tag ids
    VarIds,         \* variable ids
    CredData,       \* the decrypted data of each credential
    WfProjects,     \* the owner projects a workflow may have
    CredProjects,   \* the owner projects a credential may have
    WriteFaults     \* whether fsWriteFile may fail

\* JS values as the credential data holds them: a string is a secret, ''
\* or an expression ('={{ ... }}'); an object maps its keys to values.
JsString(s) == [t |-> "string", s |-> s]
JsObject(f) == [t |-> "object", o |-> f]
JsNumber    == [t |-> "number"]
JsBoolean   == [t |-> "boolean"]
Null        == [t |-> "null"]

\* The project of a workflow's or credential's owner sharing.
Projects == {"missing", "personal", "personalNoOwner", "team", "unknownType"}
ASSUME WfProjects \subseteq Projects /\ CredProjects \subseteq Projects
NoProject == "missing"   \* the id is not in the database

NameOf(x) == "name of " \o x
getWorkflowPath(b) == <<"workflows", b>>
getCredentialsPath(b) == <<"credentials", b>>
VariablesPath == <<"git", "variables">>
TagsPath == <<"git", "tags">>

VARIABLES
    wfProject,      \* the project owning each workflow, or missing
    credProject,    \* the project owning each credential, or missing
    tags,           \* tagRepository.find()
    variables,      \* variablesService.getAllCached()
    disk,           \* the work folder
    last            \* the last export's result, or its error

vars == <<wfProject, credProject, tags, variables, disk, last>>
db == <<wfProject, credProject, tags, variables>>

\* Write the files of `content` that do not fail, and record the result.
WriteAll(content, res) ==
    \E failed \in IF WriteFaults THEN SUBSET DOMAIN content ELSE {{}} :
        /\ disk' = [p \in DOMAIN disk \cup (DOMAIN content \ failed) |->
                       IF p \in DOMAIN content THEN content[p] ELSE disk[p]]
        /\ last' = IF failed = {} THEN res ELSE [ok |-> FALSE, op |-> res.op]

\* The owner derivation of exportWorkflowsToWorkFolder (lines 115-145).
WorkflowOwner(k, w) ==
    CASE k = "personal" -> [type |-> "personal", of |-> w]
      [] k = "team"     -> [type |-> "team", of |-> w]

\* exportWorkflowsToWorkFolder (lines 106-162) with
\* writeExportableWorkflowsToExportFolder (lines 83-104).
exportWorkflowsToWorkFolder(cands) ==
    LET found == {w \in cands : wfProject[w] # NoProject}
    IN /\ \/ /\ \E w \in found : wfProject[w] \notin {"personal", "team"}
             /\ last' = [ok |-> FALSE, op |-> "workflows"] /\ UNCHANGED disk
          \/ /\ \A w \in found : wfProject[w] \in {"personal", "team"}
             /\ WriteAll([p \in {getWorkflowPath(w) : w \in found} |->
                             WorkflowOwner(wfProject[p[2]], p[2])],
                         [ok |-> TRUE, op |-> "workflows", count |-> Cardinality(found),
                          files |-> {[id |-> w, name |-> getWorkflowPath(NameOf(w))] :
                                       w \in found},
                          missingIds |-> {}])
       /\ UNCHANGED db

\* Mutant: copies nested objects instead of sanitizing them.
replaceCredentialDataShallow(data) ==
    [k \in {j \in DOMAIN data : data[j] # Null} |->
        LET v == data[k] IN
        CASE v.t = "string" -> IF v.s = "expression" THEN v ELSE JsString("")
          [] OTHER          -> v]

RECURSIVE replaceCredentialData(_)
\* replaceCredentialData (lines 236-258): drop null values, recurse into
\* objects, blank every string that holds no expression, keep the rest.
replaceCredentialData(data) ==
    [k \in {j \in DOMAIN data : data[j] # Null} |->
        LET v == data[k] IN
        CASE v.t = "object" -> JsObject(replaceCredentialData(v.o))
          [] v.t = "string" -> IF v.s = "expression" THEN v ELSE JsString("")
          [] OTHER          -> v]

\* The owner of a credential stub (lines 279-296): null unless personal with
\* an owner relation, or team.
CredentialOwner(k, c) ==
    CASE k = "personal" -> [type |-> "personal", of |-> c]
      [] k = "team"     -> [type |-> "team", of |-> c]
      [] OTHER          -> Null

\* The stub written for one credential (lines 302-311): its data without
\* oauthTokenData, sanitized.
CredentialStub(c) ==
    [data |-> replaceCredentialData(
                 Restrict(CredData[c], DOMAIN CredData[c] \ {"oauthTokenData"})),
     ownedBy |-> CredentialOwner(credProject[c], c)]

\* Mutant: filters the found ids instead of the candidates.
MissingIdsOfFound(cands, found) ==
    IF Cardinality(found) # Cardinality(cands)
    THEN {c \in found : c \notin cands} ELSE {}

\* missingIds (lines 267-273): the candidates not found, computed only
\* when the counts differ.
MissingIds(cands, found) ==
    IF Cardinality(found) # Cardinality(cands)
    THEN {c \in cands : c \notin found} ELSE {}

\* exportCredentialsToWorkFolder (lines 260-332).
exportCredentialsToWorkFolder(cands) ==
    LET found == {c \in cands : credProject[c] # NoProject}
        missingIds == MissingIds(cands, found)
    IN /\ WriteAll([p \in {getCredentialsPath(c) : c \in found} |-> CredentialStub(p[2])],
                   [ok |-> TRUE, op |-> "credentials", count |-> Cardinality(found),
                    files |-> {[id |-> c, name |-> getCredentialsPath(NameOf(c))] :
                                 c \in found},
                    missingIds |-> missingIds, cands |-> cands])
       /\ UNCHANGED db

\* The result of an export that writes no file (lines 170-174, 202-206).
NoFile(op) == [ok |-> TRUE, op |-> op, count |-> 0, files |-> {}, missingIds |-> {}]

\* exportVariablesToWorkFolder (lines 164-194): no variables, no file;
\* otherwise every value is blanked.
exportVariablesToWorkFolder ==
    /\ \/ /\ variables = {}
          /\ last' = NoFile("variables") /\ UNCHANGED disk
       \/ /\ variables # {}
          /\ WriteAll(VariablesPath :> [v \in variables |-> ""],
                      [ok |-> TRUE, op |-> "variables", count |-> Cardinality(variables),
                       files |-> {[id |-> "", name |-> VariablesPath]}, missingIds |-> {}])
    /\ UNCHANGED db

\* exportTagsToWorkFolder (lines 196-234): no tags, no file; otherwise the
\* tags (and their workflow mappings).
exportTagsToWorkFolder ==
    /\ \/ /\ tags = {}
          /\ last' = NoFile("tags") /\ UNCHANGED disk
       \/ /\ tags # {}
          /\ WriteAll(TagsPath :> tags,
                      [ok |-> TRUE, op |-> "tags", count |-> Cardinality(tags),
                       files |-> {[id |-> "", name |-> TagsPath]}, missingIds |-> {}])
    /\ UNCHANGED db

\* rmFilesFromExportFolder (lines 74-81): rmSync each file in insertion
\* order; the first that fails (a missing file) ends the loop, the error is
\* logged, and the whole set is returned.
rmFilesFromExportFolder(files) ==
    LET stop == {i \in 1..Len(files) : files[i] \notin DOMAIN disk}
        n == IF stop = {} THEN Len(files) ELSE Min(stop) - 1
        gone == {files[i] : i \in 1..n}
    IN /\ disk' = [p \in DOMAIN disk \ gone |-> disk[p]]
       /\ last' = [ok |-> TRUE, op |-> "rm", files |-> Range(files)]
       /\ UNCHANGED db

\* deleteRepositoryFolder (lines 66-72): rm -r of the git folder; an error
\* is only logged.
deleteRepositoryFolder ==
    /\ disk' = << >>
    /\ last' = [ok |-> TRUE, op |-> "delete"]
    /\ UNCHANGED db

\* The database changes between two exports.
EditTags == \E t \in SUBSET TagIds :
    tags' = t /\ last' = [ok |-> TRUE, op |-> "edit"]
    /\ UNCHANGED <<wfProject, credProject, variables, disk>>
EditVariables == \E v \in SUBSET VarIds :
    variables' = v /\ last' = [ok |-> TRUE, op |-> "edit"]
    /\ UNCHANGED <<wfProject, credProject, tags, disk>>

AllPaths ==
    {getWorkflowPath(w) : w \in WfIds} \cup {getWorkflowPath(NameOf(w)) : w \in WfIds}
    \cup {getCredentialsPath(c) : c \in CredIds} \cup {VariablesPath, TagsPath}

Init ==
    /\ wfProject \in [WfIds -> WfProjects]
    /\ credProject \in [CredIds -> CredProjects]
    /\ tags \in SUBSET TagIds
    /\ variables \in SUBSET VarIds
    /\ disk = << >>
    /\ last = [ok |-> TRUE, op |-> "none"]

Next ==
    \/ \E cands \in SUBSET WfIds \ {{}} : exportWorkflowsToWorkFolder(cands)
    \/ \E cands \in SUBSET CredIds \ {{}} : exportCredentialsToWorkFolder(cands)
    \/ exportVariablesToWorkFolder
    \/ exportTagsToWorkFolder
    \/ \E p, q \in AllPaths : rmFilesFromExportFolder(IF p = q THEN <<p>> ELSE <<p, q>>)
    \/ deleteRepositoryFolder
    \/ EditTags \/ EditVariables

Spec == Init /\ [][Next]_vars

-----------------------------------------------------------------------------
TypeOK ==
    /\ wfProject \in [WfIds -> Projects] /\ credProject \in [CredIds -> Projects]
    /\ tags \subseteq TagIds /\ variables \subseteq VarIds
    /\ DOMAIN disk \subseteq AllPaths

\* Every value of a JS object, at any depth, that is not an object.
RECURSIVE Leaves(_)
Leaves(o) == UNION {IF o[k].t = "object" THEN Leaves(o[k].o) ELSE {o[k]} : k \in DOMAIN o}

\* No credential stub in the work folder, whatever was exported, removed or
\* re-exported before, holds oauthTokenData, a plain string or a null at
\* any depth of its data: exportCredentialsToWorkFolder sanitizes nested
\* objects as well as top-level fields.
NoSecretInStubs ==
    \A p \in DOMAIN disk :
        p[1] = "credentials" =>
            /\ "oauthTokenData" \notin DOMAIN disk[p].data
            /\ Leaves(disk[p].data) \cap {JsString("secret"), Null} = {}

\* A credential export that succeeds accounts for every candidate: it is
\* in missingIds, or its stub, as the database has it now, is on disk.
CredentialsAccounted ==
    last.op = "credentials" /\ last.ok =>
        \A c \in last.cands :
            \/ c \in last.missingIds
            \/ /\ getCredentialsPath(c) \in DOMAIN disk
               /\ disk[getCredentialsPath(c)] = CredentialStub(c)

\* The files a successful workflow or credential export reports are the
\* files it wrote.
ReportedFilesWritten ==
    last.ok /\ last.op \in {"workflows", "credentials"} =>
        \A f \in last.files : f.name \in DOMAIN disk

\* After a successful tags or variables export, the file in the work folder,
\* if any, holds the rows the database has now.
ExportReflectsDatabase ==
    /\ last.ok /\ last.op = "tags" /\ TagsPath \in DOMAIN disk =>
           disk[TagsPath] = tags
    /\ last.ok /\ last.op = "variables" /\ VariablesPath \in DOMAIN disk =>
           DOMAIN disk[VariablesPath] = variables

\* rmFilesFromExportFolder returns only files that are gone.
RemovedFilesGone ==
    last.op = "rm" => \A p \in last.files : p \notin DOMAIN disk

====
