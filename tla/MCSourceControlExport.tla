------------------------ MODULE MCSourceControlExport ------------------------
(* Credential data for SourceControlExport: c1 nests a secret one level  *)
(* down beside an expression, a number, a boolean and a null, and holds   *)
(* an oauthTokenData; c2 is flat.                                         *)
EXTENDS SourceControlExport

MCCredData ==
    [c \in CredIds |->
        IF c = "c1"
        THEN [apiKey |-> JsString("secret"),
              oauthTokenData |-> JsObject([access |-> JsString("secret")]),
              nested |-> JsObject([token |-> JsString("secret"),
                                   url |-> JsString("expression"),
                                   port |-> JsNumber, tls |-> JsBoolean,
                                   unset |-> Null])]
        ELSE [user |-> JsString("expression"), password |-> JsString("")]]

====
