--------------------------- MODULE ObjectExtensions ---------------------------
(***************************************************************************)
(* The Object extension functions of the expression language,             *)
(* src/packages/workflow/src/Extensions/ObjectExtensions.ts, as pure      *)
(* operators on JavaScript values.                                         *)
(*                                                                         *)
(* A JS value is a record tagged with its typeof: a string is the          *)
(* sequence of its characters, an object is a function from its own keys  *)
(* to values (key order plays no part in these functions), numbers are one *)
(* value, and null and undefined are values of their own.                  *)
(***************************************************************************)
EXTENDS Sequences, SequencesExt, FiniteSets, Functions

CONSTANT Keys   \* property names

JsString(s) == [t |-> "string", s |-> s]
JsObject(f) == [t |-> "object", o |-> f]
JsNumber    == [t |-> "number"]
Null        == [t |-> "null"]
Undefined   == [t |-> "undefined"]
NIL         == <<"n", "i", "l">>

IsObject(v) == v.t = "object"
IsString(v) == v.t = "string"

\* String.prototype.includes: the match is a contiguous part of the string.
Includes(s, m) == m \in SubSeqs(s)

\* What a function that throws ExpressionExtensionError returns here.
ExtensionError == "ExpressionExtensionError"

-----------------------------------------------------------------------------
\* isEmpty and isNotEmpty (lines 4-10): no own keys.
isEmpty(value) == DOMAIN value.o = {}
isNotEmpty(value) == ~isEmpty(value)

\* hasField (lines 12-15): `name in value`.
hasField(value, name) == name \in DOMAIN value.o

\* removeField (lines 17-26): a copy without the field, or the object itself.
removeField(value, name) ==
    IF name \in DOMAIN value.o
    THEN JsObject(Restrict(value.o, DOMAIN value.o \ {name}))
    ELSE value

\* The argument check of removeFieldsContaining and keepFieldsContaining
\* (lines 29-32, 44-49): `match` must be a non-empty string.
ValidMatch(match) == IsString(match) /\ match.s # <<>>

\* removeFieldsContaining (lines 28-41): copy, then delete every field whose
\* value is a string that includes the match.
removeFieldsContaining(value, match) ==
    IF ~ValidMatch(match) THEN ExtensionError
    ELSE JsObject(RestrictDomain(value.o, LAMBDA k :
                     ~(IsString(value.o[k]) /\ Includes(value.o[k].s, match.s))))

\* The deletion test of keepFieldsContaining (line 52): not a string, or a
\* string without the match.
DeletedByKeepStringsOnly(val, match) == IsString(val) /\ ~Includes(val.s, match.s)
DeletedByKeep(val, match) ==
    ~IsString(val) \/ (IsString(val) /\ ~Includes(val.s, match.s))

\* keepFieldsContaining (lines 43-58).
keepFieldsContaining(value, match) ==
    IF ~ValidMatch(match) THEN ExtensionError
    ELSE JsObject(RestrictDomain(value.o, LAMBDA k : ~DeletedByKeep(value.o[k], match)))

\* The test of compact (line 64): null, undefined, 'nil' and ''.
IsEmptyValueNoNil(val) == val \in {Null, Undefined} \/ (IsString(val) /\ val.s = <<>>)
IsEmptyValue(val) == val \in {Null, Undefined} \/ (IsString(val) /\ val.s \in {<<>>, NIL})

\* compact (lines 60-77): keep the fields whose value is not empty; an
\* object value is skipped when it has no keys, else compacted in turn.
RECURSIVE compact(_)
compact(value) ==
    LET kept == {k \in DOMAIN value.o :
                   /\ ~IsEmptyValue(value.o[k])
                   /\ ~(IsObject(value.o[k]) /\ isEmpty(value.o[k]))}
    IN JsObject([k \in kept |-> IF IsObject(value.o[k]) THEN compact(value.o[k])
                                ELSE value.o[k]])

=============================================================================
