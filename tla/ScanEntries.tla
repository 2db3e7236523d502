------------------------------- MODULE ScanEntries -------------------------------
(***************************************************************************)
(* scanToEntries (read.go): how ReadStream finds the entries array of the  *)
(* log among the tokens of a JSON document.                                *)
(*                                                                         *)
(* `stack' is the document: the containers that are open where the decoder *)
(* is, as the JSON grammar has them.  Each action reads one token that the *)
(* grammar allows there, and the scanner, which sees only the token, moves *)
(* its own variables.  A key and a string value are the same token to it.  *)
(***************************************************************************)
EXTENDS Naturals, Sequences

CONSTANTS
    Strings,    \* the strings a document may contain, as a key or as a value
    MaxDepth    \* bound of the model: how deep containers nest

ASSUME StringsAssumption == {"log", "entries"} \subseteq Strings
ASSUME DepthAssumption == MaxDepth \in Nat

VARIABLES
    stack,      \* the open containers, outermost first
    inObject,   \* whether each open container is an object
    keyOf,      \* the latest key seen in each
    expectKey,  \* the next string is a key
    result      \* "scanning", "found" or "error"

docVars  == <<stack>>
scanVars == <<inObject, keyOf, expectKey, result>>
vars     == <<docVars, scanVars>>

\* What keyOf holds before the first key of a container.
NoKey == ""

\* `key' is the member of an object that is being read; `atKey' holds when the grammar
\* wants a key next, or the end of the object.
Frame == [object : BOOLEAN, key : Strings \cup {NoKey}, atKey : BOOLEAN]

Init ==
    /\ stack = <<>>
    /\ inObject = <<>> /\ keyOf = <<>> /\ expectKey = FALSE
    /\ result = "scanning"

-------------------------------------------------------------------------------
(***************************************************************************)
(* The grammar.                                                            *)
(***************************************************************************)
Innermost == stack[Len(stack)]

Front(seq) == SubSeq(seq, 1, Len(seq) - 1)

AtKey   == stack # <<>> /\ Innermost.atKey
AtValue == ~AtKey

\* A value is complete: in an object a key or the end comes next.
AfterValue(s) ==
    IF s = <<>> THEN s ELSE [s EXCEPT ![Len(s)].atKey = s[Len(s)].object]

-------------------------------------------------------------------------------
(***************************************************************************)
(* What the scanner does with a token.                                     *)
(***************************************************************************)
InAnObject(objects) == objects # <<>> /\ objects[Len(objects)]

Push(isObject) ==
    /\ inObject' = Append(inObject, isObject)
    /\ keyOf' = Append(keyOf, NoKey)
    /\ expectKey' = isObject

\* Mutant: what follows a closed container is taken for a value.
ThenValue(objects) == FALSE
\* expectKey after a closed container, from the containers still open.
AfterClose(objects) == InAnObject(objects)

Pop ==
    /\ inObject' = (IF inObject = <<>> THEN <<>> ELSE Front(inObject))
    /\ keyOf' = (IF inObject = <<>> THEN <<>> ELSE Front(keyOf))
    /\ expectKey' = AfterClose(inObject')

\* Mutant: any "entries" key will do.
AnyEntries(key) == key = "entries"
\* The entries key of an object that is itself the value of a "log" key.
IsLogEntries(key) ==
    key = "entries" /\ Len(inObject) >= 2 /\ keyOf[Len(inObject) - 1] = "log"

SeeKey(key) ==
    /\ keyOf' = [keyOf EXCEPT ![Len(inObject)] = key]
    /\ IF IsLogEntries(key)
       THEN result' = "found" /\ UNCHANGED expectKey
       ELSE expectKey' = FALSE /\ UNCHANGED result
    /\ UNCHANGED inObject

SeeScalar ==
    /\ expectKey' = InAnObject(inObject)
    /\ UNCHANGED <<inObject, keyOf, result>>

SeeString(s) == IF expectKey THEN SeeKey(s) ELSE SeeScalar

-------------------------------------------------------------------------------
OpenContainer(isObject) ==
    /\ result = "scanning"
    /\ AtValue
    /\ Len(stack) < MaxDepth
    /\ stack' = Append(stack, [object |-> isObject, key |-> NoKey, atKey |-> isObject])
    /\ Push(isObject)
    /\ UNCHANGED result

CloseContainer ==
    /\ result = "scanning"
    /\ stack # <<>>
    /\ Innermost.atKey \/ ~Innermost.object
    /\ stack' = AfterValue(Front(stack))
    /\ Pop
    /\ UNCHANGED result

Key(s) ==
    /\ result = "scanning"
    /\ AtKey
    /\ stack' = [stack EXCEPT ![Len(stack)].key = s, ![Len(stack)].atKey = FALSE]
    /\ SeeString(s)

StringValue(s) ==
    /\ result = "scanning"
    /\ AtValue
    /\ stack' = AfterValue(stack)
    /\ SeeString(s)

\* A number, a boolean or null.
Scalar ==
    /\ result = "scanning"
    /\ AtValue
    /\ stack' = AfterValue(stack)
    /\ SeeScalar

\* The text ends, or is not JSON any more.
TokenFails ==
    /\ result = "scanning"
    /\ result' = "error"
    /\ UNCHANGED <<docVars, inObject, keyOf, expectKey>>

Next ==
    \/ \E isObject \in BOOLEAN : OpenContainer(isObject)
    \/ CloseContainer
    \/ \E s \in Strings : Key(s) \/ StringValue(s)
    \/ Scalar
    \/ TokenFails
    \/ result # "scanning" /\ UNCHANGED vars

Spec == Init /\ [][Next]_vars

-------------------------------------------------------------------------------
TypeOK ==
    /\ stack \in Seq(Frame) /\ Len(stack) <= MaxDepth
    /\ inObject \in Seq(BOOLEAN) /\ keyOf \in Seq(Strings \cup {NoKey})
    /\ Len(inObject) = Len(stack) /\ Len(keyOf) = Len(stack)
    /\ expectKey \in BOOLEAN
    /\ result \in {"scanning", "found", "error"}

\* The scanner follows the document: it knows which containers are open and tells a key
\* from a string value wherever it is, which also keeps keyOf[depth-1] inside the slice
\* (read.go 112-119).
FollowsGrammar ==
    /\ \A i \in DOMAIN stack :
         inObject[i] = stack[i].object /\ keyOf[i] = stack[i].key
    /\ result # "found" => expectKey = AtKey

\* The decoder has just read the key "entries" of an object under a key "log".
AtLogEntries ==
    LET n == Len(stack) IN
      /\ n >= 2
      /\ stack[n].object /\ ~stack[n].atKey /\ stack[n].key = "entries"
      /\ stack[n - 1].key = "log"

\* The scanner stops at an entries key of a log, and at nothing else: not at a value,
\* not at a key of the same name elsewhere, and it never reads past one (read.go
\* 112-119, 158-165).
StopsAtLogEntries == (result = "found") <=> AtLogEntries /\ result # "error"

\* "so that only the log's own entries array matches" (read.go 118-119): the log is
\* the member of the outermost object.
OnlyTheLogsOwn == result = "found" => Len(stack) = 2
===============================================================================
