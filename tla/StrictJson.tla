----------------------------- MODULE StrictJson -----------------------------
(***************************************************************************)
(* parse_strict_ijson (jcs.rs): one call on one text.  The parser descends *)
(* recursively; here the calls of parse_value that are under way are a     *)
(* stack, and an action reads one token.                                   *)
(*                                                                         *)
(*   check       the limits and the encoding of the whole text             *)
(*   value       parse_value begins                                        *)
(*   first_item  after "[", which "]" may follow                           *)
(*   first_name  after "{", which "}" may follow                           *)
(*   name        a member's name, then its                                 *)
(*   colon                                                                 *)
(*   separator   after a value inside an array or an object                *)
(*   end         after the outermost value                                 *)
(*   done        the verdict is out                                        *)
(***************************************************************************)
EXTENDS JsonText

CONSTANTS
    Texts,      \* the texts a call may be given
    Limits      \* its max_utf8_bytes and max_depth: records of size and depth

ASSUME TextAssumption == Texts \subseteq Seq(Tokens)
ASSUME StringAssumption == \A t \in Texts : Delimited(t)
ASSUME LimitAssumption == Limits \subseteq [size : Nat, depth : Nat]

VARIABLES
    text, limits,   \* the arguments
    pc,             \* see above
    offset,         \* the next token
    stack,          \* the arrays and objects being read, outermost first
    verdict         \* "pending", "Ok" or an error

parserVars == <<text, limits, pc, offset, stack, verdict>>

IJsonErrors ==
    {"SizeLimit", "DepthLimit", "InvalidUtf8", "LoneSurrogate",
     "DuplicateMember", "UnsafeNumber", "Malformed"}

StringErrors == {"Malformed", "LoneSurrogate"}

token == Kind(text, offset)
Top == stack[Len(stack)]

\* An array or object being read: the names of its members so far, and the
\* name of the member whose value is being read.
Frames(Names) == [kind : Opening, names : SUBSET Names, name : Names]
Array == [kind |-> "[", names |-> {}, name |-> << >>]
Object == [kind |-> "{", names |-> {}, name |-> << >>]

----------------------------------------------------------------------------
(* The steps of the parser *)

StrictInit ==
    /\ text \in Texts
    /\ limits \in Limits
    /\ pc = "check"
    /\ offset = 1
    /\ stack = << >>
    /\ verdict = "pending"

Return(answer) ==
    /\ verdict' = answer
    /\ pc' = "done"
    /\ UNCHANGED <<text, limits, offset, stack>>

\* The parser goes on, past the next token or not.
Go(place, to, frames) ==
    /\ pc' = to
    /\ offset' = place
    /\ stack' = frames
    /\ UNCHANGED <<text, limits, verdict>>

\* The outermost value ends like any other.
Complete_m(frames) ==
    Go(offset + 1, "separator", frames)

\* An object gains a member when its value has been read.
Filled(frame) ==
    IF frame.kind = "{" THEN [frame EXCEPT !.names = @ \cup {frame.name}] ELSE frame

\* A value has ended; frames are being read around it.
Complete(frames) ==
    LET n == Len(frames)
    IN  IF n = 0 THEN Go(offset + 1, "end", frames)
        ELSE Go(offset + 1, "separator", [frames EXCEPT ![n] = Filled(frames[n])])

\* What is wrong with the input as a whole, in the order of the code.
InputFault ==
    CASE limits.size < 1 \/ Len(Symbols(text)) > limits.size -> "SizeLimit"
      [] limits.size >= Len(Symbols(text)) /\ limits.size >= 1 ->
            CASE limits.depth < 1 -> "DepthLimit"
              [] limits.depth >= 1 /\ ~IsUtf8(text) -> "InvalidUtf8"
              [] OTHER -> "none"

RefuseInput == pc = "check" /\ InputFault # "none" /\ Return(InputFault)

StartParser ==
    pc = "check" /\ InputFault = "none" /\ Go(offset, "value", stack)

\* depth, the argument of parse_value, is one more than what is being read.
\* The limit is one level off.
TooDeep_m == Len(stack) > limits.depth

TooDeep == Len(stack) + 1 > limits.depth

RefuseDepth == pc = "value" /\ TooDeep /\ Return("DepthLimit")

ReadString ==
    /\ pc = "value" /\ ~TooDeep /\ token = "string"
    /\ Says(text, offset).error = "none"
    /\ Complete(stack)

\* A string that cannot be read, as a value or as a name.
RefuseString ==
    /\ \/ pc = "name"
       \/ pc = "value" /\ ~TooDeep
    /\ token = "string"
    /\ \E error \in StringErrors : Says(text, offset).error = error /\ Return(error)

ReadNumber ==
    /\ pc = "value" /\ ~TooDeep /\ token = "number"
    /\ IF text[offset].safe THEN Complete(stack) ELSE Return("UnsafeNumber")

ReadLiteral ==
    pc = "value" /\ ~TooDeep /\ token = "literal" /\ Complete(stack)

OpenArray ==
    /\ pc = "value" /\ ~TooDeep /\ token = "["
    /\ Go(offset + 1, "first_item", Append(stack, Array))

OpenObject ==
    /\ pc = "value" /\ ~TooDeep /\ token = "{"
    /\ Go(offset + 1, "first_name", Append(stack, Object))

RefuseValue ==
    /\ pc = "value" /\ ~TooDeep
    /\ token \notin Opening \cup {"string", "number", "literal"}
    /\ Return("Malformed")

ReadFirstItem ==
    pc = "first_item" /\ token # "]" /\ Go(offset, "value", stack)

ReadFirstName ==
    pc = "first_name" /\ token # "}" /\ Go(offset, "name", stack)

Named(frame, name) == [frame EXCEPT !.name = name]

\* A name is checked against the other names of the object being read, before
\* its colon.  The bug: against none.
ReadName_m ==
    /\ pc = "name" /\ token = "string" /\ Says(text, offset).error = "none"
    /\ Go(offset + 1, "colon", [stack EXCEPT ![Len(stack)] = Named(Top, Says(text, offset).out)])

ReadName ==
    /\ pc = "name" /\ token = "string" /\ Says(text, offset).error = "none"
    /\ Says(text, offset).out \notin Top.names
    /\ Go(offset + 1, "colon", [stack EXCEPT ![Len(stack)] = Named(Top, Says(text, offset).out)])

RefuseName ==
    /\ pc = "name" /\ token = "string" /\ Says(text, offset).error = "none"
    /\ Says(text, offset).out \in Top.names
    /\ Return("DuplicateMember")

ReadColon ==
    pc = "colon" /\ token = ":" /\ Go(offset + 1, "value", stack)

ReadComma ==
    /\ pc = "separator" /\ token = ","
    /\ Go(offset + 1, IF Top.kind = "{" THEN "name" ELSE "value", stack)

\* The closing bracket of an empty container or after its last value.
\* The bug: an object ends as an array would.
Close_m ==
    /\ \/ pc = "first_item" /\ token = "]"
       \/ pc = "first_name" /\ token = "}"
       \/ pc = "separator" /\ token \in Closing
    /\ Complete(SubSeq(stack, 1, Len(stack) - 1))

Close ==
    /\ \/ pc = "first_item" /\ token = "]"
       \/ pc = "first_name" /\ token = "}"
       \/ pc = "separator" /\ token = CloserOf[Top.kind]
    /\ Complete(SubSeq(stack, 1, Len(stack) - 1))

\* Another token than the one that has to be here, or none.
RefuseToken ==
    /\ \/ pc = "name" /\ token # "string"
       \/ pc = "colon" /\ token # ":"
       \/ pc = "separator" /\ token \notin {",", CloserOf[Top.kind]}
       \/ pc = "end" /\ offset # Len(text) + 1
    /\ Return("Malformed")

\* The text ends with its value.
Accept == pc = "end" /\ offset = Len(text) + 1 /\ Return("Ok")

StrictNext ==
    \/ RefuseInput \/ StartParser
    \/ RefuseDepth \/ ReadString \/ RefuseString \/ ReadNumber \/ ReadLiteral
    \/ OpenArray \/ OpenObject \/ RefuseValue
    \/ ReadFirstItem \/ ReadFirstName \/ ReadName \/ RefuseName
    \/ ReadColon \/ ReadComma \/ Close \/ RefuseToken
    \/ Accept

\* The call is plain sequential code: a step that can be taken is taken.
StrictSpec == StrictInit /\ [][StrictNext]_parserVars /\ WF_parserVars(StrictNext)

----------------------------------------------------------------------------
(* Properties *)

\* The type invariant.  parse_value is under way around a separator, a name
\* or a colon, and around no end.
StrictTypeOK ==
    /\ text \in Seq(Tokens) /\ limits \in Limits
    /\ pc \in {"check", "value", "first_item", "first_name", "name", "colon",
              "separator", "end", "done"}
    /\ offset \in 1..(Len(text) + 1)
    /\ \A n \in 1..Len(stack) : stack[n].kind \in Opening
    /\ verdict \in {"pending", "Ok"} \cup IJsonErrors
    /\ pc \in {"first_item", "first_name", "name", "colon", "separator"} => stack # << >>
    /\ pc \in {"first_name", "name", "colon"} => Top.kind = "{"
    /\ pc \in {"check", "end"} => stack = << >>
    /\ pc = "done" <=> verdict # "pending"

\* The parser is as deep in calls as the text is in brackets at that place,
\* and no place it has reached, the last of an accepted text included, is
\* deeper than the caller's limit: arrays and objects are both counted, and
\* every way out of one is.
RecursionBounded ==
    /\ Len(stack) = Nesting(text, offset)
    /\ \A i \in 1..offset : Nesting(text, i) <= limits.depth
    /\ verdict = "Ok" => offset = Len(text) + 1

\* The verdict on a text within the size limit is what is wrong with the
\* first place where anything is wrong, read off the tokens without a parser:
\* the error that is reported does not depend on the way the parser went.
VerdictNamesFirstOffence ==
    verdict # "pending" /\ InputFault = "none" =>
        verdict = FirstOffence(text, limits.depth)

\* Raw texts have two gates, the scan of validate_json_text and this parser,
\* each with its own reading of escapes.  They agree: the scan lets through
\* what the parser accepts, and finds the surrogate the parser stumbles over.
ScanAgreesWithParser ==
    /\ verdict = "Ok" => validate_json_text(text) = "ok"
    /\ verdict = "LoneSurrogate" => validate_json_text(text) = "lone_surrogate"
    /\ verdict = "InvalidUtf8" => validate_json_text(text) = "invalid_utf8"

\* A text and limits are acceptable when the text is a document of the
\* grammar, nested and sized within the limits.
Acceptable(argument) ==
    LET limit == argument[2]
    IN  /\ limit.size >= 1 /\ Len(Symbols(argument[1])) <= limit.size
        /\ limit.depth >= 1
        /\ IsDocument(argument[1], limit.depth)

IsParserCall(argument) == argument[1] \in Texts /\ argument[2] \in Limits

ParserPromise == INSTANCE Decision WITH
    IsArgument <- IsParserCall, Good <- Acceptable,
    argument <- <<text, limits>>,
    answer <- IF verdict = "pending" THEN "pending"
              ELSE IF verdict = "Ok" THEN "yes" ELSE "no"

\* Every call returns, and accepts exactly the documents of the grammar.
ImplementsParserPromise == ParserPromise!Spec
=============================================================================
