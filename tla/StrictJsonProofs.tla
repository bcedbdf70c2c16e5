------------------------- MODULE StrictJsonProofs -------------------------
(***************************************************************************)
(* Proofs about StrictJson, for texts of every length and any limits.      *)
(*                                                                         *)
(* A string is read or refused, and its name is equal to another or not:   *)
(* what it says matters only where the parser is compared with the scan,   *)
(* which reads the same escapes by a recursion of its own.                 *)
(*                                                                         *)
(* DescentInv is the type invariant, the bound on the depth, and that the  *)
(* stack is one of frames.  The stack changes with brackets only, and it   *)
(* is a bracket of the text each time: NestingStep.                        *)
(*                                                                         *)
(* OffenceInv adds where the parser is in the text (Located): it reads a   *)
(* place for what the place is for, nothing is wrong before it, and its    *)
(* stack, built by pushing and popping, is what JsonText reads off the     *)
(* text: the bracket that opened each level and the names in it (Tied).    *)
(*                                                                         *)
(* ScanInv adds what the scan has to know (Scanned): all strings so far    *)
(* could be read, so the scan was outside of strings at the end of each.   *)
(*                                                                         *)
(* PromiseInv adds to OffenceInv what there is still to be read (Left):    *)
(* the text is a value of the grammar exactly if the rest of it, from the  *)
(* next token on, ends the levels on the stack, inside out.                *)
(***************************************************************************)
EXTENDS StrictJson, JsonTextProofs

Framed == \E Names : stack \in Seq(Frames(Names))

DescentInv == StrictTypeOK /\ Framed /\ RecursionBounded

\* What the steps do to a sequence of frames, as to any sequence.
LEMMA StackFacts ==
    ASSUME NEW S, NEW s \in Seq(S)
    PROVE  /\ \A n \in 1..Len(s) : s[n] \in S
           /\ \A T : S \subseteq T => s \in Seq(T)
           /\ s # << >> =>
                /\ Len(s) \in 1..Len(s)
                /\ SubSeq(s, 1, Len(s) - 1) \in Seq(S)
                /\ Len(SubSeq(s, 1, Len(s) - 1)) = Len(s) - 1
<1>1. \A n \in 1..Len(s) : s[n] \in S
  OBVIOUS
<1>2. ASSUME NEW T, S \subseteq T PROVE s \in Seq(T)
  <2>1. Len(s) \in Nat /\ s \in [1..Len(s) -> T]
    BY <1>2
  <2>. QED BY <2>1
<1>3. ASSUME s # << >>
      PROVE  /\ Len(s) \in 1..Len(s)
             /\ SubSeq(s, 1, Len(s) - 1) \in Seq(S)
             /\ Len(SubSeq(s, 1, Len(s) - 1)) = Len(s) - 1
  <2>1. Len(s) \in Nat \ {0}
    BY <1>3
  <2>2. \A i \in 1..(Len(s) - 1) : s[i] \in S
    OBVIOUS
  <2>3. SubSeq(s, 1, Len(s) - 1) \in Seq(S)
    BY <2>1, <2>2, SubSeqProperties
  <2>4. Len(SubSeq(s, 1, Len(s) - 1)) = Len(s) - 1
    <3>. DEFINE m == Len(s) - 1
    <3>1. m \in Nat
      BY <2>1
    <3>. HIDE DEF m
    <3>2. \A i \in 1..m : s[i] \in S
      BY <2>2 DEF m
    <3>3. Len(SubSeq(s, 1, m)) = IF 1 <= m THEN m - 1 + 1 ELSE 0
      BY <3>1, <3>2, SubSeqProperties
    <3>4. Len(SubSeq(s, 1, m)) = m
      BY <3>1, <3>3
    <3>. QED BY <3>4 DEF m
  <2>. QED BY <2>1, <2>3, <2>4
<1>. QED BY <1>1, <1>2, <1>3

\* What setting its last element does to a sequence.
LEMMA TopFacts ==
    ASSUME NEW S, NEW s \in Seq(S), s # << >>, NEW e \in S,
           NEW r, r = [s EXCEPT ![Len(s)] = e]
    PROVE  r \in Seq(S) /\ Len(r) = Len(s) /\ r # << >> /\ r[Len(r)] = e
<1>1. Len(s) \in 1..Len(s) /\ Len(s) # 0
  OBVIOUS
<1>. DEFINE x == [s EXCEPT ![Len(s)] = e]
<1>2. x \in [1..Len(s) -> S] /\ x[Len(s)] = e
  BY <1>1
<1>. HIDE DEF x
<1>3. x \in Seq(S) /\ Len(x) = Len(s) /\ x # << >>
  BY <1>1, <1>2
<1>4. r = x
  BY DEF x
<1>. QED BY <1>2, <1>3, <1>4

LEMMA LastFacts ==
    ASSUME NEW S, NEW s \in Seq(S), s # << >>
    PROVE  /\ Len(s) \in Nat /\ Len(s) \in 1..Len(s) /\ s[Len(s)] \in S
           /\ \A n \in 1..Len(s) : n \in Int /\ s[n] \in S
           /\ \A e : LET r == [s EXCEPT ![Len(s)] = e]
                     IN  /\ Len(r) = Len(s) /\ r[Len(s)] = e
                         /\ \A n \in 1..Len(s) : n # Len(s) => r[n] = s[n]
<1>1. Len(s) \in Nat /\ Len(s) # 0 /\ DOMAIN s = 1..Len(s)
  OBVIOUS
<1>2. Len(s) \in 1..Len(s) /\ \A n \in 1..Len(s) : n \in Int /\ s[n] \in S
  BY <1>1
<1>3. ASSUME NEW e
      PROVE  LET r == [s EXCEPT ![Len(s)] = e]
             IN  /\ Len(r) = Len(s) /\ r[Len(s)] = e
                 /\ \A n \in 1..Len(s) : n # Len(s) => r[n] = s[n]
  <2> DEFINE T == S \cup {e}
             r == [s EXCEPT ![Len(s)] = e]
  <2>1. s \in Seq(T)
    BY StackFacts
  <2>2. r \in Seq(T) /\ Len(r) = Len(s) /\ r[Len(r)] = e
    BY <2>1, TopFacts
  <2>3. \A n \in 1..Len(s) : n # Len(s) => r[n] = s[n]
    BY <1>1
  <2>. HIDE DEF r
  <2>. QED BY <2>2, <2>3
<1>. QED BY <1>1, <1>2, <1>3

\* There is a token to read wherever a token is read.
LEMMA TokenIsThere ==
    ASSUME StrictTypeOK, token # End
    PROVE  offset \in DOMAIN text /\ offset + 1 \in 1..(Len(text) + 1)
<1>1. text \in Seq(Tokens) /\ offset \in 1..(Len(text) + 1)
  BY DEF StrictTypeOK
<1>2. offset \in DOMAIN text
  BY DEF token, Kind
<1>. QED BY <1>1, <1>2

----------------------------------------------------------------------------
(* The ways a step goes on *)

\* Nothing is read yet.
LEMMA DescentInit == StrictInit => DescentInv
<1>. SUFFICES ASSUME StrictInit PROVE DescentInv
  OBVIOUS
<1>1. text \in Seq(Tokens) /\ limits \in [size : Nat, depth : Nat]
  BY TextAssumption, LimitAssumption DEF StrictInit
<1>2. StrictTypeOK
  BY <1>1 DEF StrictInit, StrictTypeOK
<1>3. Framed
  BY DEF StrictInit, Framed
<1>4. RecursionBounded
  BY <1>1, NestingStart DEF StrictInit, RecursionBounded
<1>. QED BY <1>2, <1>3, <1>4 DEF DescentInv

\* A call that returns leaves text, place and stack as they are.
LEMMA ReturnKeeps ==
    ASSUME DescentInv, NEW answer \in {"Ok"} \cup IJsonErrors, Return(answer),
           answer = "Ok" => offset = Len(text) + 1
    PROVE  DescentInv'
<1>1. StrictTypeOK'
  BY DEF DescentInv, StrictTypeOK, Return, IJsonErrors, Top
<1>2. Framed'
  BY DEF DescentInv, Framed, Return
<1>3. RecursionBounded'
  BY DEF DescentInv, RecursionBounded, Return
<1>. QED BY <1>1, <1>2, <1>3 DEF DescentInv

\* A step past one token keeps the bound, if the stack changes as the nesting
\* does, and a new level is within the limit.
LEMMA PastToken ==
    ASSUME DescentInv, NEW to, NEW frames, Go(offset + 1, to, frames), token # End,
           verdict = "pending",
           \/ token \in Opening /\ Len(frames) = Len(stack) + 1 /\ ~TooDeep
           \/ token \in Closing /\ Len(frames) = Len(stack) - 1
           \/ token \notin Opening \cup Closing /\ Len(frames) = Len(stack)
    PROVE  RecursionBounded'
<1>0. offset \in Nat \ {0} /\ limits.depth \in Nat
  <2>1. text \in Seq(Tokens) /\ offset \in 1..(Len(text) + 1) /\ limits \in Limits
    BY DEF DescentInv, StrictTypeOK
  <2>2. limits \in [size : Nat, depth : Nat]
    BY <2>1, LimitAssumption
  <2>. QED BY <2>1, <2>2
<1>1. /\ offset \in Nat \ {0} /\ limits.depth \in Nat
      /\ text' = text /\ limits' = limits /\ verdict' = verdict
      /\ offset' = offset + 1 /\ stack' = frames
  BY <1>0 DEF Go
<1>2. /\ Len(stack) = Nesting(text, offset)
      /\ \A i \in 1..offset : Nesting(text, i) <= limits.depth
  BY DEF DescentInv, RecursionBounded
<1>3. Len(frames) = Nesting(text, offset + 1)
  BY <1>1, <1>2, NestingStep DEF token
<1>4. Nesting(text, offset + 1) <= limits.depth
  BY <1>1, <1>2, <1>3, NestingStep DEF TooDeep
<1>. QED BY <1>1, <1>2, <1>3, <1>4 DEF RecursionBounded

\* A value that ends inside frames that are a stack ends well.
LEMMA CompleteKeeps ==
    ASSUME DescentInv, NEW Names, NEW frames \in Seq(Frames(Names)), Complete(frames),
           token # End, verdict = "pending",
           \/ token \in Closing /\ Len(frames) = Len(stack) - 1
           \/ token \notin Opening \cup Closing /\ Len(frames) = Len(stack)
    PROVE  DescentInv'
<1>1. offset \in DOMAIN text /\ offset + 1 \in 1..(Len(text) + 1)
  BY TokenIsThere DEF DescentInv
<1>2. CASE Len(frames) = 0
  <2>1. Go(offset + 1, "end", frames) /\ frames = << >>
    BY <1>2 DEF Complete
  <2>2. RecursionBounded'
    BY <2>1, PastToken
  <2>3. Framed'
    BY <2>1 DEF Framed, Go
  <2>4. StrictTypeOK'
    <3>1. /\ text' = text /\ limits' = limits /\ verdict' = verdict
          /\ offset' = offset + 1 /\ stack' = << >> /\ pc' = "end"
      BY <2>1 DEF Go
    <3>2. text \in Seq(Tokens) /\ limits \in Limits
      BY DEF DescentInv, StrictTypeOK
    <3>3. 1..Len(stack') = {} /\ verdict' = "pending"
      BY <3>1
    <3>. QED BY <1>1, <3>1, <3>2, <3>3 DEF StrictTypeOK
  <2>. QED BY <2>2, <2>3, <2>4 DEF DescentInv
<1>3. CASE Len(frames) # 0
  <2>. DEFINE n == Len(frames)
              named == [frames EXCEPT ![n] = Filled(frames[n])]
  <2>1. Go(offset + 1, "separator", named)
    BY <1>3 DEF Complete
  <2>2. n \in 1..Len(frames) /\ frames[n] \in Frames(Names)
    BY <1>3
  <2>3. named \in Seq(Frames(Names)) /\ Len(named) = Len(frames)
    <3>1. Filled(frames[n]) \in Frames(Names)
      BY <2>2 DEF Frames, Filled
    <3>. QED BY <2>2, <3>1
  <2>4. RecursionBounded'
    BY <2>1, <2>3, PastToken
  <2>5. Framed'
    BY <2>1, <2>3 DEF Framed, Go
  <2>6. named # << >> /\ \A k \in 1..Len(named) : named[k].kind \in Opening
    <3>. HIDE DEF named
    <3>1. Len(named) # 0
      BY <1>3, <2>3
    <3>2. named # << >> /\ \A k \in 1..Len(named) : named[k] \in Frames(Names)
      BY <2>3, <3>1
    <3>. QED BY <3>2 DEF Frames
  <2>7. StrictTypeOK'
    <3>1. /\ text' = text /\ limits' = limits /\ verdict' = verdict
          /\ offset' = offset + 1 /\ stack' = named /\ pc' = "separator"
      BY <2>1 DEF Go
    <3>. HIDE DEF named
    <3>. QED BY <1>1, <2>6, <3>1 DEF DescentInv, StrictTypeOK
  <2>. QED BY <2>4, <2>5, <2>7 DEF DescentInv
<1>. QED BY <1>2, <1>3

\* A step past a token that is no bracket, or an opening one, by which the
\* frames change to frames.
LEMMA StepKeeps ==
    ASSUME DescentInv, NEW to, NEW Names, NEW frames \in Seq(Frames(Names)),
           Go(offset + 1, to, frames), token # End, verdict = "pending",
           \/ token \in Opening /\ Len(frames) = Len(stack) + 1 /\ ~TooDeep
           \/ token \notin Opening \cup Closing /\ Len(frames) = Len(stack),
           \/ to = "value"
           \/ frames # << >> /\ to = "first_item"
           \/ frames # << >> /\ to \in {"first_name", "name", "colon"}
              /\ frames[Len(frames)].kind = "{"
    PROVE  DescentInv'
<1>1. RecursionBounded'
  BY PastToken
<1>2. /\ text' = text /\ limits' = limits /\ verdict' = verdict
      /\ offset' = offset + 1 /\ stack' = frames /\ pc' = to
  BY DEF Go
<1>3. Framed'
  BY <1>2 DEF Framed
<1>4. \A n \in 1..Len(frames) : frames[n].kind \in Opening
  <2>1. \A n \in 1..Len(frames) : frames[n] \in Frames(Names)
    BY StackFacts
  <2>. QED BY <2>1 DEF Frames
<1>5. text \in Seq(Tokens) /\ limits \in Limits /\ offset + 1 \in 1..(Len(text) + 1)
  BY TokenIsThere DEF DescentInv, StrictTypeOK
<1>6. StrictTypeOK'
  BY <1>2, <1>4, <1>5 DEF StrictTypeOK, Top
<1>. QED BY <1>1, <1>3, <1>6 DEF DescentInv

\* A step that reads nothing.
LEMMA QuietKeeps ==
    ASSUME DescentInv, StartParser \/ ReadFirstItem \/ ReadFirstName
    PROVE  DescentInv'
<1>1. /\ UNCHANGED <<text, limits, verdict, offset, stack>>
      /\ pc' = "value" \/ (pc = "first_name" /\ pc' = "name")
      /\ pc # "done"
  BY DEF StartParser, ReadFirstItem, ReadFirstName, Go
<1>2. StrictTypeOK'
  BY <1>1 DEF DescentInv, StrictTypeOK, Top
<1>. QED BY <1>1, <1>2 DEF DescentInv, Framed, RecursionBounded

\* A call that is under way has no verdict.
LEMMA Pending == ASSUME DescentInv, pc # "done" PROVE verdict = "pending"
BY DEF DescentInv, StrictTypeOK

\* A string, a number or a literal is one token and no bracket.
LEMMA ScalarKeeps ==
    ASSUME DescentInv, ReadString \/ ReadNumber \/ ReadLiteral
           \/ (RefuseString \/ RefuseValue)
    PROVE  DescentInv'
<1>1. CASE ReadNumber /\ ~text[offset].safe
  <2>1. Return("UnsafeNumber")
    BY <1>1 DEF ReadNumber
  <2>. QED BY <2>1, ReturnKeeps DEF IJsonErrors
<1>2. CASE RefuseString
  <2>1. PICK error \in StringErrors : Return(error)
    BY <1>2 DEF RefuseString
  <2>. QED BY <2>1, ReturnKeeps DEF StringErrors, IJsonErrors
<1>3. CASE RefuseValue
  <2>1. Return("Malformed")
    BY <1>3 DEF RefuseValue
  <2>. QED BY <2>1, ReturnKeeps DEF IJsonErrors
<1>4. CASE ReadString \/ (ReadNumber /\ text[offset].safe) \/ ReadLiteral
  <2>1. /\ Complete(stack) /\ token \in {"string", "number", "literal"}
        /\ pc = "value"
    BY <1>4 DEF ReadString, ReadNumber, ReadLiteral
  <2>2. token # End /\ token \notin Opening \cup Closing
    BY <2>1 DEF End, Opening, Closing
  <2>3. PICK Names : stack \in Seq(Frames(Names))
    BY DEF DescentInv, Framed
  <2>. QED BY <2>1, <2>2, <2>3, Pending, CompleteKeeps
<1>. QED BY <1>1, <1>2, <1>3, <1>4

\* A new level is opened by a bracket, within the limit.
LEMMA OpenKeeps ==
    ASSUME DescentInv, OpenArray \/ OpenObject
    PROVE  DescentInv'
<1>1. PICK Names : stack \in Seq(Frames(Names))
  BY DEF DescentInv, Framed
<1>. DEFINE More == Names \cup {<< >>}
            frame == IF token = "[" THEN Array ELSE Object
            frames == Append(stack, frame)
<1>2. frame \in Frames(More)
  BY DEF Array, Object, Frames, Opening
<1>3. Frames(Names) \subseteq Frames(More)
  BY DEF Frames
<1>4. /\ frames \in Seq(Frames(More)) /\ frames # << >>
      /\ Len(frames) = Len(stack) + 1 /\ frames[Len(frames)] = frame
  <2>1. stack \in Seq(Frames(More))
    BY <1>1, <1>3, StackFacts
  <2>. HIDE DEF frame
  <2>. QED BY <1>2, <2>1
<1>5. ~TooDeep /\ token \in Opening /\ token # End /\ pc # "done"
  BY DEF OpenArray, OpenObject, Opening, End
<1>6. CASE OpenArray
  <2>1. Go(offset + 1, "first_item", frames)
    BY <1>6 DEF OpenArray
  <2>. HIDE DEF frames
  <2>. QED BY <1>4, <1>5, <2>1, Pending, StepKeeps
<1>7. CASE OpenObject
  <2>1. Go(offset + 1, "first_name", frames) /\ frame.kind = "{"
    BY <1>7 DEF OpenObject, Object
  <2>. HIDE DEF frames, frame
  <2>. QED BY <1>4, <1>5, <2>1, Pending, StepKeeps
<1>. QED BY <1>6, <1>7

\* A name stays with the frame that it is a member of.
LEMMA NameKeeps ==
    ASSUME DescentInv, ReadName
    PROVE  DescentInv'
<1>1. PICK Names : stack \in Seq(Frames(Names))
  BY DEF DescentInv, Framed
<1>. DEFINE name == Says(text, offset).out
            More == Names \cup {name}
            frames == [stack EXCEPT ![Len(stack)] = Named(Top, name)]
<1>2. /\ Go(offset + 1, "colon", frames) /\ token = "string" /\ pc = "name"
  BY DEF ReadName
<1>3. stack # << >> /\ Top.kind = "{"
  BY <1>2 DEF DescentInv, StrictTypeOK
<1>4. Frames(Names) \subseteq Frames(More)
  BY DEF Frames
<1>5. stack \in Seq(Frames(More)) /\ Len(stack) \in 1..Len(stack) /\ Top \in Frames(More)
  BY <1>1, <1>3, <1>4, StackFacts DEF Top
<1>6. Named(Top, name) \in Frames(More) /\ Named(Top, name).kind = "{"
  BY <1>3, <1>5 DEF Named, Frames
<1>7. /\ frames \in Seq(Frames(More)) /\ Len(frames) = Len(stack)
      /\ frames # << >> /\ frames[Len(frames)].kind = "{"
  <2>. HIDE DEF More, name
  <2>1. /\ frames \in Seq(Frames(More)) /\ Len(frames) = Len(stack)
        /\ frames # << >> /\ frames[Len(frames)] = Named(Top, name)
    <3>. HIDE DEF frames
    <3>1. frames = [stack EXCEPT ![Len(stack)] = Named(Top, name)]
      BY DEF frames
    <3>2. stack # << >> /\ stack \in Seq(Frames(More)) /\ Named(Top, name) \in Frames(More)
      BY <1>3, <1>5, <1>6
    <3>. QED BY <3>1, <3>2, TopFacts
  <2>. QED BY <1>6, <2>1
<1>8. token # End /\ token \notin Opening \cup Closing
  BY <1>2 DEF End, Opening, Closing
<1>. HIDE DEF frames, More
<1>. QED BY <1>2, <1>7, <1>8, Pending, StepKeeps

\* Colons and commas lead to the next name or value on the same level.
LEMMA PunctuationKeeps ==
    ASSUME DescentInv, ReadColon \/ ReadComma
    PROVE  DescentInv'
<1>1. PICK Names : stack \in Seq(Frames(Names))
  BY DEF DescentInv, Framed
<1>2. token \in {":", ","} /\ pc \in {"colon", "separator"}
  BY DEF ReadColon, ReadComma
<1>3. token # End /\ token \notin Opening \cup Closing
  BY <1>2 DEF End, Opening, Closing
<1>4. stack # << >>
  BY <1>2 DEF DescentInv, StrictTypeOK
<1>5. \/ Go(offset + 1, "value", stack)
      \/ Go(offset + 1, "name", stack) /\ stack[Len(stack)].kind = "{"
  BY DEF ReadColon, ReadComma, Top
<1>. QED BY <1>1, <1>2, <1>3, <1>4, <1>5, Pending, StepKeeps

\* A level is closed by a bracket.
LEMMA CloseKeeps ==
    ASSUME DescentInv, Close
    PROVE  DescentInv'
<1>1. PICK Names : stack \in Seq(Frames(Names))
  BY DEF DescentInv, Framed
<1>. DEFINE frames == SubSeq(stack, 1, Len(stack) - 1)
<1>2. Complete(frames) /\ pc \in {"first_item", "first_name", "separator"}
  BY DEF Close
<1>3. stack # << >>
  BY <1>2 DEF DescentInv, StrictTypeOK
<1>4. Top.kind \in Opening
  <2>1. Top \in Frames(Names)
    BY <1>1, <1>3, StackFacts DEF Top
  <2>. QED BY <2>1 DEF Frames
<1>5. token \in Closing /\ token # End
  BY <1>4 DEF Close, CloserOf, Opening, Closing, End
<1>6. frames \in Seq(Frames(Names)) /\ Len(frames) = Len(stack) - 1
  BY <1>1, <1>3, StackFacts
<1>. HIDE DEF frames
<1>. QED BY <1>2, <1>5, <1>6, Pending, CompleteKeeps

\* All other steps return.
LEMMA RefusalKeeps ==
    ASSUME DescentInv,
           RefuseInput \/ RefuseDepth \/ RefuseName \/ RefuseToken \/ Accept
    PROVE  DescentInv'
<1>1. InputFault \in {"SizeLimit", "DepthLimit", "InvalidUtf8", "none"}
  <2>1. limits \in [size : Nat, depth : Nat]
    BY LimitAssumption DEF DescentInv, StrictTypeOK
  <2>. QED BY <2>1 DEF InputFault
<1>2. \/ \E answer \in IJsonErrors : Return(answer)
      \/ Return("Ok") /\ offset = Len(text) + 1
  BY <1>1 DEF RefuseInput, RefuseDepth, RefuseName, RefuseToken, Accept, IJsonErrors
<1>3. "Ok" \notin IJsonErrors
  BY DEF IJsonErrors
<1>. QED BY <1>2, <1>3, ReturnKeeps

\* Action by action.
LEMMA DescentStep ==
    ASSUME DescentInv, [StrictNext]_parserVars
    PROVE  DescentInv'
<1>1. CASE UNCHANGED parserVars
  BY <1>1 DEF parserVars, DescentInv, StrictTypeOK, Top, Framed, RecursionBounded
<1>2. CASE StrictNext
  BY <1>2, QuietKeeps, ScalarKeeps, OpenKeeps, NameKeeps, PunctuationKeeps,
     CloseKeeps, RefusalKeeps DEF StrictNext
<1>. QED BY <1>1, <1>2

----------------------------------------------------------------------------
(* Where the parser is in the text *)

\* The frames are what is open at place i of t: each is of the kind of the
\* bracket that opened it, and an object has the names read in it so far.  The
\* last of them is still set apart while its value is awaited, pending.
Tied(t, i, frames, pending) ==
    \A n \in 1..Len(frames) :
        LET opened == OpenedAt(t, i, n)
            known == IF n = Len(frames) /\ ~pending THEN frames[n].names
                     ELSE frames[n].names \cup {frames[n].name}
        IN  /\ frames[n].kind = Kind(t, opened)
            /\ frames[n].kind = "{" => known = NamesOf(t, i, opened)

\* Place i of t has the role that the parser reads it for.
RoleFits(t, i, place) ==
    /\ place = "check" => i = 1
    /\ place = "value" => Role(t, i) = "value" /\ ~Empty(t, i)
    /\ place = "first_item" => Kind(t, i - 1) = "["
    /\ place = "first_name" => Kind(t, i - 1) = "{"
    /\ place = "name" => Role(t, i) = "name" /\ ~Empty(t, i)
    /\ place = "colon" => Role(t, i) = "colon"
    /\ place \in {"separator", "end"} => Role(t, i) = "separator"

Pended(place) == place \in {"value", "colon"}

Located ==
    pc # "done" =>
        /\ RoleFits(text, offset, pc)
        /\ \A i \in 1..(offset - 1) : Offence(text, i, limits.depth) = "none"
        /\ Tied(text, offset, stack, Pended(pc))

OffenceInv == DescentInv /\ Located /\ VerdictNamesFirstOffence

\* A token that is no name, and opens no level of frames, leaves them tied.
LEMMA TiedStep ==
    ASSUME NEW t, NEW i \in Nat \ {0}, NEW frames, Len(frames) \in Nat,
           NEW pending, Tied(t, i, frames, pending), ~IsName(t, i),
           Kind(t, i) \in Opening => Len(frames) <= Nesting(t, i)
    PROVE  Tied(t, i + 1, frames, pending)
<1> SUFFICES ASSUME NEW n \in 1..Len(frames)
             PROVE  /\ OpenedAt(t, i + 1, n) = OpenedAt(t, i, n)
                    /\ \A k : NamesOf(t, i + 1, k) = NamesOf(t, i, k)
  BY DEF Tied
<1>1. Nesting(t, i) \in Int /\ n \in Int
  BY NestingStep
<1>2. Kind(t, i) \notin Opening \/ n # Nesting(t, i) + 1
  BY <1>1
<1>3. OpenedAt(t, i + 1, n) = OpenedAt(t, i, n)
  BY <1>1, <1>2, OpenedStep
<1>. QED BY <1>3, NamesStep

\* The last frame of a sequence, and those before it.
LEMMA TiedEnd ==
    ASSUME NEW t, NEW i, NEW Names, NEW frames \in Seq(Frames(Names)), Len(frames) # 0,
           Tied(t, i, frames, TRUE)
    PROVE  Tied(t, i, [frames EXCEPT ![Len(frames)] = Filled(frames[Len(frames)])], FALSE)
<1> DEFINE m == Len(frames)
           filled == [frames EXCEPT ![m] = Filled(frames[m])]
<1>1. m \in 1..m /\ m \in Nat /\ frames[m] \in Frames(Names)
  OBVIOUS
<1>2. Len(filled) = m /\ DOMAIN frames = 1..m
  BY <1>1
<1>3. filled[m] = Filled(frames[m]) /\ \A n \in 1..m : n # m => filled[n] = frames[n]
  BY <1>1, <1>2
<1>. HIDE DEF filled
<1>4. /\ Filled(frames[m]).kind = frames[m].kind
      /\ frames[m].kind = "{" =>
            Filled(frames[m]).names = frames[m].names \cup {frames[m].name}
  BY <1>1 DEF Filled, Frames
<1> SUFFICES ASSUME NEW n \in 1..m
             PROVE  LET opened == OpenedAt(t, i, n)
                        known == IF n = m THEN filled[n].names
                                 ELSE filled[n].names \cup {filled[n].name}
                    IN  /\ filled[n].kind = Kind(t, opened)
                        /\ filled[n].kind = "{" => known = NamesOf(t, i, opened)
  BY <1>2 DEF Tied, filled
<1>5. /\ frames[n].kind = Kind(t, OpenedAt(t, i, n))
      /\ frames[n].kind = "{" =>
            frames[n].names \cup {frames[n].name} = NamesOf(t, i, OpenedAt(t, i, n))
  BY DEF Tied
<1>6. CASE n = m
  BY <1>3, <1>4, <1>5, <1>6
<1>7. CASE n # m
  BY <1>3, <1>5, <1>7
<1>. QED BY <1>6, <1>7

\* The frames but the last; all of them await the value that was inside.
LEMMA TiedWithout ==
    ASSUME NEW t, NEW i, NEW S, NEW frames \in Seq(S), frames # << >>,
           NEW pending, Tied(t, i, frames, pending)
    PROVE  Tied(t, i, SubSeq(frames, 1, Len(frames) - 1), TRUE)
<1> DEFINE rest == SubSeq(frames, 1, Len(frames) - 1)
<1>1. Len(rest) = Len(frames) - 1 /\ Len(frames) \in Nat
  BY StackFacts
<1>2. \A n \in 1..(Len(frames) - 1) : rest[n] = frames[n] /\ n \in 1..Len(frames) /\ n # Len(frames)
  BY <1>1
<1>. HIDE DEF rest
<1>3. Tied(t, i, rest, TRUE)
  BY <1>1, <1>2 DEF Tied
<1>. QED BY <1>3 DEF rest

\* A frame for what the token opens.
LEMMA TiedOpen ==
    ASSUME NEW t, NEW i \in Nat \ {0}, NEW S, NEW frames \in Seq(S),
           Tied(t, i, frames, TRUE), ~IsName(t, i), Kind(t, i) \in Opening,
           Len(frames) = Nesting(t, i),
           NEW frame \in S, frame.kind = Kind(t, i), frame.names = {}
    PROVE  Tied(t, i + 1, Append(frames, frame), FALSE)
<1> DEFINE more == Append(frames, frame)
           m == Len(frames)
<1>1. /\ m \in Nat /\ Len(more) = m + 1 /\ more[m + 1] = frame
      /\ \A n \in 1..m : more[n] = frames[n]
  OBVIOUS
<1>2. Tied(t, i + 1, frames, TRUE)
  <2>1. Len(frames) \in Nat /\ (Kind(t, i) \in Opening => Len(frames) <= Nesting(t, i))
    BY <1>1
  <2>. QED BY <2>1, TiedStep
<1>3. OpenedAt(t, i + 1, m + 1) = i
  <2>1. m + 1 \in Int /\ m + 1 = Nesting(t, i) + 1
    BY <1>1
  <2>. HIDE DEF m
  <2>. QED BY <2>1, OpenedStep
<1>4. NamesOf(t, i + 1, i) = {}
  BY NoNamesYet
<1>. HIDE DEF more
<1> SUFFICES ASSUME NEW n \in 1..(m + 1)
             PROVE  LET opened == OpenedAt(t, i + 1, n)
                        known == IF n = m + 1 THEN more[n].names
                                 ELSE more[n].names \cup {more[n].name}
                    IN  /\ more[n].kind = Kind(t, opened)
                        /\ more[n].kind = "{" => known = NamesOf(t, i + 1, opened)
  BY <1>1 DEF Tied, more
<1>5. CASE n = m + 1
  BY <1>1, <1>3, <1>4, <1>5
<1>6. CASE n # m + 1
  <2>1. n \in 1..m
    BY <1>1, <1>6
  <2>2. /\ frames[n].kind = Kind(t, OpenedAt(t, i + 1, n))
        /\ frames[n].kind = "{" =>
              frames[n].names \cup {frames[n].name} = NamesOf(t, i + 1, OpenedAt(t, i + 1, n))
    BY <1>2, <2>1 DEF Tied
  <2>. QED BY <1>1, <1>6, <2>1, <2>2
<1>. QED BY <1>5, <1>6

\* Levels differ as the levels around them do.
LEMMA Predecessors == \A a, b \in Int : a # b => a - 1 # b - 1
OBVIOUS

\* A name belongs to the innermost frame and no other.
LEMMA TiedName ==
    ASSUME NEW t \in Seq(Tokens), NEW i \in Nat \ {0},
           NEW Names, NEW frames \in Seq(Frames(Names)),
           frames # << >>, frames[Len(frames)].kind = "{",
           Tied(t, i, frames, FALSE), IsName(t, i), Len(frames) = Nesting(t, i)
    PROVE  Tied(t, i + 1, [frames EXCEPT ![Len(frames)] =
                              Named(frames[Len(frames)], Says(t, i).out)], TRUE)
<1> DEFINE m == Len(frames)
           name == Says(t, i).out
           named == [frames EXCEPT ![m] = Named(frames[m], name)]
<1>1. /\ m \in 1..m /\ m \in Nat /\ frames[m] \in Frames(Names)
      /\ \A n \in 1..m : n \in Int /\ frames[n] \in Frames(Names)
  BY LastFacts
<1>2. /\ Len(named) = m /\ named[m] = Named(frames[m], name)
      /\ \A n \in 1..m : n # m => named[n] = frames[n]
  <2>. HIDE DEF name
  <2>1. \A e : LET r == [frames EXCEPT ![Len(frames)] = e]
               IN  /\ Len(r) = Len(frames) /\ r[Len(frames)] = e
                   /\ \A n \in 1..Len(frames) : n # Len(frames) => r[n] = frames[n]
    BY LastFacts, Zenon
  <2>. QED BY <2>1, Zenon DEF named
<1>3. named[m] = Named(frames[m], name)
  BY <1>2
<1>4. /\ Named(frames[m], name).kind = frames[m].kind
      /\ Named(frames[m], name).names = frames[m].names
      /\ Named(frames[m], name).name = name
  BY <1>1 DEF Named, Frames
<1>. HIDE DEF named, name
<1>5. Kind(t, i) \notin Opening /\ Nesting(t, i) \in Int
  BY NestingStep DEF IsName, Opening
<1>6. \A n \in 1..m : OpenedAt(t, i + 1, n) = OpenedAt(t, i, n)
  BY <1>1, <1>5, OpenedStep
<1>7. Opener(t, i) = OpenedAt(t, i, m)
  BY InnermostOpened
<1>8. \A n \in 1..m :
         /\ OpenedAt(t, i, n) # 0
         /\ Nesting(t, OpenedAt(t, i, n)) = n - 1
  <2> SUFFICES ASSUME NEW n \in 1..m, OpenedAt(t, i, n) = 0 PROVE FALSE
    BY OpenedFacts
  <2>1. frames[n].kind = Kind(t, OpenedAt(t, i, n))
    BY DEF Tied
  <2>2. frames[n].kind = End
    BY <2>1, NothingBefore
  <2>3. frames[n] \in Frames(Names)
    BY <1>1
  <2>. QED BY <2>2, <2>3 DEF Frames, Opening, End
<1> SUFFICES ASSUME NEW n \in 1..m
             PROVE  /\ named[n].kind = Kind(t, OpenedAt(t, i + 1, n))
                    /\ named[n].kind = "{" =>
                          named[n].names \cup {named[n].name}
                             = NamesOf(t, i + 1, OpenedAt(t, i + 1, n))
  BY <1>2 DEF Tied, named, name
<1>9. CASE n = m
  <2>1. /\ frames[m].kind = Kind(t, OpenedAt(t, i, m))
        /\ frames[m].names = NamesOf(t, i, OpenedAt(t, i, m))
    BY <1>1 DEF Tied
  <2>2. NamesOf(t, i + 1, OpenedAt(t, i, m)) = NamesOf(t, i, OpenedAt(t, i, m)) \cup {name}
    BY <1>7, NamesStep DEF name
  <2>. QED BY <1>3, <1>4, <1>6, <1>9, <2>1, <2>2
<1>10. CASE n # m
  <2>1. /\ frames[n].kind = Kind(t, OpenedAt(t, i, n))
        /\ frames[n].kind = "{" => frames[n].names \cup {frames[n].name}
                                      = NamesOf(t, i, OpenedAt(t, i, n))
    BY <1>10 DEF Tied
  <2>2. OpenedAt(t, i, n) # OpenedAt(t, i, m)
    <3>1. n \in Int /\ m \in Int /\ n # m
      BY <1>1, <1>10
    <3>2. Nesting(t, OpenedAt(t, i, n)) = n - 1 /\ Nesting(t, OpenedAt(t, i, m)) = m - 1
      BY <1>1, <1>8
    <3>3. n - 1 # m - 1
      BY <3>1, Predecessors, Zenon
    <3>. QED BY <3>2, <3>3, Zenon
  <2>3. NamesOf(t, i + 1, OpenedAt(t, i, n)) = NamesOf(t, i, OpenedAt(t, i, n))
    BY <1>7, <2>2, NamesStep
  <2>. QED BY <1>2, <1>6, <1>10, <2>1, <2>3
<1>. QED BY <1>9, <1>10

\* An array has no names to set apart.
LEMMA TiedItem ==
    ASSUME NEW t, NEW i, NEW frames, Tied(t, i, frames, FALSE),
           frames[Len(frames)].kind # "{"
    PROVE  Tied(t, i, frames, TRUE)
BY DEF Tied

\* What a parser that is under way knows of its place.
LEMMA Here ==
    ASSUME OffenceInv, pc # "done"
    PROVE  /\ text \in Seq(Tokens) /\ offset \in Nat \ {0}
           /\ offset \in 1..(Len(text) + 1)
           /\ limits.depth \in Nat
           /\ Len(stack) = Nesting(text, offset) /\ Len(stack) \in Nat
           /\ verdict = "pending"
           /\ RoleFits(text, offset, pc)
           /\ Tied(text, offset, stack, Pended(pc))
           /\ \A i \in 1..(offset - 1) : Offence(text, i, limits.depth) = "none"
<1>1. /\ text \in Seq(Tokens) /\ offset \in 1..(Len(text) + 1) /\ limits \in Limits
      /\ verdict = "pending"
  BY DEF OffenceInv, DescentInv, StrictTypeOK
<1>2. limits.depth \in Nat
  BY <1>1, LimitAssumption
<1>3. offset \in Nat \ {0}
  BY <1>1
<1>4. Len(stack) = Nesting(text, offset) /\ Len(stack) \in Nat
  <2>1. PICK Names : stack \in Seq(Frames(Names))
    BY DEF OffenceInv, DescentInv, Framed
  <2>. QED BY <2>1 DEF OffenceInv, DescentInv, RecursionBounded
<1>. QED BY <1>1, <1>2, <1>3, <1>4 DEF OffenceInv, Located

\* What it knows of what it is inside of.
LEMMA Inside ==
    ASSUME OffenceInv, pc # "done", stack # << >>
    PROVE  /\ Nesting(text, offset) # 0
           /\ Top.kind = Kind(text, Opener(text, offset))
           /\ InObject(text, offset) <=> Top.kind = "{"
           /\ Top.kind \in Opening
           /\ ~Pended(pc) /\ Top.kind = "{" =>
                 Top.names = NamesOf(text, offset, Opener(text, offset))
<1>1. PICK Names : stack \in Seq(Frames(Names))
  BY DEF OffenceInv, DescentInv, Framed
<1>2. Len(stack) \in 1..Len(stack) /\ Len(stack) # 0 /\ Top \in Frames(Names)
  BY <1>1, LastFacts DEF Top
<1>3. Opener(text, offset) = OpenedAt(text, offset, Len(stack))
  BY Here, InnermostOpened
<1>4. /\ Top.kind = Kind(text, Opener(text, offset))
      /\ ~Pended(pc) /\ Top.kind = "{" =>
            Top.names = NamesOf(text, offset, Opener(text, offset))
  BY <1>2, <1>3, Here DEF Tied, Top
<1>5. Top.kind \in Opening
  BY <1>2 DEF Frames
<1>. QED BY <1>2, <1>4, <1>5, Here DEF InObject

\* A step that goes on from a place where nothing is wrong.
LEMMA Onward ==
    ASSUME OffenceInv, pc # "done", NEW to, NEW frames, Go(offset + 1, to, frames),
           Offence(text, offset, limits.depth) = "none",
           Tied(text, offset + 1, frames, Pended(to)), RoleFits(text, offset + 1, to)
    PROVE  Located' /\ VerdictNamesFirstOffence'
<1>1. PICK j : j = offset + 1
  OBVIOUS
<1>2. /\ text' = text /\ limits' = limits /\ verdict' = "pending"
      /\ offset' = j /\ stack' = frames /\ pc' = to
  BY <1>1, Here DEF Go
<1>3. \A i \in 1..(j - 1) : i \in 1..(offset - 1) \/ i = offset
  BY <1>1, Here
<1>4. \A i \in 1..(j - 1) : Offence(text, i, limits.depth) = "none"
  BY <1>3, Here
<1>5. Located'
  BY <1>1, <1>2, <1>4 DEF Located, RoleFits, Pended, Tied
<1>. QED BY <1>2, <1>5 DEF VerdictNamesFirstOffence

\* A step that reads nothing.
LEMMA QuietLocated ==
    ASSUME OffenceInv, StartParser \/ ReadFirstItem \/ ReadFirstName
    PROVE  Located' /\ VerdictNamesFirstOffence'
<1>1. PICK to \in {"value", "name"} : Go(offset, to, stack) /\ pc # "done"
  BY DEF StartParser, ReadFirstItem, ReadFirstName
<1>2. /\ text' = text /\ limits' = limits /\ verdict' = "pending"
      /\ offset' = offset /\ stack' = stack /\ pc' = to
  BY <1>1, Here DEF Go
<1>3. RoleFits(text, offset, to) /\ Tied(text, offset, stack, Pended(to))
  <2>1. CASE StartParser
    <3>1. to = "value" /\ offset = 1 /\ stack = << >>
      BY <1>1, <1>2, <2>1, Here DEF StartParser, Go, RoleFits, OffenceInv, DescentInv, StrictTypeOK
    <3>2. Role(text, 1) = "value" /\ Kind(text, 0) = End /\ 1 - 1 = 0
      BY Here, <1>1, NothingBefore
    <3>3. ~Empty(text, 1)
      BY <3>2 DEF Empty, End
    <3>4. Tied(text, offset, stack, Pended(to))
      <4>1. 1..Len(stack) = {}
        BY <3>1
      <4>. QED BY <4>1 DEF Tied
    <3>. QED BY <3>1, <3>2, <3>3, <3>4 DEF RoleFits
  <2>2. CASE ReadFirstItem \/ ReadFirstName
    <3>1. /\ ReadFirstItem => /\ pc = "first_item" /\ to = "value" /\ token # "]"
          /\ ReadFirstName => /\ pc = "first_name" /\ to = "name" /\ token # "}"
      BY <1>2 DEF ReadFirstItem, ReadFirstName, Go
    <3>2. /\ ReadFirstItem => Kind(text, offset - 1) = "["
          /\ ReadFirstName => Kind(text, offset - 1) = "{"
      BY <1>1, <3>1, Here DEF RoleFits
    <3>3. offset # 1
      <4>1. text \in Seq(Tokens) /\ Kind(text, offset - 1) # End
        BY <1>1, <2>2, <3>2, Here DEF End
      <4>2. offset = 1 => offset - 1 = 0
        OBVIOUS
      <4>. QED BY <4>1, <4>2, NothingBefore
    <3>4. PICK i \in Nat \ {0} : offset = i + 1 /\ offset - 1 = i
      <4>1. offset - 1 \in Nat \ {0} /\ offset = (offset - 1) + 1
        BY <1>1, <3>3, Here
      <4>. QED BY <4>1
    <3>5. offset \in Nat \ {0, 1}
      BY <1>1, <3>3, Here
    <3>6. /\ ReadFirstItem => Role(text, offset) = "value"
          /\ ReadFirstName => Role(text, offset) = "name"
      BY <3>2, <3>5, RoleAfter
    <3>7. ~Empty(text, offset)
      BY <2>2, <3>1, <3>2 DEF Empty, token
    <3>8. RoleFits(text, offset, to)
      BY <2>2, <3>1, <3>6, <3>7 DEF RoleFits
    <3>9. Opener(text, offset) = i
      <4>1. Kind(text, i) \in Opening
        BY <2>2, <3>2, <3>4 DEF Opening
      <4>2. Nesting(text, offset) = Nesting(text, i) + 1 /\ Nesting(text, i) \in Int
        BY <4>1, <3>4, NestingStep
      <4>3. OpenedAt(text, i + 1, Nesting(text, offset)) = i
        BY <4>1, <4>2, OpenedStep
      <4>. QED BY <4>3, <3>4, InnermostOpened
    <3>10. stack # << >>
      BY <2>2, <3>1 DEF OffenceInv, DescentInv, StrictTypeOK
    <3>11. Tied(text, offset, stack, FALSE)
      <4>1. Tied(text, offset, stack, Pended(pc)) /\ ~Pended(pc)
        BY <1>1, <2>2, <3>1, Here DEF Pended
      <4>. QED BY <4>1 DEF Tied
    <3>12. CASE ReadFirstItem
      <4>1. Top.kind # "{"
        BY <1>1, <3>2, <3>4, <3>9, <3>10, <3>12, Inside
      <4>2. Tied(text, offset, stack, TRUE)
        BY <4>1, <3>11, TiedItem DEF Top
      <4>3. Pended(to)
        BY <3>1, <3>12 DEF Pended
      <4>4. Tied(text, offset, stack, Pended(to))
        BY <4>2, <4>3 DEF Tied
      <4>. QED BY <3>8, <4>4
    <3>13. CASE ReadFirstName
      <4>1. ~Pended(to)
        BY <3>1, <3>13 DEF Pended
      <4>2. Tied(text, offset, stack, Pended(to))
        BY <3>11, <4>1 DEF Tied
      <4>. QED BY <3>8, <4>2
    <3>. QED BY <2>2, <3>12, <3>13
  <2>. QED BY <2>1, <2>2
<1>4. \A i \in 1..(offset - 1) : Offence(text, i, limits.depth) = "none"
  BY <1>1, Here
<1>5. Located'
  BY <1>2, <1>3, <1>4 DEF Located, RoleFits, Pended, Tied
<1>. QED BY <1>2, <1>5 DEF VerdictNamesFirstOffence

\* A value ends.
LEMMA CompleteLocated ==
    ASSUME OffenceInv, pc # "done", NEW Names, NEW frames \in Seq(Frames(Names)),
           Complete(frames), Offence(text, offset, limits.depth) = "none",
           Tied(text, offset + 1, frames, TRUE), Role(text, offset + 1) = "separator"
    PROVE  Located' /\ VerdictNamesFirstOffence'
<1>1. CASE Len(frames) = 0
  <2>1. Go(offset + 1, "end", frames)
    BY <1>1 DEF Complete
  <2>2. RoleFits(text, offset + 1, "end")
    BY DEF RoleFits
  <2>3. Tied(text, offset + 1, frames, Pended("end"))
    <3>1. 1..Len(frames) = {}
      BY <1>1
    <3>. QED BY <3>1 DEF Tied
  <2>. QED BY <2>1, <2>2, <2>3, Onward
<1>2. CASE Len(frames) # 0
  <2> DEFINE filled == [frames EXCEPT ![Len(frames)] = Filled(frames[Len(frames)])]
  <2>1. Go(offset + 1, "separator", filled)
    BY <1>2 DEF Complete
  <2>2. RoleFits(text, offset + 1, "separator")
    BY DEF RoleFits
  <2>3. Tied(text, offset + 1, filled, FALSE)
    BY <1>2, TiedEnd
  <2>. HIDE DEF filled
  <2>4. Tied(text, offset + 1, filled, Pended("separator"))
    BY <2>3 DEF Tied, Pended
  <2>. QED BY <2>1, <2>2, <2>4, Onward
<1>. QED BY <1>1, <1>2

\* A place for a value, and what is there when nothing is wrong.
LEMMA AtValue ==
    ASSUME OffenceInv, pc = "value"
    PROVE  /\ Role(text, offset) = "value" /\ ~IsName(text, offset)
           /\ Tied(text, offset, stack, TRUE)
           /\ TooDeep => Offence(text, offset, limits.depth) = "DepthLimit"
           /\ ~TooDeep /\ token = "string" =>
                 Offence(text, offset, limits.depth) = Says(text, offset).error
           /\ ~TooDeep /\ token = "number" =>
                 Offence(text, offset, limits.depth) =
                    IF text[offset].safe THEN "none" ELSE "UnsafeNumber"
           /\ ~TooDeep /\ token \in {"literal"} \cup Opening =>
                 Offence(text, offset, limits.depth) = "none"
           /\ ~TooDeep /\ token \notin Opening \cup {"string", "number", "literal"} =>
                 Offence(text, offset, limits.depth) = "Malformed"
<1>1. Role(text, offset) = "value" /\ ~Empty(text, offset)
  BY Here DEF RoleFits
<1>2. Tied(text, offset, stack, TRUE)
  <2>1. Tied(text, offset, stack, Pended(pc)) /\ Pended(pc)
    BY Here DEF Pended
  <2>. QED BY <2>1 DEF Tied
<1>3. TooDeep <=> Nesting(text, offset) >= limits.depth
  BY Here DEF TooDeep
<1>. DEFINE says == Says(text, offset).error
            number == IF text[offset].safe THEN "none" ELSE "UnsafeNumber"
            plain == token \in {"literal"} \cup Opening
<1>4. Offence(text, offset, limits.depth) =
        IF Nesting(text, offset) >= limits.depth THEN "DepthLimit"
        ELSE CASE token = "string" -> says
               [] token = "number" -> number
               [] plain -> "none"
               [] OTHER -> "Malformed"
  BY <1>1, OffenceFacts, Zenon DEF token
<1>5. plain => token # "string" /\ token # "number"
  BY DEF Opening
<1>. HIDE DEF says, number
<1>6. /\ TooDeep => Offence(text, offset, limits.depth) = "DepthLimit"
      /\ ~TooDeep /\ token = "string" => Offence(text, offset, limits.depth) = says
      /\ ~TooDeep /\ token = "number" => Offence(text, offset, limits.depth) = number
      /\ ~TooDeep /\ plain => Offence(text, offset, limits.depth) = "none"
      /\ ~TooDeep /\ ~plain /\ token # "string" /\ token # "number" =>
            Offence(text, offset, limits.depth) = "Malformed"
  BY <1>3, <1>4, <1>5
<1>. QED BY <1>1, <1>2, <1>6 DEF IsName, says, number

\* A string, a number or a literal is a value.
LEMMA ScalarLocated ==
    ASSUME OffenceInv, ReadString \/ (ReadNumber /\ text[offset].safe) \/ ReadLiteral
    PROVE  Located' /\ VerdictNamesFirstOffence'
<1>1. /\ pc = "value" /\ ~TooDeep /\ token \in {"string", "number", "literal"}
      /\ Complete(stack)
      /\ token = "string" => Says(text, offset).error = "none"
      /\ token = "number" => text[offset].safe
  BY DEF ReadString, ReadNumber, ReadLiteral
<1>2. Offence(text, offset, limits.depth) = "none"
  BY <1>1, AtValue
<1>3. PICK Names : stack \in Seq(Frames(Names))
  BY DEF OffenceInv, DescentInv, Framed
<1>4. Kind(text, offset) \notin Opening
  BY <1>1 DEF token, Opening
<1>5. Tied(text, offset + 1, stack, TRUE)
  BY <1>1, <1>4, AtValue, Here, TiedStep
<1>6. Role(text, offset + 1) = "separator"
  BY <1>1, AtValue, Here, RoleStep DEF token
<1>. QED BY <1>1, <1>2, <1>3, <1>5, <1>6, CompleteLocated

\* What is opened has the kind of its bracket and no names yet.
LEMMA OpenLocated ==
    ASSUME OffenceInv, OpenArray \/ OpenObject
    PROVE  Located' /\ VerdictNamesFirstOffence'
<1>1. PICK Names : stack \in Seq(Frames(Names))
  BY DEF OffenceInv, DescentInv, Framed
<1>. DEFINE More == Names \cup {<< >>}
            frame == IF token = "[" THEN Array ELSE Object
            to == IF token = "[" THEN "first_item" ELSE "first_name"
            frames == Append(stack, frame)
<1>2. /\ pc = "value" /\ ~TooDeep /\ token \in Opening
      /\ Go(offset + 1, to, frames)
  BY DEF OpenArray, OpenObject, Opening
<1>3. frame \in Frames(More) /\ frame.kind = token /\ frame.names = {}
  BY <1>2 DEF Array, Object, Frames, Opening
<1>4. stack \in Seq(Frames(More))
  <2>1. Frames(Names) \subseteq Frames(More)
    BY DEF Frames
  <2>. QED BY <1>1, <2>1, StackFacts
<1>5. Offence(text, offset, limits.depth) = "none"
  BY <1>2, AtValue DEF Opening
<1>6. Tied(text, offset + 1, frames, FALSE)
  <2>. HIDE DEF frame, More
  <2>1. /\ offset \in Nat \ {0} /\ Len(stack) = Nesting(text, offset)
        /\ Tied(text, offset, stack, TRUE) /\ ~IsName(text, offset)
        /\ Kind(text, offset) \in Opening /\ frame.kind = Kind(text, offset)
    BY <1>2, <1>3, Here, AtValue DEF token
  <2>. QED BY <1>3, <1>4, <2>1, TiedOpen
<1>7. Tied(text, offset + 1, frames, Pended(to))
  <2>1. ~Pended(to)
    BY DEF Pended
  <2>. HIDE DEF frames, to
  <2>. QED BY <1>6, <2>1 DEF Tied
<1>8. RoleFits(text, offset + 1, to)
  <2>1. PICK j : j = offset + 1 /\ j - 1 = offset
    BY <1>2, Here
  <2>2. RoleFits(text, j, to)
    BY <1>2, <2>1 DEF RoleFits, token, Opening
  <2>. QED BY <2>1, <2>2
<1>. HIDE DEF frames, to
<1>. QED BY <1>2, <1>5, <1>7, <1>8, Onward

\* A place for a name.
LEMMA AtName ==
    ASSUME OffenceInv, pc = "name"
    PROVE  /\ Role(text, offset) = "name" /\ InObject(text, offset)
           /\ stack # << >> /\ Top.kind = "{"
           /\ Tied(text, offset, stack, FALSE)
           /\ Offence(text, offset, limits.depth) =
                IF token # "string" THEN "Malformed"
                ELSE IF Says(text, offset).error = "none"
                        /\ Says(text, offset).out \in Top.names
                     THEN "DuplicateMember" ELSE Says(text, offset).error
<1>1. Role(text, offset) = "name" /\ ~Empty(text, offset)
  BY Here DEF RoleFits
<1>2. stack # << >> /\ Top.kind = "{"
  BY DEF OffenceInv, DescentInv, StrictTypeOK
<1>3. ~Pended(pc)
  BY DEF Pended
<1>4. Tied(text, offset, stack, FALSE)
  <2>1. Tied(text, offset, stack, Pended(pc))
    BY Here
  <2>. QED BY <1>3, <2>1 DEF Tied
<1>5. InObject(text, offset) /\ Top.names = NamesOf(text, offset, Opener(text, offset))
  BY <1>2, <1>3, Inside
<1>6. Repeats(text, offset) <=> Says(text, offset).out \in Top.names
  BY <1>5, RepeatsName
<1>7. Offence(text, offset, limits.depth) =
        IF token # "string" THEN "Malformed"
        ELSE IF Says(text, offset).error = "none" /\ Repeats(text, offset)
             THEN "DuplicateMember" ELSE Says(text, offset).error
  BY <1>1, OffenceFacts, Zenon DEF token
<1>8. Offence(text, offset, limits.depth) =
        IF token # "string" THEN "Malformed"
        ELSE IF Says(text, offset).error = "none"
                /\ Says(text, offset).out \in Top.names
             THEN "DuplicateMember" ELSE Says(text, offset).error
  BY <1>6, <1>7, Zenon
<1>. QED BY <1>1, <1>2, <1>4, <1>5, <1>8

\* After an opening bracket the role is another.
LEMMA EmptyRole ==
    ASSUME NEW t \in Seq(Tokens), NEW i \in Nat \ {0}, Role(t, i) \in {"colon", "separator"}
    PROVE  ~Empty(t, i)
<1>1. i # 1
  BY NothingBefore
<1>2. i \in Nat \ {0, 1}
  BY <1>1
<1>. QED BY <1>2, RoleAfter DEF Empty

\* A place for a colon.
LEMMA AtColon ==
    ASSUME OffenceInv, pc = "colon"
    PROVE  /\ Role(text, offset) = "colon"
           /\ Tied(text, offset, stack, TRUE)
           /\ Offence(text, offset, limits.depth) =
                IF token = ":" THEN "none" ELSE "Malformed"
<1>1. Role(text, offset) = "colon"
  BY Here DEF RoleFits
<1>2. ~Empty(text, offset)
  BY <1>1, Here, EmptyRole
<1>3. Tied(text, offset, stack, TRUE)
  <2>1. Tied(text, offset, stack, Pended(pc)) /\ Pended(pc)
    BY Here DEF Pended
  <2>. QED BY <2>1 DEF Tied
<1>. QED BY <1>1, <1>2, <1>3, OffenceFacts, Zenon DEF token

\* A place for a comma, a bracket or the end.
LEMMA AtSeparator ==
    ASSUME OffenceInv, pc \in {"separator", "end"}
    PROVE  /\ Role(text, offset) = "separator"
           /\ Tied(text, offset, stack, FALSE)
           /\ pc = "separator" => stack # << >> /\ Top.kind \in Opening
           /\ Offence(text, offset, limits.depth) =
                IF \/ pc = "separator" /\ token \in {",", CloserOf[Top.kind]}
                   \/ pc = "end" /\ token = End
                THEN "none" ELSE "Malformed"
<1>1. Role(text, offset) = "separator" /\ pc # "done"
  BY Here DEF RoleFits
<1>2. ~Empty(text, offset)
  BY <1>1, Here, EmptyRole
<1>3. Tied(text, offset, stack, FALSE)
  <2>1. Tied(text, offset, stack, Pended(pc)) /\ ~Pended(pc)
    BY Here DEF Pended
  <2>. QED BY <2>1 DEF Tied
<1>. DEFINE expected == CASE Nesting(text, offset) = 0 -> {End}
                          [] Nesting(text, offset) # 0 /\ InObject(text, offset) -> {",", "}"}
                          [] OTHER -> {",", "]"}
<1>4. Offence(text, offset, limits.depth) =
        IF token \in expected THEN "none" ELSE "Malformed"
  BY <1>1, <1>2, OffenceFacts, Zenon DEF token
<1>5. CASE pc = "separator"
  <2>1. stack # << >> /\ pc # "end"
    BY <1>5 DEF OffenceInv, DescentInv, StrictTypeOK
  <2>2. /\ Nesting(text, offset) # 0 /\ Top.kind \in Opening
        /\ InObject(text, offset) <=> Top.kind = "{"
    BY <1>1, <2>1, Inside
  <2>3. expected = {",", CloserOf[Top.kind]}
    BY <2>2 DEF CloserOf, Opening
  <2>. HIDE DEF expected
  <2>. QED BY <1>1, <1>3, <1>4, <1>5, <2>1, <2>2, <2>3
<1>6. CASE pc = "end"
  <2>1. stack = << >> /\ pc # "separator"
    BY <1>6 DEF OffenceInv, DescentInv, StrictTypeOK
  <2>2. Nesting(text, offset) = 0
    <3>1. Len(stack) = 0
      BY <2>1
    <3>. QED BY <1>1, <3>1, Here
  <2>3. expected = {End}
    BY <2>2
  <2>. HIDE DEF expected
  <2>. QED BY <1>1, <1>3, <1>4, <1>6, <2>1, <2>3
<1>. QED BY <1>5, <1>6

\* A name that is new in its object leads to a colon.
LEMMA NameLocated ==
    ASSUME OffenceInv, ReadName
    PROVE  Located' /\ VerdictNamesFirstOffence'
<1>1. PICK Names : stack \in Seq(Frames(Names))
  BY DEF OffenceInv, DescentInv, Framed
<1>. DEFINE named == [stack EXCEPT ![Len(stack)] = Named(Top, Says(text, offset).out)]
<1>2. /\ pc = "name" /\ token = "string" /\ Says(text, offset).error = "none"
      /\ Says(text, offset).out \notin Top.names
      /\ Go(offset + 1, "colon", named)
  BY DEF ReadName
<1>3. Offence(text, offset, limits.depth) = "none"
  BY <1>2, AtName
<1>4. Tied(text, offset + 1, named, TRUE)
  <2>1. /\ text \in Seq(Tokens) /\ offset \in Nat \ {0} /\ Len(stack) = Nesting(text, offset)
        /\ stack # << >> /\ stack[Len(stack)].kind = "{"
        /\ Tied(text, offset, stack, FALSE) /\ IsName(text, offset)
    BY <1>2, AtName, Here DEF IsName, token, Top
  <2>2. Tied(text, offset + 1, [stack EXCEPT ![Len(stack)] =
                Named(stack[Len(stack)], Says(text, offset).out)], TRUE)
    BY <1>1, <2>1, TiedName
  <2>. QED BY <2>2 DEF Top
<1>. HIDE DEF named
<1>5. Tied(text, offset + 1, named, Pended("colon"))
  BY <1>4 DEF Tied, Pended
<1>6. RoleFits(text, offset + 1, "colon")
  <2>1. Role(text, offset + 1) = "colon"
    BY <1>2, AtName, Here, RoleStep DEF token
  <2>. QED BY <2>1 DEF RoleFits
<1>. QED BY <1>2, <1>3, <1>5, <1>6, Onward

\* A colon, or a comma, leads to the next value or name.
LEMMA PunctuationLocated ==
    ASSUME OffenceInv, ReadColon \/ ReadComma
    PROVE  Located' /\ VerdictNamesFirstOffence'
<1>0. offset \in Nat \ {0}
  BY Here DEF ReadColon, ReadComma
<1>1. PICK j : j = offset + 1 /\ j - 1 = offset
  BY <1>0
<1>2. CASE ReadColon
  <2>1. pc = "colon" /\ token = ":" /\ Go(offset + 1, "value", stack)
    BY <1>2 DEF ReadColon
  <2>2. Offence(text, offset, limits.depth) = "none"
    BY <2>1, AtColon
  <2>3. Tied(text, offset + 1, stack, TRUE)
    BY <2>1, AtColon, Here, TiedStep DEF IsName, token, Opening
  <2>4. Tied(text, offset + 1, stack, Pended("value"))
    BY <2>3 DEF Tied, Pended
  <2>5. Role(text, j) = "value" /\ ~Empty(text, j)
    BY <1>1, <2>1, Here, RoleStep DEF Empty, token
  <2>6. RoleFits(text, offset + 1, "value")
    BY <1>1, <2>5 DEF RoleFits
  <2>. QED BY <2>1, <2>2, <2>4, <2>6, Onward
<1>3. CASE ReadComma
  <2>. DEFINE to == IF Top.kind = "{" THEN "name" ELSE "value"
  <2>1. pc = "separator" /\ token = "," /\ Go(offset + 1, to, stack)
    BY <1>3 DEF ReadComma
  <2>2. Offence(text, offset, limits.depth) = "none"
    BY <2>1, AtSeparator
  <2>3. Tied(text, offset + 1, stack, FALSE)
    BY <2>1, AtSeparator, Here, TiedStep DEF IsName, token, Opening
  <2>4. Tied(text, offset + 1, stack, Pended(to))
    <3>1. CASE Top.kind = "{"
      <4>1. ~Pended(to)
        BY <3>1 DEF Pended
      <4>. HIDE DEF to
      <4>. QED BY <2>3, <4>1 DEF Tied
    <3>2. CASE Top.kind # "{"
      <4>1. Pended(to)
        BY <3>2 DEF Pended
      <4>2. Tied(text, offset + 1, stack, TRUE)
        BY <2>3, <3>2, TiedItem DEF Top
      <4>. HIDE DEF to
      <4>. QED BY <4>1, <4>2 DEF Tied
    <3>. QED BY <3>1, <3>2
  <2>5. InObject(text, offset) <=> Top.kind = "{"
    BY <2>1, AtSeparator, Inside
  <2>6. Role(text, j) = to /\ ~Empty(text, j)
    BY <1>1, <2>1, <2>5, Here, RoleStep DEF Empty, token
  <2>7. RoleFits(text, offset + 1, to)
    BY <1>1, <2>6 DEF RoleFits
  <2>. HIDE DEF to
  <2>. QED BY <2>1, <2>2, <2>4, <2>7, Onward
<1>. QED BY <1>2, <1>3

\* A level ends with the bracket of its kind, empty or after a value.
LEMMA CloseLocated ==
    ASSUME OffenceInv, Close
    PROVE  Located' /\ VerdictNamesFirstOffence'
<1>1. PICK Names : stack \in Seq(Frames(Names))
  BY DEF OffenceInv, DescentInv, Framed
<1>. DEFINE frames == SubSeq(stack, 1, Len(stack) - 1)
<1>2. /\ Complete(frames) /\ pc \in {"first_item", "first_name", "separator"}
      /\ pc = "first_item" => token = "]"
      /\ pc = "first_name" => token = "}"
      /\ pc = "separator" => token = CloserOf[Top.kind]
  BY DEF Close
<1>3. stack # << >>
  BY <1>2 DEF OffenceInv, DescentInv, StrictTypeOK
<1>4. Top.kind \in Opening
  BY <1>2, <1>3, Inside
<1>5. Kind(text, offset) \in Closing
  BY <1>2, <1>4 DEF CloserOf, Opening, Closing, token
<1>6. Offence(text, offset, limits.depth) = "none"
  <2>1. CASE pc = "separator"
    BY <1>2, <2>1, AtSeparator
  <2>2. CASE pc # "separator"
    <3>1. Empty(text, offset)
      BY <1>2, <2>2, Here DEF Empty, RoleFits, token
    <3>. QED BY <3>1, OffenceFacts, Zenon
  <2>. QED BY <2>1, <2>2
<1>7. frames \in Seq(Frames(Names)) /\ Len(frames) \in Nat
  BY <1>1, <1>3, StackFacts
<1>8. Tied(text, offset, frames, TRUE)
  <2>1. Tied(text, offset, stack, FALSE)
    <3>1. Tied(text, offset, stack, Pended(pc)) /\ ~Pended(pc)
      BY <1>2, Here DEF Pended
    <3>. QED BY <3>1 DEF Tied
  <2>. QED BY <1>1, <1>3, <2>1, TiedWithout
<1>. HIDE DEF frames
<1>9. Tied(text, offset + 1, frames, TRUE)
  <2>1. ~IsName(text, offset) /\ Kind(text, offset) \notin Opening /\ offset \in Nat \ {0}
    BY <1>2, <1>5, Here DEF IsName, Opening, Closing
  <2>. QED BY <1>7, <1>8, <2>1, TiedStep
<1>10. Role(text, offset + 1) = "separator"
  BY <1>2, <1>5, Here, RoleStep
<1>. QED BY <1>2, <1>6, <1>7, <1>9, <1>10, CompleteLocated

\* A refusal names what is wrong here, where nothing before was.
LEMMA RefusalNames ==
    ASSUME OffenceInv, pc # "done", NEW answer, answer # "none", Return(answer),
           Offence(text, offset, limits.depth) = answer
    PROVE  Located' /\ VerdictNamesFirstOffence'
<1>1. /\ text' = text /\ limits' = limits /\ verdict' = answer /\ pc' = "done"
  BY DEF Return
<1>2. FirstOffence(text, limits.depth) = answer
  BY Here, FirstIsNamed
<1>. QED BY <1>1, <1>2 DEF Located, VerdictNamesFirstOffence

\* Every refusal of a token is its offence.
LEMMA RefusalLocated ==
    ASSUME OffenceInv,
           \/ RefuseDepth \/ RefuseString \/ (ReadNumber /\ ~text[offset].safe)
           \/ RefuseValue \/ RefuseName \/ RefuseToken
    PROVE  Located' /\ VerdictNamesFirstOffence'
<1>1. CASE RefuseDepth
  <2>1. pc = "value" /\ TooDeep /\ Return("DepthLimit")
    BY <1>1 DEF RefuseDepth
  <2>. QED BY <2>1, AtValue, RefusalNames
<1>2. CASE RefuseString
  <2>1. PICK error \in StringErrors : Says(text, offset).error = error /\ Return(error)
    BY <1>2 DEF RefuseString
  <2>2. error # "none"
    BY DEF StringErrors
  <2>3. token = "string" /\ (pc = "name" \/ (pc = "value" /\ ~TooDeep))
    BY <1>2 DEF RefuseString
  <2>4. Offence(text, offset, limits.depth) = error
    <3>1. CASE pc = "name"
      BY <2>1, <2>2, <2>3, <3>1, AtName
    <3>2. CASE pc = "value"
      BY <2>1, <2>3, <3>2, AtValue
    <3>. QED BY <2>3, <3>1, <3>2
  <2>. QED BY <2>1, <2>2, <2>3, <2>4, RefusalNames
<1>3. CASE ReadNumber /\ ~text[offset].safe
  <2>1. /\ pc = "value" /\ ~TooDeep /\ token = "number" /\ ~text[offset].safe
        /\ Return("UnsafeNumber")
    BY <1>3 DEF ReadNumber
  <2>2. Offence(text, offset, limits.depth) = "UnsafeNumber"
    BY <2>1, AtValue
  <2>. QED BY <2>1, <2>2, RefusalNames
<1>4. CASE RefuseValue
  <2>1. /\ pc = "value" /\ ~TooDeep /\ Return("Malformed")
        /\ token \notin Opening \cup {"string", "number", "literal"}
    BY <1>4 DEF RefuseValue
  <2>2. Offence(text, offset, limits.depth) = "Malformed"
    BY <2>1, AtValue
  <2>. QED BY <2>1, <2>2, RefusalNames
<1>5. CASE RefuseName
  <2>1. /\ pc = "name" /\ token = "string" /\ Says(text, offset).error = "none"
        /\ Says(text, offset).out \in Top.names /\ Return("DuplicateMember")
    BY <1>5 DEF RefuseName
  <2>2. Offence(text, offset, limits.depth) = "DuplicateMember"
    BY <2>1, AtName
  <2>. QED BY <2>1, <2>2, RefusalNames
<1>6. CASE RefuseToken
  <2>1. /\ \/ pc = "name" /\ token # "string"
           \/ pc = "colon" /\ token # ":"
           \/ pc = "separator" /\ token \notin {",", CloserOf[Top.kind]}
           \/ pc = "end" /\ offset # Len(text) + 1
        /\ Return("Malformed")
    BY <1>6 DEF RefuseToken
  <2>2. pc = "end" => token # End
    <3> SUFFICES ASSUME pc = "end" PROVE token # End
      OBVIOUS
    <3>1. offset \in 1..Len(text) /\ text \in Seq(Tokens)
      BY <2>1, Here
    <3>2. token = text[offset].kind /\ text[offset] \in Tokens
      BY <3>1 DEF token, Kind
    <3>. QED BY <3>2 DEF Tokens, Kinds, Opening, Closing, End
  <2>3. Offence(text, offset, limits.depth) = "Malformed"
    <3>1. CASE pc = "name"
      BY <2>1, <3>1, AtName
    <3>2. CASE pc = "colon"
      BY <2>1, <3>2, AtColon
    <3>3. CASE pc \in {"separator", "end"}
      BY <2>1, <2>2, <3>3, AtSeparator
    <3>. QED BY <2>1, <3>1, <3>2, <3>3
  <2>. QED BY <2>1, <2>3, RefusalNames
<1>. QED BY <1>1, <1>2, <1>3, <1>4, <1>5, <1>6

\* A text is accepted at its end, where nothing is wrong anywhere.
LEMMA AcceptLocated ==
    ASSUME OffenceInv, Accept
    PROVE  Located' /\ VerdictNamesFirstOffence'
<1>1. pc = "end" /\ offset = Len(text) + 1 /\ Return("Ok")
  BY DEF Accept
<1>2. token = End
  <2>1. offset \notin DOMAIN text
    BY <1>1, Here
  <2>. QED BY <2>1 DEF token, Kind
<1>3. Offence(text, offset, limits.depth) = "none"
  BY <1>1, <1>2, AtSeparator
<1>4. \A i \in 1..offset : i \in 1..(offset - 1) \/ i = offset
  BY <1>1, Here
<1>5. \A i \in 1..offset : Offence(text, i, limits.depth) = "none"
  BY <1>1, <1>3, <1>4, Here
<1>6. FirstOffence(text, limits.depth) = "Ok"
  BY <1>1, <1>5, NoneIsWrong
<1>. QED BY <1>1, <1>6 DEF Return, Located, VerdictNamesFirstOffence

\* The first place is for a value.
LEMMA OffenceInit == StrictInit => OffenceInv
<1> SUFFICES ASSUME StrictInit PROVE OffenceInv
  OBVIOUS
<1>1. pc = "check" /\ offset = 1 /\ stack = << >> /\ verdict = "pending"
  BY DEF StrictInit
<1>2. Tied(text, offset, stack, Pended(pc))
  <2>1. 1..Len(stack) = {}
    BY <1>1
  <2>. QED BY <2>1 DEF Tied
<1>3. Located
  BY <1>1, <1>2 DEF Located, RoleFits
<1>4. VerdictNamesFirstOffence
  BY <1>1 DEF VerdictNamesFirstOffence
<1>. QED BY <1>3, <1>4, DescentInit DEF OffenceInv

\* Action by action.
LEMMA OffenceStep ==
    ASSUME OffenceInv, [StrictNext]_parserVars
    PROVE  OffenceInv'
<1>1. DescentInv'
  BY DescentStep DEF OffenceInv
<1>2. CASE UNCHANGED parserVars
  BY <1>1, <1>2 DEF parserVars, OffenceInv, Located, VerdictNamesFirstOffence, InputFault
<1>3. CASE RefuseInput
  <2>1. InputFault # "none" /\ pc' = "done" /\ InputFault' = InputFault
    BY <1>3 DEF RefuseInput, Return, InputFault
  <2>. QED BY <1>1, <2>1 DEF OffenceInv, Located, VerdictNamesFirstOffence
<1>4. CASE StrictNext /\ ~RefuseInput
  <2>1. ReadNumber =>
          (ReadNumber /\ text[offset].safe) \/ (ReadNumber /\ ~text[offset].safe)
    OBVIOUS
  <2>2. Located' /\ VerdictNamesFirstOffence'
    BY <1>4, <2>1, QuietLocated, ScalarLocated, OpenLocated, NameLocated,
       PunctuationLocated, CloseLocated, RefusalLocated, AcceptLocated, Zenon DEF StrictNext
  <2>. QED BY <1>1, <2>2 DEF OffenceInv
<1>. QED BY <1>2, <1>3, <1>4

----------------------------------------------------------------------------
(* The scan before the parser *)

\* What the scan of validate_json_text has to know of a parse: every string
\* that the parser has left behind could be read, the parser never starts on
\* what is no UTF-8, and a surrogate it refuses is in the string where it is.
Scanned ==
    /\ text \in Texts
    /\ \A i \in 1..(offset - 1) : Sound(text, i)
    /\ pc \notin {"check", "done"} \/ verdict \in {"Ok", "LoneSurrogate"} => IsUtf8(text)
    /\ verdict = "LoneSurrogate" =>
          Kind(text, offset) = "string" /\ Says(text, offset).error = "LoneSurrogate"
    /\ verdict = "InvalidUtf8" => ~IsUtf8(text)

ScanInv == DescentInv /\ Scanned

\* The invariant is enough: the scan reads the whole text as the parser does.
LEMMA ScanInvAgrees == ScanInv => ScanAgreesWithParser
<1> SUFFICES ASSUME ScanInv PROVE ScanAgreesWithParser
  OBVIOUS
<1>1. /\ text \in Seq(Tokens) /\ Delimited(text) /\ offset \in 1..(Len(text) + 1)
      /\ \A i \in 1..(offset - 1) : Sound(text, i)
  BY StringAssumption DEF ScanInv, Scanned, DescentInv, StrictTypeOK
<1>2. /\ offset = Len(text) + 1 => ~has_lone_surrogate_escape(Symbols(text))
      /\ Kind(text, offset) = "string" /\ Says(text, offset).error = "LoneSurrogate" =>
            has_lone_surrogate_escape(Symbols(text))
  BY <1>1, TextScanned
<1>3. verdict = "Ok" => IsUtf8(text) /\ ~has_lone_surrogate_escape(Symbols(text))
  BY <1>2 DEF ScanInv, Scanned, DescentInv, RecursionBounded
<1>4. verdict = "LoneSurrogate" => IsUtf8(text) /\ has_lone_surrogate_escape(Symbols(text))
  BY <1>2 DEF ScanInv, Scanned
<1>5. verdict = "InvalidUtf8" => ~IsUtf8(text)
  BY DEF ScanInv, Scanned
<1>. QED BY <1>3, <1>4, <1>5 DEF ScanAgreesWithParser, validate_json_text

\* Nothing is read, and nothing said, before the first token.
LEMMA ScanInit == StrictInit => ScanInv
<1> SUFFICES ASSUME StrictInit PROVE Scanned
  BY DescentInit DEF ScanInv
<1>1. 1..(offset - 1) = {}
  BY DEF StrictInit
<1>. QED BY <1>1 DEF StrictInit, Scanned

\* Steps that read a token leave behind a string that could be read, if any.
LEMMA ReadIsSound ==
    ASSUME DescentInv,
           \/ ReadString \/ (ReadNumber /\ text[offset].safe) \/ ReadLiteral
           \/ OpenArray \/ OpenObject \/ ReadName \/ ReadColon \/ ReadComma \/ Close
    PROVE  /\ \E to, frames : Go(offset + 1, to, frames)
           /\ Sound(text, offset) /\ pc \notin {"check", "done"}
<1>1. \A frames : Complete(frames) => \E to, f : Go(offset + 1, to, f)
  BY DEF Complete
<1>2. CASE ReadString
  BY <1>1, <1>2 DEF ReadString, Sound
<1>3. CASE (ReadNumber /\ text[offset].safe) \/ ReadLiteral
  <2>1. Complete(stack) /\ token \in {"number", "literal"} /\ pc = "value"
    BY <1>3 DEF ReadNumber, ReadLiteral
  <2>. QED BY <1>1, <2>1 DEF Sound, token
<1>4. CASE OpenArray \/ OpenObject
  BY <1>4 DEF OpenArray, OpenObject, Sound, token
<1>5. CASE ReadName
  BY <1>5 DEF ReadName, Sound
<1>6. CASE ReadColon \/ ReadComma
  BY <1>6 DEF ReadColon, ReadComma, Sound, token
<1>7. CASE Close
  <2>1. PICK Names : stack \in Seq(Frames(Names))
    BY DEF DescentInv, Framed
  <2>2. /\ Complete(SubSeq(stack, 1, Len(stack) - 1))
        /\ pc \in {"first_item", "first_name", "separator"}
    BY <1>7 DEF Close
  <2>3. stack # << >>
    BY <2>2 DEF DescentInv, StrictTypeOK
  <2>4. Top.kind \in Opening
    <3>1. Top \in Frames(Names)
      BY <2>1, <2>3, StackFacts DEF Top
    <3>. QED BY <3>1 DEF Frames
  <2>5. token \in Closing
    BY <1>7, <2>4 DEF Close, CloserOf, Opening, Closing
  <2>. QED BY <1>1, <2>2, <2>5 DEF Sound, token, Closing
<1>. QED BY <1>2, <1>3, <1>4, <1>5, <1>6, <1>7

\* The parser goes on, past a token that is sound or past none.
LEMMA ScannedOnward ==
    ASSUME ScanInv, NEW to, NEW frames, NEW place, Go(place, to, frames), IsUtf8(text),
           pc # "done",
           place = offset \/ (place = offset + 1 /\ Sound(text, offset))
    PROVE  Scanned'
<1>1. /\ text' = text /\ verdict' = verdict /\ offset' = place /\ verdict = "pending"
  BY Pending DEF Go, ScanInv
<1>2. offset \in Nat \ {0}
  <2>1. text \in Seq(Tokens) /\ offset \in 1..(Len(text) + 1)
    BY DEF ScanInv, DescentInv, StrictTypeOK
  <2>. QED BY <2>1
<1>3. \A i \in 1..(place - 1) : i \in 1..(offset - 1) \/ (i = offset /\ place = offset + 1)
  BY <1>2
<1>4. \A i \in 1..(place - 1) : Sound(text, i)
  BY <1>3 DEF ScanInv, Scanned
<1>. QED BY <1>1, <1>4 DEF ScanInv, Scanned

\* The call returns: a surrogate is refused in the string that has it.
LEMMA ScannedReturn ==
    ASSUME ScanInv, NEW answer, Return(answer),
           answer \in {"Ok", "LoneSurrogate"} => IsUtf8(text),
           answer = "LoneSurrogate" =>
              Kind(text, offset) = "string" /\ Says(text, offset).error = "LoneSurrogate",
           answer = "InvalidUtf8" => ~IsUtf8(text)
    PROVE  Scanned'
<1>1. text' = text /\ verdict' = answer /\ offset' = offset /\ pc' = "done"
  BY DEF Return
<1>. QED BY <1>1 DEF ScanInv, Scanned

\* What is wrong with an input as a whole, and what is not.
LEMMA InputFaultFacts ==
    ASSUME limits \in [size : Nat, depth : Nat]
    PROVE  /\ InputFault \notin {"Ok", "LoneSurrogate"}
           /\ InputFault = "InvalidUtf8" => ~IsUtf8(text)
           /\ InputFault = "none" => IsUtf8(text)
<1>. DEFINE length == Len(Symbols(text))
<1>1. CASE limits.size < 1 \/ length > limits.size
  BY <1>1 DEF InputFault
<1>. QED BY <1>1 DEF InputFault

\* Action by action.
LEMMA ScanInvStep ==
    ASSUME ScanInv, [StrictNext]_parserVars
    PROVE  ScanInv'
<1>1. DescentInv'
  BY DescentStep DEF ScanInv
<1>2. limits \in [size : Nat, depth : Nat]
  BY LimitAssumption DEF ScanInv, DescentInv, StrictTypeOK
<1>3. pc \notin {"check", "done"} => IsUtf8(text)
  BY DEF ScanInv, Scanned
<1>4. CASE UNCHANGED parserVars
  BY <1>1, <1>4 DEF parserVars, ScanInv, Scanned
<1>5. CASE RefuseInput
  <2>1. InputFault # "none" /\ Return(InputFault)
    BY <1>5 DEF RefuseInput
  <2>. QED BY <1>1, <1>2, <2>1, InputFaultFacts, ScannedReturn DEF ScanInv
<1>6. CASE StartParser \/ ReadFirstItem \/ ReadFirstName
  <2>1. /\ \E to : Go(offset, to, stack)
        /\ pc # "done" /\ (pc = "check" => InputFault = "none")
    BY <1>6 DEF StartParser, ReadFirstItem, ReadFirstName
  <2>2. IsUtf8(text)
    BY <1>2, <1>3, <2>1, InputFaultFacts
  <2>. QED BY <1>1, <2>1, <2>2, ScannedOnward DEF ScanInv
<1>7. CASE \/ ReadString \/ (ReadNumber /\ text[offset].safe) \/ ReadLiteral
           \/ OpenArray \/ OpenObject \/ ReadName \/ ReadColon \/ ReadComma \/ Close
  <2>1. /\ \E to, frames : Go(offset + 1, to, frames)
        /\ Sound(text, offset) /\ pc \notin {"check", "done"}
    BY <1>7, ReadIsSound DEF ScanInv
  <2>. QED BY <1>1, <1>3, <2>1, ScannedOnward DEF ScanInv
<1>8. CASE RefuseString
  <2>1. PICK error \in StringErrors : Says(text, offset).error = error /\ Return(error)
    BY <1>8 DEF RefuseString
  <2>2. Kind(text, offset) = "string" /\ pc \notin {"check", "done"}
    BY <1>8 DEF RefuseString, token
  <2>3. error # "InvalidUtf8"
    BY DEF StringErrors
  <2>. QED BY <1>1, <1>3, <2>1, <2>2, <2>3, ScannedReturn DEF ScanInv
<1>9. CASE \/ RefuseDepth \/ (ReadNumber /\ ~text[offset].safe)
           \/ RefuseValue \/ RefuseName \/ RefuseToken \/ Accept
  <2>1. /\ pc \notin {"check", "done"}
        /\ \E answer \in {"DepthLimit", "UnsafeNumber", "Malformed", "DuplicateMember", "Ok"} :
              Return(answer)
    BY <1>9 DEF RefuseDepth, ReadNumber, RefuseValue, RefuseName, RefuseToken, Accept
  <2>. QED BY <1>1, <1>3, <2>1, ScannedReturn DEF ScanInv
<1>10. ReadNumber =>
          (ReadNumber /\ text[offset].safe) \/ (ReadNumber /\ ~text[offset].safe)
  OBVIOUS
<1>. QED BY <1>4, <1>5, <1>6, <1>7, <1>8, <1>9, <1>10, Zenon DEF StrictNext

----------------------------------------------------------------------------
(* What the parser has to read yet *)

\* What is wrong with the input as a whole is reason enough to refuse it.
LEMMA FaultIsRefused ==
    ASSUME text \in Seq(Tokens), limits \in [size : Nat, depth : Nat]
    PROVE  /\ Acceptable(<<text, limits>>) => InputFault = "none"
           /\ InputFault = "none" =>
                (Acceptable(<<text, limits>>) <=> IsDocument(text, limits.depth))
<1>. DEFINE size == Len(Symbols(text))
            document == IsDocument(text, limits.depth)
<1>1. size \in Nat /\ limits.size \in Nat /\ limits.depth \in Nat
  BY SizeIsNat
<1>2. Acceptable(<<text, limits>>) <=>
        limits.size >= 1 /\ size <= limits.size /\ limits.depth >= 1 /\ document
  BY Zenon DEF Acceptable
<1>3. document => IsUtf8(text)
  BY <1>1, DocumentIsUtf8
<1>. HIDE DEF size, document
<1>4. InputFault =
        CASE limits.size < 1 \/ size > limits.size -> "SizeLimit"
          [] limits.size >= size /\ limits.size >= 1 ->
                CASE limits.depth < 1 -> "DepthLimit"
                  [] limits.depth >= 1 /\ ~IsUtf8(text) -> "InvalidUtf8"
                  [] OTHER -> "none"
  BY Zenon DEF InputFault, size
<1>5. InputFault = "none" <=>
        limits.size >= 1 /\ size <= limits.size /\ limits.depth >= 1 /\ IsUtf8(text)
  <2>1. CASE limits.size < 1 \/ size > limits.size
    BY <1>1, <1>4, <2>1
  <2>2. CASE limits.size >= size /\ limits.size >= 1
    BY <1>1, <1>4, <2>2
  <2>. QED BY <1>1, <2>1, <2>2
<1>6. /\ Acceptable(<<text, limits>>) => InputFault = "none"
      /\ InputFault = "none" => (Acceptable(<<text, limits>>) <=> document)
  BY <1>2, <1>3, <1>5, Zenon
<1>. QED BY <1>6 DEF document

\* A value from the first place to the last is a value of so many levels.
IsValue == <<1, Len(text)>> \in Levels(text, limits.depth)[limits.depth]

\* What is left of a document: the text is a value exactly if, from here on,
\* it closes the levels that are open, and no level too many is opened.
Left ==
    /\ pc = "first_item" => Top.kind = "["
    /\ pc \notin {"check", "done"} => InputFault = "none"
    /\ pc # "done" => (IsValue <=> Rest(text, limits.depth, stack, pc, offset))

VerdictRight == verdict # "pending" => (verdict = "Ok" <=> Acceptable(<<text, limits>>))

PromiseInv == OffenceInv /\ Left /\ VerdictRight

\* The stack of a parser that is under way is one of levels within the limit.
LEMMA Leveled ==
    ASSUME OffenceInv, pc # "done"
    PROVE  /\ text \in Seq(Tokens) /\ limits \in [size : Nat, depth : Nat]
           /\ limits.depth \in Nat /\ offset \in Places(text)
           /\ AllOpening(stack) /\ Len(stack) <= limits.depth
           /\ TooDeep <=> ~(Len(stack) < limits.depth)
           /\ stack # << >> <=> Len(stack) # 0
<1>1. /\ text \in Seq(Tokens) /\ limits.depth \in Nat /\ offset \in 1..(Len(text) + 1)
      /\ Len(stack) \in Nat /\ Len(stack) = Nesting(text, offset)
  BY Here
<1>2. limits \in [size : Nat, depth : Nat]
  BY LimitAssumption DEF OffenceInv, DescentInv, StrictTypeOK
<1>3. AllOpening(stack)
  BY <1>1 DEF OffenceInv, DescentInv, StrictTypeOK, AllOpening
<1>4. Len(stack) <= limits.depth
  <2>1. offset \in 1..offset
    BY <1>1
  <2>. QED BY <1>1, <2>1 DEF OffenceInv, DescentInv, RecursionBounded
<1>5. TooDeep <=> ~(Len(stack) < limits.depth)
  BY <1>1 DEF TooDeep
<1>6. stack # << >> <=> Len(stack) # 0
  <2>1. PICK Names : stack \in Seq(Frames(Names))
    BY DEF OffenceInv, DescentInv, Framed
  <2>. QED BY <2>1
<1>. QED BY <1>1, <1>2, <1>3, <1>4, <1>5, <1>6 DEF Places

\* A step that leaves as much to be read as there was.
LEMMA LeftOnward ==
    ASSUME PromiseInv, pc # "done", InputFault = "none",
           NEW place, NEW to, NEW frames, Go(place, to, frames),
           to = "first_item" => frames[Len(frames)].kind = "[", to # "done",
           Rest(text, limits.depth, stack, pc, offset)
             <=> Rest(text, limits.depth, frames, to, place)
    PROVE  Left' /\ VerdictRight'
<1>1. /\ text' = text /\ limits' = limits /\ verdict' = "pending"
      /\ offset' = place /\ stack' = frames /\ pc' = to
  BY Here DEF Go, PromiseInv
<1>2. InputFault' = InputFault /\ IsValue' = IsValue
  BY <1>1 DEF InputFault, IsValue
<1>3. IsValue <=> Rest(text, limits.depth, frames, to, place)
  BY DEF PromiseInv, Left
<1>4. Left'
  BY <1>1, <1>2, <1>3 DEF Left, Top, IsValue
<1>. QED BY <1>1, <1>4 DEF VerdictRight

\* A refusal of what is not acceptable.
LEMMA LeftRefused ==
    ASSUME PromiseInv, NEW answer, Return(answer), answer # "Ok",
           ~Acceptable(<<text, limits>>)
    PROVE  Left' /\ VerdictRight'
<1>1. /\ text' = text /\ limits' = limits /\ verdict' = answer /\ pc' = "done"
  BY DEF Return
<1>2. Acceptable(<<text, limits>>)' = Acceptable(<<text, limits>>)
  BY <1>1
<1>. QED BY <1>1, <1>2 DEF Left, VerdictRight

\* If nothing is left to be read, the text is not acceptable.
LEMMA NothingLeft ==
    ASSUME PromiseInv, pc # "done", ~Rest(text, limits.depth, stack, pc, offset)
    PROVE  ~Acceptable(<<text, limits>>)
<1>1. ~IsDocument(text, limits.depth)
  BY DEF PromiseInv, Left, IsValue, IsDocument
<1>. QED BY <1>1, Leveled, FaultIsRefused DEF PromiseInv

\* Values end inside of the same levels, whatever names are added to them.
LEMMA CompleteSame ==
    ASSUME NEW Names, NEW frames \in Seq(Frames(Names)), Complete(frames)
    PROVE  \E to, others :
                to \in {"separator", "end"} /\ Go(offset + 1, to, others) /\ SameKinds(frames, others)
<1>1. Len(frames) \in Nat
  OBVIOUS
<1>2. CASE Len(frames) = 0
  <2>1. Go(offset + 1, "end", frames)
    BY <1>2 DEF Complete
  <2>2. SameKinds(frames, frames)
    BY <1>1 DEF SameKinds
  <2>. QED BY <2>1, <2>2
<1>3. CASE Len(frames) # 0
  <2>. DEFINE filled == Filled(frames[Len(frames)])
              others == [frames EXCEPT ![Len(frames)] = filled]
  <2>1. Go(offset + 1, "separator", others)
    BY <1>3 DEF Complete
  <2>2. frames # << >>
    BY <1>3
  <2>3. frames[Len(frames)] \in Frames(Names)
    BY <2>2, LastFacts
  <2>4. filled.kind = frames[Len(frames)].kind
    BY <2>3 DEF Filled, Frames
  <2>. HIDE DEF filled
  <2>5. /\ Len(others) = Len(frames) /\ others[Len(frames)] = filled
        /\ \A n \in 1..Len(frames) : n # Len(frames) => others[n] = frames[n]
    BY <2>2, LastFacts, Zenon
  <2>. HIDE DEF others
  <2>6. SameKinds(frames, others)
    BY <1>1, <2>4, <2>5 DEF SameKinds
  <2>. QED BY <2>1, <2>6
<1>. QED BY <1>2, <1>3

\* Steps that read no token.
LEMMA QuietLeft ==
    ASSUME PromiseInv, StartParser \/ ReadFirstItem \/ ReadFirstName
    PROVE  Left' /\ VerdictRight'
<1>1. CASE StartParser
  <2>1. pc = "check" /\ InputFault = "none" /\ Go(offset, "value", stack)
    BY <1>1 DEF StartParser
  <2>2. offset = 1 /\ Len(stack) = 0
    BY <2>1, Here, Leveled DEF PromiseInv, OffenceInv, DescentInv, StrictTypeOK, RoleFits
  <2>3. Rest(text, limits.depth, stack, pc, offset)
          <=> Rest(text, limits.depth, stack, "value", offset)
    BY <2>1, <2>2, Leveled, RestStart DEF PromiseInv
  <2>. QED BY <2>1, <2>3, LeftOnward
<1>2. CASE ReadFirstItem
  <2>1. pc = "first_item" /\ token # "]" /\ Go(offset, "value", stack)
    BY <1>2 DEF ReadFirstItem
  <2>2. Len(stack) # 0 /\ Top.kind = "[" /\ InputFault = "none"
    BY <2>1, Leveled DEF PromiseInv, Left, OffenceInv, DescentInv, StrictTypeOK
  <2>3. Rest(text, limits.depth, stack, pc, offset)
          <=> Rest(text, limits.depth, stack, "value", offset)
    BY <2>1, <2>2, Leveled, RestItem DEF PromiseInv, token, Top
  <2>. QED BY <2>1, <2>2, <2>3, LeftOnward
<1>3. CASE ReadFirstName
  <2>1. pc = "first_name" /\ token # "}" /\ Go(offset, "name", stack)
    BY <1>3 DEF ReadFirstName
  <2>2. Len(stack) # 0 /\ Top.kind = "{" /\ InputFault = "none"
    BY <2>1, Leveled DEF PromiseInv, Left, OffenceInv, DescentInv, StrictTypeOK
  <2>3. Rest(text, limits.depth, stack, pc, offset)
          <=> Rest(text, limits.depth, stack, "name", offset)
    BY <2>1, <2>2, Leveled, RestMember DEF PromiseInv, token, Top
  <2>. QED BY <2>1, <2>2, <2>3, LeftOnward
<1>. QED BY <1>1, <1>2, <1>3

\* A scalar is read.
LEMMA ScalarLeft ==
    ASSUME PromiseInv, ReadString \/ (ReadNumber /\ text[offset].safe) \/ ReadLiteral
    PROVE  Left' /\ VerdictRight'
<1>1. /\ pc = "value" /\ ~TooDeep /\ Complete(stack)
      /\ IsScalar(text, offset)
  BY DEF ReadString, ReadNumber, ReadLiteral, IsScalar, token
<1>2. PICK Names : stack \in Seq(Frames(Names))
  BY DEF PromiseInv, OffenceInv, DescentInv, Framed
<1>3. PICK to, others :
        to \in {"separator", "end"} /\ Go(offset + 1, to, others) /\ SameKinds(stack, others)
  BY <1>1, <1>2, CompleteSame
<1>4. Rest(text, limits.depth, stack, pc, offset)
        <=> Rest(text, limits.depth, others, to, offset + 1)
  BY <1>1, <1>3, Leveled, RestScalar DEF PromiseInv
<1>5. InputFault = "none"
  BY <1>1 DEF PromiseInv, Left
<1>. QED BY <1>1, <1>3, <1>4, <1>5, LeftOnward

\* A level is opened.
LEMMA OpenLeft ==
    ASSUME PromiseInv, OpenArray \/ OpenObject
    PROVE  Left' /\ VerdictRight'
<1>. DEFINE frame == IF token = "[" THEN Array ELSE Object
            to == IF token = "[" THEN "first_item" ELSE "first_name"
            frames == Append(stack, frame)
<1>1. /\ pc = "value" /\ ~TooDeep /\ token \in Opening
      /\ Go(offset + 1, to, frames)
  BY DEF OpenArray, OpenObject, Opening
<1>2. frame.kind = Kind(text, offset) /\ (to = "first_item" => frame.kind = "[")
  BY <1>1 DEF Array, Object, Opening, token
<1>3. PICK Names : stack \in Seq(Frames(Names))
  BY DEF PromiseInv, OffenceInv, DescentInv, Framed
<1>4. to \in {"first_item", "first_name"}
  OBVIOUS
<1>. HIDE DEF frame, to
<1>5. /\ Len(stack) \in Nat /\ Len(frames) = Len(stack) + 1
      /\ frames[Len(stack) + 1] = frame
      /\ \A n \in 1..Len(stack) : frames[n] = stack[n]
  BY <1>3
<1>. HIDE DEF frames
<1>6. Extends(frames, stack) /\ frames[Len(stack) + 1].kind = Kind(text, offset)
  BY <1>2, <1>5 DEF Extends
<1>7. Rest(text, limits.depth, stack, "value", offset)
        <=> Rest(text, limits.depth, frames, to, offset + 1)
  BY <1>1, <1>4, <1>6, Leveled, RestOpen DEF PromiseInv, token
<1>8. InputFault = "none"
  BY <1>1 DEF PromiseInv, Left
<1>9. (to = "first_item" => frames[Len(frames)].kind = "[") /\ to # "done"
  BY <1>2, <1>4, <1>5
<1>. QED BY <1>1, <1>7, <1>8, <1>9, LeftOnward

\* A name is read.
LEMMA NameLeft ==
    ASSUME PromiseInv, ReadName
    PROVE  Left' /\ VerdictRight'
<1>. DEFINE name == Named(Top, Says(text, offset).out)
            named == [stack EXCEPT ![Len(stack)] = name]
<1>1. /\ pc = "name" /\ token = "string" /\ Says(text, offset).error = "none"
      /\ Go(offset + 1, "colon", named)
  BY DEF ReadName
<1>2. stack # << >> /\ Top.kind = "{" /\ InputFault = "none"
  BY <1>1, AtName DEF PromiseInv, Left
<1>3. PICK Names : stack \in Seq(Frames(Names))
  BY DEF PromiseInv, OffenceInv, DescentInv, Framed
<1>4. Top \in Frames(Names) /\ Len(stack) \in Nat
  BY <1>2, <1>3, LastFacts DEF Top
<1>5. name.kind = Top.kind
  BY <1>4 DEF Named, Frames
<1>. HIDE DEF name
<1>6. /\ Len(named) = Len(stack) /\ named[Len(stack)] = name
      /\ \A n \in 1..Len(stack) : n # Len(stack) => named[n] = stack[n]
  BY <1>2, <1>3, LastFacts, Zenon
<1>. HIDE DEF named
<1>7. SameKinds(stack, named)
  BY <1>4, <1>5, <1>6 DEF SameKinds, Top
<1>8. Rest(text, limits.depth, stack, "name", offset)
        <=> Rest(text, limits.depth, named, "colon", offset + 1)
  BY <1>1, <1>2, <1>7, Leveled, RestName DEF PromiseInv, token, Top
<1>. QED BY <1>1, <1>2, <1>8, LeftOnward

\* A colon or a comma is read.
LEMMA PunctuationLeft ==
    ASSUME PromiseInv, ReadColon \/ ReadComma
    PROVE  Left' /\ VerdictRight'
<1>1. CASE ReadColon
  <2>1. pc = "colon" /\ token = ":" /\ Go(offset + 1, "value", stack)
    BY <1>1 DEF ReadColon
  <2>2. Rest(text, limits.depth, stack, "colon", offset)
          <=> Rest(text, limits.depth, stack, "value", offset + 1)
    BY <2>1, Leveled, RestColon DEF PromiseInv, token
  <2>3. InputFault = "none"
    BY <2>1 DEF PromiseInv, Left
  <2>. QED BY <2>1, <2>2, <2>3, LeftOnward
<1>2. CASE ReadComma
  <2>. DEFINE to == IF Top.kind = "{" THEN "name" ELSE "value"
  <2>1. pc = "separator" /\ token = "," /\ Go(offset + 1, to, stack)
    BY <1>2 DEF ReadComma
  <2>2. Len(stack) # 0 /\ InputFault = "none"
    BY <2>1, Leveled DEF PromiseInv, Left, OffenceInv, DescentInv, StrictTypeOK
  <2>3. to = (IF stack[Len(stack)].kind = "{" THEN "name" ELSE "value") /\ to \in {"name", "value"}
    BY DEF Top
  <2>. HIDE DEF to
  <2>4. Rest(text, limits.depth, stack, "separator", offset)
          <=> Rest(text, limits.depth, stack, to, offset + 1)
    BY <2>1, <2>2, <2>3, Leveled, RestComma DEF PromiseInv, token
  <2>5. to # "first_item" /\ to # "done"
    BY <2>3
  <2>. QED BY <2>1, <2>2, <2>4, <2>5, LeftOnward
<1>. QED BY <1>1, <1>2

\* A level is closed.
LEMMA CloseLeft ==
    ASSUME PromiseInv, Close
    PROVE  Left' /\ VerdictRight'
<1>. DEFINE fewer == SubSeq(stack, 1, Len(stack) - 1)
<1>1. /\ Complete(fewer) /\ pc \in {"first_item", "first_name", "separator"}
      /\ pc = "first_item" => token = "]"
      /\ pc = "first_name" => token = "}"
      /\ pc = "separator" => token = CloserOf[Top.kind]
  BY DEF Close
<1>2. PICK Names : stack \in Seq(Frames(Names))
  BY DEF PromiseInv, OffenceInv, DescentInv, Framed
<1>3. /\ stack # << >> /\ (pc = "first_name" => Top.kind = "{")
      /\ pc = "first_item" => Top.kind = "["
      /\ InputFault = "none"
  BY <1>1 DEF PromiseInv, Left, OffenceInv, DescentInv, StrictTypeOK
<1>4. Kind(text, offset) = CloserOf[Top.kind]
  BY <1>1, <1>3 DEF CloserOf, Opening, token
<1>5. /\ fewer \in Seq(Frames(Names)) /\ Len(stack) \in Nat
      /\ Len(fewer) = Len(stack) - 1
      /\ \A n \in 1..(Len(stack) - 1) : fewer[n] = stack[n]
  <2>1. fewer \in Seq(Frames(Names)) /\ Len(fewer) = Len(stack) - 1
    BY <1>2, <1>3, StackFacts
  <2>2. \A n \in 1..(Len(stack) - 1) : fewer[n] = stack[n]
    BY <1>2, <2>1
  <2>. HIDE DEF fewer
  <2>. QED BY <1>2, <2>1, <2>2
<1>. HIDE DEF fewer
<1>6. PICK to, others :
        to \in {"separator", "end"} /\ Go(offset + 1, to, others) /\ SameKinds(fewer, others)
  BY <1>1, <1>5, CompleteSame
<1>7. Extends(stack, others)
  <2>1. Len(others) = Len(stack) - 1 /\ Len(others) \in Nat
    BY <1>5, <1>6 DEF SameKinds
  <2>2. \A n \in 1..Len(others) : stack[n].kind = others[n].kind
    BY <1>5, <1>6 DEF SameKinds
  <2>3. Len(stack) = Len(others) + 1
    BY <1>5, <2>1
  <2>. QED BY <2>1, <2>2, <2>3 DEF Extends
<1>8. Rest(text, limits.depth, stack, pc, offset)
        <=> Rest(text, limits.depth, others, to, offset + 1)
  <2>1. /\ text \in Seq(Tokens) /\ limits.depth \in Nat /\ AllOpening(stack)
        /\ Len(stack) # 0 /\ Len(stack) <= limits.depth /\ offset \in Places(text)
    BY <1>1, <1>3, Leveled DEF PromiseInv
  <2>2. Kind(text, offset) = CloserOf[stack[Len(stack)].kind]
    BY <1>4 DEF Top
  <2>3. pc \in {"first_item", "first_name", "separator"}
    BY <1>1
  <2>. QED BY <1>6, <1>7, <2>1, <2>2, <2>3, RestClose
<1>. QED BY <1>1, <1>3, <1>6, <1>8, LeftOnward

\* A step that refuses has found that nothing can follow, or a name twice, or
\* what is wrong with the input as a whole.
LEMMA RefusedLeft ==
    ASSUME PromiseInv,
           \/ RefuseInput \/ RefuseDepth \/ RefuseString
           \/ (ReadNumber /\ ~text[offset].safe) \/ RefuseValue \/ RefuseName \/ RefuseToken
    PROVE  Left' /\ VerdictRight'
<1>. DEFINE d == limits.depth
<1>1. CASE RefuseInput
  <2>1. pc # "done" /\ InputFault # "none" /\ Return(InputFault)
    BY <1>1 DEF RefuseInput
  <2>2. text \in Seq(Tokens) /\ limits \in [size : Nat, depth : Nat]
    BY <2>1, Leveled DEF PromiseInv
  <2>3. ~Acceptable(<<text, limits>>) /\ InputFault # "Ok"
    BY <2>1, <2>2, FaultIsRefused, InputFaultFacts
  <2>. QED BY <2>1, <2>3, LeftRefused
<1>2. CASE RefuseName
  <2>1. /\ pc = "name" /\ token = "string" /\ Return("DuplicateMember")
        /\ Says(text, offset).out \in Top.names
    BY <1>2 DEF RefuseName
  <2>2. Role(text, offset) = "name" /\ Repeats(text, offset)
    <3>1. Role(text, offset) = "name" /\ stack # << >> /\ Top.kind = "{" /\ ~Pended(pc)
      BY <2>1, AtName DEF PromiseInv, Pended
    <3>2. Top.names = NamesOf(text, offset, Opener(text, offset))
      BY <2>1, <3>1, Inside DEF PromiseInv
    <3>. QED BY <2>1, <3>1, <3>2, RepeatsName
  <2>3. offset \in DOMAIN text
    BY <2>1 DEF token, Kind, End
  <2>4. ~IsDocument(text, limits.depth)
    BY <2>2, <2>3 DEF IsDocument
  <2>5. ~Acceptable(<<text, limits>>)
    BY <2>4 DEF Acceptable
  <2>. QED BY <2>1, <2>5, LeftRefused
<1>3. CASE \/ RefuseDepth \/ RefuseString \/ (ReadNumber /\ ~text[offset].safe)
           \/ RefuseValue \/ RefuseToken
  <2>1. \E answer : answer # "Ok" /\ Return(answer)
    BY <1>3 DEF RefuseDepth, RefuseString, ReadNumber, RefuseValue, RefuseToken, StringErrors
  <2>2. pc \in {"value", "name", "colon", "separator", "end"}
    BY <1>3 DEF RefuseDepth, RefuseString, ReadNumber, RefuseValue, RefuseToken
  <2>3. /\ text \in Seq(Tokens) /\ d \in Nat /\ AllOpening(stack)
        /\ Len(stack) <= d /\ offset \in Places(text)
        /\ pc \in {"name", "separator"} => Len(stack) # 0
        /\ pc = "name" => stack[Len(stack)].kind = "{"
        /\ pc = "end" => Len(stack) = 0
    BY <2>2, Leveled DEF PromiseInv, OffenceInv, DescentInv, StrictTypeOK, Top
  <2>4. \/ pc = "value" /\ Len(stack) = d
        \/ pc = "value" /\ Kind(text, offset) \notin Opening /\ ~IsScalar(text, offset)
        \/ pc = "name" /\ (Kind(text, offset) # "string" \/ ~IsScalar(text, offset))
        \/ pc = "colon" /\ Kind(text, offset) # ":"
        \/ /\ pc = "separator"
           /\ Kind(text, offset) # "," /\ Kind(text, offset) # CloserOf[stack[Len(stack)].kind]
        \/ pc = "end" /\ offset # Len(text) + 1
    <3>1. CASE RefuseDepth
      <4>1. pc = "value" /\ TooDeep
        BY <3>1 DEF RefuseDepth
      <4>2. Len(stack) = d
        BY <2>3, <4>1, Leveled, FramesFit DEF PromiseInv
      <4>. QED BY <4>1, <4>2
    <3>2. CASE RefuseString
      <4>1. pc \in {"value", "name"} /\ token = "string" /\ Says(text, offset).error # "none"
        BY <3>2 DEF RefuseString, StringErrors
      <4>2. Kind(text, offset) \notin Opening /\ ~IsScalar(text, offset)
        BY <4>1 DEF IsScalar, token, Opening
      <4>. QED BY <4>1, <4>2
    <3>3. CASE ReadNumber /\ ~text[offset].safe
      <4>1. pc = "value" /\ Kind(text, offset) \notin Opening /\ ~IsScalar(text, offset)
        BY <3>3 DEF ReadNumber, IsScalar, token, Opening
      <4>. QED BY <4>1
    <3>4. CASE RefuseValue
      <4>1. pc = "value" /\ Kind(text, offset) \notin Opening /\ ~IsScalar(text, offset)
        BY <3>4 DEF RefuseValue, IsScalar, token
      <4>. QED BY <4>1
    <3>5. CASE RefuseToken
      BY <3>5 DEF RefuseToken, token, Top
    <3>. QED BY <1>3, <3>1, <3>2, <3>3, <3>4, <3>5
  <2>. HIDE DEF d
  <2>5. ~Rest(text, d, stack, pc, offset)
    BY <2>3, <2>4, RestNothing, Zenon
  <2>6. ~Acceptable(<<text, limits>>)
    BY <2>2, <2>5, NothingLeft DEF d
  <2>. QED BY <2>1, <2>6, LeftRefused
<1>. QED BY <1>1, <1>2, <1>3

\* A text is accepted when nothing is left to be read, and nothing was wrong.
LEMMA AcceptLeft ==
    ASSUME PromiseInv, Accept
    PROVE  Left' /\ VerdictRight'
<1>1. pc = "end" /\ offset = Len(text) + 1 /\ Return("Ok") /\ InputFault = "none"
  BY DEF Accept, PromiseInv, Left
<1>2. /\ text \in Seq(Tokens) /\ limits \in [size : Nat, depth : Nat] /\ Len(stack) = 0
  BY <1>1, Leveled DEF PromiseInv, OffenceInv, DescentInv, StrictTypeOK
<1>3. IsValue
  <2>1. Rest(text, limits.depth, stack, "end", offset)
    BY <1>1, <1>2, RestAccept
  <2>. QED BY <1>1, <2>1 DEF PromiseInv, Left
<1>4. \A i \in 1..Len(text) : Offence(text, i, limits.depth) = "none"
  <2>1. \A i \in 1..Len(text) : i \in 1..(offset - 1)
    BY <1>1, <1>2
  <2>. QED BY <1>1, <2>1, Here DEF PromiseInv
<1>5. IsDocument(text, limits.depth)
  BY <1>2, <1>3, <1>4, NamesAreUnique DEF IsDocument, IsValue
<1>6. Acceptable(<<text, limits>>)
  BY <1>1, <1>2, <1>5, FaultIsRefused
<1>7. /\ text' = text /\ limits' = limits /\ verdict' = "Ok" /\ pc' = "done"
  BY <1>1 DEF Return
<1>8. Acceptable(<<text, limits>>)' = Acceptable(<<text, limits>>)
  BY <1>7
<1>. QED BY <1>6, <1>7, <1>8 DEF Left, VerdictRight

\* At first the whole text is left.
LEMMA PromiseInvInit == StrictInit => PromiseInv
<1> SUFFICES ASSUME StrictInit PROVE PromiseInv
  OBVIOUS
<1>1. OffenceInv
  BY OffenceInit
<1>2. pc = "check" /\ offset = 1 /\ stack = << >> /\ verdict = "pending"
  BY DEF StrictInit
<1>3. Rest(text, limits.depth, stack, pc, offset) <=> IsValue
  <2>1. text \in Seq(Tokens) /\ limits.depth \in Nat /\ Len(stack) = 0
    BY <1>1, <1>2, Leveled
  <2>. QED BY <1>2, <2>1, RestStart DEF IsValue
<1>. QED BY <1>1, <1>2, <1>3 DEF PromiseInv, Left, VerdictRight

\* Action by action.
LEMMA PromiseInvStep ==
    ASSUME PromiseInv, [StrictNext]_parserVars
    PROVE  PromiseInv'
<1>1. OffenceInv'
  BY OffenceStep DEF PromiseInv
<1>2. CASE UNCHANGED parserVars
  <2>1. /\ text' = text /\ limits' = limits /\ pc' = pc /\ offset' = offset
        /\ stack' = stack /\ verdict' = verdict
    BY <1>2 DEF parserVars
  <2>. QED BY <1>1, <2>1 DEF PromiseInv, Left, VerdictRight, InputFault, IsValue, Top
<1>3. CASE StrictNext
  <2>1. ReadNumber =>
          (ReadNumber /\ text[offset].safe) \/ (ReadNumber /\ ~text[offset].safe)
    OBVIOUS
  <2>2. Left' /\ VerdictRight'
    BY <1>3, <2>1, QuietLeft, ScalarLeft, OpenLeft, NameLeft, PunctuationLeft, CloseLeft,
       RefusedLeft, AcceptLeft, Zenon DEF StrictNext
  <2>. QED BY <1>1, <2>2 DEF PromiseInv
<1>. QED BY <1>2, <1>3

----------------------------------------------------------------------------
(* Theorems *)

\* Every reachable state of a parse is well typed: the parser is never inside
\* a member without an object around it, nor at the end inside anything.
THEOREM StrictTypeCorrect == StrictSpec => []StrictTypeOK
<1>1. DescentInv => StrictTypeOK
  BY DEF DescentInv
<1>. QED BY <1>1, DescentInit, DescentStep, PTL DEF StrictSpec

\* The call stack follows the brackets of the text, however long it is and
\* whatever its brackets, and never exceeds the caller's limit.
THEOREM DescentIsBounded == StrictSpec => []RecursionBounded
<1>1. DescentInv => RecursionBounded
  BY DEF DescentInv
<1>. QED BY <1>1, DescentInit, DescentStep, PTL DEF StrictSpec

\* The verdict on any text is what is wrong with the first place where
\* anything is wrong, whatever the way the parser went.
THEOREM FirstOffenceIsNamed == StrictSpec => []VerdictNamesFirstOffence
<1>1. OffenceInv => VerdictNamesFirstOffence
  BY DEF OffenceInv
<1>. QED BY <1>1, OffenceInit, OffenceStep, PTL DEF StrictSpec

\* What the parser accepts passes the scan of raw texts, and the surrogate or
\* the bytes it refuses are refused there too: on texts of every length, with
\* any escapes in their strings.
THEOREM ScanAgrees == StrictSpec => []ScanAgreesWithParser
<1>. QED BY ScanInit, ScanInvStep, ScanInvAgrees, PTL DEF StrictSpec

\* A parse is an execution of the abstract Decision: it starts undecided, and
\* each step decides rightly or leaves the decision alone.  It accepts exactly
\* the documents of the grammar within the limits, whatever the text.
THEOREM ParserDecides ==
    StrictSpec => ParserPromise!Init /\ [][ParserPromise!Decide]_(ParserPromise!vars)
<1>1. StrictInit => ParserPromise!Init
  BY DEF StrictInit, ParserPromise!Init, IsParserCall
<1>2. PromiseInv /\ PromiseInv' /\ [StrictNext]_parserVars
         => [ParserPromise!Decide]_(ParserPromise!vars)
  <2> SUFFICES ASSUME PromiseInv, PromiseInv', [StrictNext]_parserVars
               PROVE  [ParserPromise!Decide]_(ParserPromise!vars)
    OBVIOUS
  <2>1. UNCHANGED <<text, limits>>
    BY DEF StrictNext, parserVars, RefuseInput, StartParser, RefuseDepth, ReadString,
           RefuseString, ReadNumber, ReadLiteral, OpenArray, OpenObject, RefuseValue,
           ReadFirstItem, ReadFirstName, ReadName, RefuseName, ReadColon, ReadComma,
           Close, RefuseToken, Accept, Complete, Go, Return
  <2>2. CASE verdict' = verdict
    BY <2>1, <2>2 DEF ParserPromise!vars
  <2>3. CASE verdict' # verdict
    <3>1. verdict = "pending"
      <4>1. pc # "done"
        BY <2>3 DEF StrictNext, parserVars, RefuseInput, StartParser, RefuseDepth, ReadString,
           RefuseString, ReadNumber, ReadLiteral, OpenArray, OpenObject, RefuseValue,
           ReadFirstItem, ReadFirstName, ReadName, RefuseName, ReadColon, ReadComma,
           Close, RefuseToken, Accept
      <4>. QED BY <4>1, Here DEF PromiseInv
    <3>2. verdict' # "pending"
      BY <2>3, <3>1
    <3>3. (verdict = "Ok" <=> Acceptable(<<text, limits>>))'
      BY <3>2 DEF PromiseInv, VerdictRight
    <3>4. Acceptable(<<text, limits>>)' <=> Acceptable(<<text, limits>>)
      BY <2>1
    <3>. QED BY <2>1, <3>1, <3>2, <3>3, <3>4 DEF ParserPromise!Decide
  <2>. QED BY <2>2, <2>3
<1>. QED BY <1>1, <1>2, PromiseInvInit, PromiseInvStep, PTL DEF StrictSpec
=============================================================================
