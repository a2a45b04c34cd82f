--------------------------- MODULE HostingProofs ---------------------------
(***************************************************************************)
(* What a client of the hosting layer is shown and what it may rely on.  A *)
(* response is a pipe of three layers, and the argument follows a frame    *)
(* through it: what chat has accumulated is what the client has been shown *)
(* once the frames in hand reach it (AccumulatesYielded), nothing that     *)
(* counts follows DONE (DoneIsLast), and the frames still to come open and *)
(* close calls in turn, from those the client has open to those            *)
(* ToolCallBuffer has (BracketsFollow).  Brackets says the last without    *)
(* recursion: there are the sets of open calls that each frame of the      *)
(* outbox passes through.                                                  *)
(* For the server process: the store is exchanged before the server is     *)
(* ready, so what a ready server acknowledged is in the store it serves    *)
(* (KeptFor).                                                              *)
(* Last, the calls of the delegation tool, whose specialists run in the    *)
(* same server, any number of them at once with any number of attempts: a  *)
(* call sleeps only before another attempt (Sleeping), and its tab has     *)
(* been told of the end while it stores what an aborted specialist has     *)
(* said (TabInv).                                                          *)
(***************************************************************************)
EXTENDS Hosting, Delegation, FiniteSetTheorems, SequenceTheorems, TLAPS

(***************************************************************************)
(* Frames and what they open                                               *)
(***************************************************************************)
\* The frames an update is mapped to, and those of the layers themselves.
CallFrames == {"START", "DELTA", "END", "RESULT"}
LayerFrames == {"none", "DONE", "ERROR", "ABORTED", "KEEPALIVE", "DELEGATION"}
Frames == {f \in [type : CallFrames \cup {"TOKEN"}, id : Ids \cup {NoCall},
                  args : {"none", "given", "empty"}] :
             /\ f.type \in CallFrames => f.id \in Ids
             /\ f.type = "END" => f.args # "none"}
AllFrames == Frames \cup {Plain(type) : type \in LayerFrames}
Tools == [Ids -> {"absent", "open", "given", "empty"}]

OpenIn(ts) == {c \in Ids : ts[c] = "open"}
Fits(f, opened) == /\ f.type = "START" => f.id \notin opened
                   /\ f.type \in {"DELTA", "END"} => f.id \in opened
                   /\ f.type = "DONE" => opened = {}
Passed(f, opened) == IF f.type = "START" THEN opened \cup {f.id}
                     ELSE IF f.type = "END" THEN opened \ {f.id} ELSE opened

LEMMA PlainFrames ==
    ASSUME NEW type \in LayerFrames
    PROVE  Plain(type) \in AllFrames /\ Plain(type).type = type
BY DEF Plain, Frame, AllFrames

LEMMA TokenFrame == Plain("TOKEN") \in Frames /\ Plain("TOKEN").type = "TOKEN"
BY DEF Plain, Frame, Frames, CallFrames

LEMMA CallFrame ==
    ASSUME NEW type \in CallFrames, NEW c \in Ids, NEW args \in {"none", "given", "empty"},
           type = "END" => args # "none"
    PROVE  /\ Frame(type, c, args) \in Frames /\ Frame(type, c, args).type = type
           /\ Frame(type, c, args).id = c
BY DEF Frame, Frames, CallFrames

LEMMA AccumulatedOpens ==
    ASSUME NEW f \in AllFrames, NEW ts \in Tools
    PROVE  Accumulated(f, ts) \in Tools /\ OpenIn(Accumulated(f, ts)) = Passed(f, OpenIn(ts))
<1>1. CASE f.type = "START"
  <2>1. f.id \in Ids /\ Accumulated(f, ts) = [ts EXCEPT ![f.id] = "open"]
    BY <1>1 DEF AllFrames, LayerFrames, Plain, Frame, Frames, CallFrames, Accumulated
  <2>2. QED
    BY <1>1, <2>1 DEF Tools, OpenIn, Passed
<1>2. CASE f.type = "END"
  <2>1. f.id \in Ids /\ Accumulated(f, ts) = [ts EXCEPT ![f.id] = f.args] /\ f.args \in {"given", "empty"}
    BY <1>2 DEF AllFrames, LayerFrames, Plain, Frame, Frames, CallFrames, Accumulated
  <2>2. QED
    BY <1>2, <2>1 DEF Tools, OpenIn, Passed
<1>3. CASE f.type \notin {"START", "END"}
  BY <1>3 DEF Accumulated, Passed
<1>4. QED
  BY <1>1, <1>2, <1>3

(***************************************************************************)
(* Sequences of frames                                                     *)
(***************************************************************************)
\* opened[i]: the calls that are open before the frame i.
Follows(opened, frames, from, to) ==
  /\ opened[1] = from /\ opened[Len(frames) + 1] = to
  /\ \A i \in 1..Len(frames) : /\ Fits(frames[i], opened[i])
                               /\ opened[i + 1] = Passed(frames[i], opened[i])
Brackets(frames, from, to) ==
  \E opened \in [1..(Len(frames) + 1) -> SUBSET Ids] : Follows(opened, frames, from, to)

LEMMA NoBrackets == \A from \in SUBSET Ids : Brackets(<<>>, from, from)
<1> TAKE from \in SUBSET Ids
<1> DEFINE opened == [i \in 1..1 |-> from]
<1>1. Len(<<>>) = 0
  OBVIOUS
<1>2. opened \in [1..1 -> SUBSET Ids] /\ opened[1] = from
  OBVIOUS
<1> HIDE DEF opened
<1>3. Follows(opened, <<>>, from, from)
  BY <1>1, <1>2 DEF Follows
<1>4. QED
  BY <1>1, <1>2, <1>3 DEF Brackets

LEMMA NothingOpened == \A from, to : Brackets(<<>>, from, to) => from = to
BY DEF Brackets, Follows

LEMMA FrameBrackets ==
    ASSUME NEW frames \in Seq(Frames), NEW from \in SUBSET Ids, NEW to \in SUBSET Ids,
           Brackets(frames, from, to), NEW f \in Frames, Fits(f, to)
    PROVE  /\ Append(frames, f) \in Seq(Frames) /\ Passed(f, to) \in SUBSET Ids
           /\ Brackets(Append(frames, f), from, Passed(f, to))
<1> DEFINE n == Len(frames)  next == Passed(f, to)  longer == Append(frames, f)
<1>1. n \in Nat /\ longer \in Seq(Frames) /\ Len(longer) = n + 1 /\ longer[n + 1] = f
      /\ \A i \in 1..n : longer[i] = frames[i]
  BY AppendProperties, LenProperties
<1>2. next \in SUBSET Ids
  BY DEF Frames, CallFrames, Passed
<1>3. PICK opened \in [1..(n + 1) -> SUBSET Ids] : Follows(opened, frames, from, to)
  BY DEF Brackets
<1> DEFINE more == [i \in 1..(n + 2) |-> IF i = n + 2 THEN next ELSE opened[i]]
<1> HIDE DEF n, next, longer
<1>4. more \in [1..(n + 2) -> SUBSET Ids] /\ more[n + 2] = next
      /\ \A i \in 1..(n + 1) : more[i] = opened[i]
  BY <1>1, <1>2, <1>3
<1> HIDE DEF more
<1>5. opened[1] = from /\ opened[n + 1] = to
  BY <1>3 DEF Follows, n
<1>6. more[1] = from /\ more[n + 1] = to /\ more[n + 2] = next
  BY <1>1, <1>4, <1>5
<1>7. ASSUME NEW i \in 1..(n + 1)
      PROVE  Fits(longer[i], more[i]) /\ more[i + 1] = Passed(longer[i], more[i])
  <2>1. CASE i = n + 1
    <3>1. longer[i] = f /\ more[i] = to /\ more[i + 1] = next
      BY <1>1, <1>6, <2>1
    <3>2. QED
      BY <3>1 DEF next
  <2>2. CASE i # n + 1
    <3>1. i \in 1..n /\ i \in 1..(n + 1) /\ i + 1 \in 1..(n + 1)
      BY <1>1, <2>2
    <3>2. longer[i] = frames[i] /\ more[i] = opened[i] /\ more[i + 1] = opened[i + 1]
      BY <1>1, <1>4, <3>1
    <3>3. Fits(frames[i], opened[i]) /\ opened[i + 1] = Passed(frames[i], opened[i])
      BY <1>3, <3>1 DEF Follows, n
    <3>4. QED
      BY <3>2, <3>3
  <2>3. QED
    BY <2>1, <2>2
<1>8. Follows(more, longer, from, next)
  <2>1. Len(longer) + 1 = n + 2 /\ Len(longer) = n + 1
    BY <1>1
  <2>2. QED
    BY <1>6, <1>7, <2>1 DEF Follows
<1>9. more \in [1..(Len(longer) + 1) -> SUBSET Ids]
  BY <1>1, <1>4
<1>10. Brackets(longer, from, next)
  BY <1>8, <1>9 DEF Brackets
<1>11. QED
  BY <1>1, <1>2, <1>10 DEF longer, next

LEMMA HeadPasses ==
    ASSUME NEW frames \in Seq(Frames), frames # <<>>, NEW from \in SUBSET Ids, NEW to \in SUBSET Ids,
           Brackets(frames, from, to)
    PROVE  /\ Head(frames) \in Frames /\ Tail(frames) \in Seq(Frames)
           /\ Fits(Head(frames), from) /\ Brackets(Tail(frames), Passed(Head(frames), from), to)
<1> DEFINE n == Len(frames)  rest == Tail(frames)
<1>1. n \in Nat \ {0} /\ Head(frames) = frames[1] /\ frames[1] \in Frames /\ rest \in Seq(Frames)
      /\ Len(rest) = n - 1 /\ \A i \in 1..(n - 1) : rest[i] = frames[i + 1]
  BY HeadTailProperties, EmptySeq, LenProperties
<1>2. PICK opened \in [1..(n + 1) -> SUBSET Ids] : Follows(opened, frames, from, to)
  BY DEF Brackets
<1> HIDE DEF n, rest
<1>3. opened[1] = from /\ opened[n + 1] = to
      /\ \A i \in 1..n : Fits(frames[i], opened[i]) /\ opened[i + 1] = Passed(frames[i], opened[i])
  BY <1>2 DEF Follows, n
<1> DEFINE later == [i \in 1..n |-> opened[i + 1]]
<1>4. later \in [1..n -> SUBSET Ids] /\ \A i \in 1..n : later[i] = opened[i + 1]
  BY <1>1, <1>2
<1> HIDE DEF later
<1>5. 1 \in 1..n /\ n \in 1..n
  BY <1>1
<1>6. Fits(Head(frames), from) /\ later[1] = Passed(Head(frames), from) /\ later[n] = to
  BY <1>1, <1>3, <1>4, <1>5
<1>7. \A i \in 1..(n - 1) : Fits(rest[i], later[i]) /\ later[i + 1] = Passed(rest[i], later[i])
  <2> TAKE i \in 1..(n - 1)
  <2>1. i \in 1..n /\ i + 1 \in 1..n
    BY <1>1
  <2>2. rest[i] = frames[i + 1] /\ later[i] = opened[i + 1] /\ later[i + 1] = opened[(i + 1) + 1]
    BY <1>1, <1>4, <2>1
  <2>3. QED
    BY <1>3, <2>1, <2>2
<1>8. Len(rest) = n - 1 /\ Len(rest) + 1 = n
  BY <1>1
<1>9. Follows(later, rest, Passed(Head(frames), from), to)
  BY <1>6, <1>7, <1>8 DEF Follows
<1>10. Brackets(rest, Passed(Head(frames), from), to)
  BY <1>4, <1>8, <1>9 DEF Brackets
<1>11. QED
  BY <1>1, <1>6, <1>10 DEF rest
(***************************************************************************)
(* ToolCallBuffer                                                          *)
(***************************************************************************)
BufferedCall == [phase : {"absent", "open", "closed"}, args : Seq(Fragments), slot : Nat]
Buffers == [Calls -> BufferedCall]

\* What a step on the buffer hands out leaves open what the buffer has open.
Mapped(outcome, from) ==
  /\ outcome.calls \in Buffers /\ outcome.frames \in Seq(Frames)
  /\ Brackets(outcome.frames, from, OpenCalls(outcome.calls))

LEMMA CallIds == Calls \subseteq Ids /\ ServerCall \in Ids /\ ServerCall \notin Calls /\ IsFiniteSet(Calls)
BY HostedAssumption DEF Ids

LEMMA OpenIds == ASSUME NEW cs PROVE OpenCalls(cs) \in SUBSET Ids
BY CallIds DEF OpenCalls

LEMMA EndFrame ==
    ASSUME NEW cs, NEW c \in Calls
    PROVE  EndOf(cs, c) \in Frames /\ EndOf(cs, c).type = "END" /\ EndOf(cs, c).id = c
BY CallFrame, CallIds DEF EndOf, ParsedOr, CallFrames

LEMMA ClosedCloses ==
    ASSUME NEW cs \in Buffers, NEW c \in Calls
    PROVE  Closed(cs, c) \in Buffers /\ OpenCalls(Closed(cs, c)) = OpenCalls(cs) \ {c}
           /\ \A d \in Calls \ {c} : Closed(cs, c)[d] = cs[d]
<1>1. [cs[c] EXCEPT !.phase = "closed"] \in BufferedCall
      /\ [cs[c] EXCEPT !.phase = "closed"].phase = "closed"
  BY DEF Buffers, BufferedCall
<1>2. Closed(cs, c) = [cs EXCEPT ![c] = [cs[c] EXCEPT !.phase = "closed"]]
  BY DEF Closed, Buffers
<1>3. QED
  BY <1>1, <1>2 DEF Buffers, OpenCalls

LEMMA SettleBrackets ==
    ASSUME NEW cs \in Buffers, NEW c \in OpenCalls(cs), NEW frames \in Seq(Frames),
           NEW from \in SUBSET Ids, Brackets(frames, from, OpenCalls(cs))
    PROVE  Mapped(Settle(cs, c, frames), from)
<1>1. c \in Calls
  BY DEF OpenCalls
<1>2. CASE Parses(cs[c].args)
  <2>1. /\ Settle(cs, c, frames).calls = Closed(cs, c)
        /\ Settle(cs, c, frames).frames = Append(frames, EndOf(cs, c))
    BY <1>2 DEF Settle
  <2>2. Fits(EndOf(cs, c), OpenCalls(cs)) /\ Passed(EndOf(cs, c), OpenCalls(cs)) = OpenCalls(cs) \ {c}
    BY <1>1, EndFrame DEF Fits, Passed
  <2>3. /\ Append(frames, EndOf(cs, c)) \in Seq(Frames)
        /\ Brackets(Append(frames, EndOf(cs, c)), from, Passed(EndOf(cs, c), OpenCalls(cs)))
    BY <1>1, <2>2, EndFrame, OpenIds, FrameBrackets
  <2>4. Closed(cs, c) \in Buffers /\ OpenCalls(Closed(cs, c)) = OpenCalls(cs) \ {c}
    BY <1>1, ClosedCloses
  <2>5. QED
    BY <2>1, <2>2, <2>3, <2>4 DEF Mapped
<1>3. CASE ~Parses(cs[c].args)
  BY <1>3 DEF Settle, Mapped
<1>4. QED
  BY <1>2, <1>3

LEMMA SlotIsNat == ASSUME NEW cs PROVE NextSlot(cs) \in Nat
<1> DEFINE S == {i \in 1..MaxUpdates : \E c \in Calls : cs[c].slot >= i}
<1>1. IsFiniteSet(1..MaxUpdates)
  BY HostedAssumption, FS_Interval
<1>2. IsFiniteSet(S)
  BY <1>1, FS_Subset
<1>3. Cardinality(S) \in Nat
  BY <1>2, FS_CardinalityType
<1>4. NextSlot(cs) = Cardinality(S) + 1
  BY DEF NextSlot
<1> HIDE DEF S
<1>5. QED
  BY <1>3, <1>4

LEMMA ReceivedArgs ==
    ASSUME NEW fragment \in Fragments, NEW args \in Seq(Fragments)
    PROVE  Received(fragment) \in Seq(Fragments) /\ args \o Received(fragment) \in Seq(Fragments)
<1>1. Received(fragment) \in Seq(Fragments)
  BY EmptySeq, SMT DEF Received
<1>2. QED
  BY <1>1, ConcatProperties

LEMMA OpeningBrackets ==
    ASSUME NEW cs \in Buffers, NEW c \in Calls \ OpenCalls(cs), NEW fragment \in Fragments,
           NEW before \in Seq(Frames), NEW from \in SUBSET Ids, Brackets(before, from, OpenCalls(cs))
    PROVE  Mapped(Opening(cs, c, fragment, before), from)
<1> DEFINE new == [phase |-> "open", args |-> Received(fragment), slot |-> NextSlot(cs)]
           opened == [cs EXCEPT ![c] = new]
           start == Frame("START", c, "none")
           frames == Append(before, start)
           delta == Frame("DELTA", c, "none")
           sent == IF fragment = "none" \/ Parses(<<fragment>>) THEN frames ELSE Append(frames, delta)
<1>1. new \in BufferedCall /\ new.phase = "open"
  BY ReceivedArgs, SlotIsNat, EmptySeq DEF BufferedCall
<1>2. Opening(cs, c, fragment, before) = Settle(opened, c, sent)
  BY DEF Opening
<1>3. start \in Frames /\ start.type = "START" /\ start.id = c
  BY CallFrame, CallIds DEF CallFrames
<1>4. delta \in Frames /\ delta.type = "DELTA" /\ delta.id = c
  BY CallFrame, CallIds DEF CallFrames
<1> HIDE DEF new
<1>5. opened \in Buffers /\ OpenCalls(opened) = OpenCalls(cs) \cup {c}
  BY <1>1 DEF Buffers, OpenCalls
<1> HIDE DEF opened, start, delta
<1>6. Fits(start, OpenCalls(cs)) /\ Passed(start, OpenCalls(cs)) = OpenCalls(opened)
  BY <1>3, <1>5 DEF Fits, Passed
<1>7. frames \in Seq(Frames) /\ Brackets(frames, from, OpenCalls(opened))
  BY <1>3, <1>6, OpenIds, FrameBrackets
<1>8. c \in OpenCalls(opened)
  BY <1>5
<1>9. Fits(delta, OpenCalls(opened)) /\ Passed(delta, OpenCalls(opened)) = OpenCalls(opened)
  BY <1>4, <1>8 DEF Fits, Passed
<1> HIDE DEF frames
<1>10. Append(frames, delta) \in Seq(Frames) /\ Brackets(Append(frames, delta), from, OpenCalls(opened))
  BY <1>4, <1>7, <1>9, OpenIds, FrameBrackets
<1>11. sent \in Seq(Frames) /\ Brackets(sent, from, OpenCalls(opened))
  BY <1>7, <1>10
<1> HIDE DEF sent
<1>12. QED
  BY <1>2, <1>5, <1>8, <1>11, SettleBrackets

LEMMA ContinuingBrackets ==
    ASSUME NEW cs \in Buffers, NEW c \in OpenCalls(cs), NEW fragment \in Fragments
    PROVE  Mapped(Continuing(cs, c, fragment), OpenCalls(cs))
<1> DEFINE longer == [cs EXCEPT ![c].args = @ \o Received(fragment)]
           delta == Frame("DELTA", c, "none")
           sent == IF fragment = "none" THEN <<>> ELSE <<delta>>
<1>1. c \in Calls /\ cs[c] \in BufferedCall /\ cs[c].phase = "open"
  BY DEF OpenCalls, Buffers
<1>2. Continuing(cs, c, fragment) = Settle(longer, c, sent)
  BY DEF Continuing
<1>3. delta \in Frames /\ delta.type = "DELTA" /\ delta.id = c
  BY <1>1, CallFrame, CallIds DEF CallFrames
<1>4. longer \in Buffers /\ OpenCalls(longer) = OpenCalls(cs)
  <2> DEFINE next == [cs[c] EXCEPT !.args = cs[c].args \o Received(fragment)]
  <2>1. cs[c].args \o Received(fragment) \in Seq(Fragments)
    BY <1>1, ReceivedArgs DEF BufferedCall
  <2>2. next \in BufferedCall /\ next.phase = "open"
    BY <1>1, <2>1 DEF BufferedCall
  <2>3. longer = [cs EXCEPT ![c] = next]
    BY <1>1 DEF Buffers
  <2> HIDE DEF next, longer
  <2>4. QED
    BY <1>1, <2>2, <2>3 DEF Buffers, OpenCalls
<1> HIDE DEF longer, delta
<1>5. Brackets(<<>>, OpenCalls(cs), OpenCalls(cs)) /\ <<>> \in Seq(Frames)
  BY NoBrackets, OpenIds, EmptySeq
<1>6. Fits(delta, OpenCalls(cs)) /\ Passed(delta, OpenCalls(cs)) = OpenCalls(cs)
  BY <1>3 DEF Fits, Passed
<1>7. Append(<<>>, delta) \in Seq(Frames) /\ Brackets(Append(<<>>, delta), OpenCalls(cs), OpenCalls(cs))
  BY <1>3, <1>5, <1>6, OpenIds, FrameBrackets
<1>8. Append(<<>>, delta) = <<delta>>
  OBVIOUS
<1>9. sent \in Seq(Frames) /\ Brackets(sent, OpenCalls(cs), OpenCalls(cs))
  BY <1>5, <1>7, <1>8
<1> HIDE DEF sent
<1>10. QED
  BY <1>2, <1>4, <1>9, OpenIds, SettleBrackets

LEMMA IngestBrackets ==
    ASSUME NEW cs \in Buffers, NEW id \in Calls \cup {NoCall}, NEW fragment \in Fragments
    PROVE  Mapped(IngestFunctionCall(cs, id, fragment), OpenCalls(cs))
<1> DEFINE trailing == TrailingOpen(cs)
           targets == IF id = NoCall THEN trailing ELSE {id}
           c == CHOOSE x \in targets : TRUE
<1>1. trailing \subseteq OpenCalls(cs) /\ OpenCalls(cs) \subseteq Calls
  BY DEF TrailingOpen, OpenCalls
<1>2. OpenCalls(cs) \in SUBSET Ids /\ Brackets(<<>>, OpenCalls(cs), OpenCalls(cs)) /\ <<>> \in Seq(Frames)
  BY NoBrackets, OpenIds, EmptySeq
<1>3. CASE targets = {}
  <2>1. IngestFunctionCall(cs, id, fragment) = [calls |-> cs, frames |-> <<>>]
    BY <1>3 DEF IngestFunctionCall
  <2>2. QED
    BY <1>2, <2>1 DEF Mapped
<1>4. CASE targets # {}
  <2>1. c \in targets
    BY <1>4
  <2>2. c \in Calls /\ (id = NoCall => c \in OpenCalls(cs))
    BY <2>1, <1>1, HostedAssumption
  <2>3. cs[c].phase \in {"absent", "open", "closed"}
    BY <2>2 DEF Buffers, BufferedCall
  <2>4. IngestFunctionCall(cs, id, fragment) =
          CASE cs[c].phase = "open" -> Continuing(cs, c, fragment)
            [] cs[c].phase = "closed" -> Opening(cs, c, fragment, <<>>)
            [] cs[c].phase = "absent" /\ trailing = {} -> Opening(cs, c, fragment, <<>>)
            [] OTHER -> LET last == CHOOSE x \in trailing : TRUE
                        IN Opening(Closed(cs, last), c, fragment, <<EndOf(cs, last)>>)
    BY <1>4 DEF IngestFunctionCall
  <2>5. c \in OpenCalls(cs) <=> cs[c].phase = "open"
    BY <2>2 DEF OpenCalls
  <2> HIDE DEF c, targets
  <2>6. CASE cs[c].phase = "open"
    BY <2>4, <2>5, <2>6, ContinuingBrackets
  <2>7. CASE cs[c].phase = "closed" \/ (cs[c].phase = "absent" /\ trailing = {})
    BY <1>2, <2>2, <2>4, <2>5, <2>7, OpeningBrackets
  <2>8. CASE cs[c].phase = "absent" /\ trailing # {}
    <3> DEFINE last == CHOOSE x \in trailing : TRUE
    <3>1. last \in OpenCalls(cs) /\ last \in Calls
      BY <1>1, <2>8
    <3>2. IngestFunctionCall(cs, id, fragment)
            = Opening(Closed(cs, last), c, fragment, <<EndOf(cs, last)>>)
      BY <2>4, <2>8
    <3> HIDE DEF last
    <3>3. EndOf(cs, last) \in Frames /\ EndOf(cs, last).type = "END" /\ EndOf(cs, last).id = last
      BY <3>1, EndFrame
    <3>4. Fits(EndOf(cs, last), OpenCalls(cs))
          /\ Passed(EndOf(cs, last), OpenCalls(cs)) = OpenCalls(cs) \ {last}
      BY <3>1, <3>3 DEF Fits, Passed
    <3>5. /\ Append(<<>>, EndOf(cs, last)) \in Seq(Frames)
          /\ Brackets(Append(<<>>, EndOf(cs, last)), OpenCalls(cs), OpenCalls(cs) \ {last})
      BY <1>2, <3>3, <3>4, FrameBrackets
    <3>6. Append(<<>>, EndOf(cs, last)) = <<EndOf(cs, last)>>
      OBVIOUS
    <3>7. Closed(cs, last) \in Buffers /\ OpenCalls(Closed(cs, last)) = OpenCalls(cs) \ {last}
      BY <3>1, ClosedCloses
    <3>8. c \in Calls \ OpenCalls(Closed(cs, last))
      BY <2>2, <2>5, <2>8, <3>7
    <3>9. <<EndOf(cs, last)>> \in Seq(Frames)
          /\ Brackets(<<EndOf(cs, last)>>, OpenCalls(cs), OpenCalls(Closed(cs, last)))
      BY <3>5, <3>6, <3>7
    <3>10. Mapped(Opening(Closed(cs, last), c, fragment, <<EndOf(cs, last)>>), OpenCalls(cs))
      BY <1>2, <3>7, <3>8, <3>9, OpeningBrackets
    <3>11. QED
      BY <3>2, <3>10
  <2>9. QED
    BY <2>3, <2>6, <2>7, <2>8
<1>5. QED
  BY <1>3, <1>4

\* A frame that opens and closes nothing.
LEMMA PlainBrackets ==
    ASSUME NEW f \in Frames, f.type \in {"TOKEN", "RESULT"}, NEW from \in SUBSET Ids
    PROVE  <<f>> \in Seq(Frames) /\ Brackets(<<f>>, from, from)
<1>1. Fits(f, from) /\ Passed(f, from) = from
  BY DEF Fits, Passed
<1>2. Brackets(<<>>, from, from) /\ <<>> \in Seq(Frames)
  BY NoBrackets, EmptySeq
<1>3. Append(<<>>, f) \in Seq(Frames) /\ Brackets(Append(<<>>, f), from, from)
  BY <1>1, <1>2, FrameBrackets
<1>4. Append(<<>>, f) = <<f>>
  OBVIOUS
<1>5. QED
  BY <1>3, <1>4

LEMMA ServerBrackets ==
    ASSUME NEW from \in SUBSET Ids, ServerCall \notin from
    PROVE  LET frames == <<Frame("START", ServerCall, "none"), Frame("END", ServerCall, "given"),
                           Frame("RESULT", ServerCall, "none")>>
           IN  frames \in Seq(Frames) /\ Brackets(frames, from, from)
<1> DEFINE f1 == Frame("START", ServerCall, "none")
           f2 == Frame("END", ServerCall, "given")
           f3 == Frame("RESULT", ServerCall, "none")
<1>1. /\ f1 \in Frames /\ f1.type = "START" /\ f1.id = ServerCall
      /\ f2 \in Frames /\ f2.type = "END" /\ f2.id = ServerCall
      /\ f3 \in Frames /\ f3.type = "RESULT"
  BY CallFrame, CallIds DEF CallFrames
<1> HIDE DEF f1, f2, f3
<1>2. Fits(f1, from) /\ Passed(f1, from) = from \cup {ServerCall} /\ from \cup {ServerCall} \in SUBSET Ids
  BY <1>1, CallIds DEF Fits, Passed
<1>3. Fits(f2, from \cup {ServerCall}) /\ Passed(f2, from \cup {ServerCall}) = from
  BY <1>1 DEF Fits, Passed
<1>4. Fits(f3, from) /\ Passed(f3, from) = from
  BY <1>1 DEF Fits, Passed
<1>5. <<>> \in Seq(Frames) /\ Brackets(<<>>, from, from)
  BY NoBrackets, EmptySeq
<1>6. Append(<<>>, f1) \in Seq(Frames) /\ Brackets(Append(<<>>, f1), from, from \cup {ServerCall})
  BY <1>1, <1>2, <1>5, FrameBrackets
<1>7. /\ Append(Append(<<>>, f1), f2) \in Seq(Frames)
      /\ Brackets(Append(Append(<<>>, f1), f2), from, from)
  BY <1>1, <1>2, <1>3, <1>6, FrameBrackets
<1>8. /\ Append(Append(Append(<<>>, f1), f2), f3) \in Seq(Frames)
      /\ Brackets(Append(Append(Append(<<>>, f1), f2), f3), from, from)
  BY <1>1, <1>4, <1>7, FrameBrackets
<1>9. Append(Append(Append(<<>>, f1), f2), f3) = <<f1, f2, f3>>
  <2>1. Append(<<>>, f1) = <<f1>>
    OBVIOUS
  <2>2. Append(<<f1>>, f2) = <<f1, f2>>
    <3>1. <<f1>> \in Seq(Frames) /\ <<f1, f2>> \in Seq(Frames) /\ Len(<<f1>>) = 1
      BY <1>1
    <3>2. Append(<<f1>>, f2) \in Seq(Frames) /\ Len(Append(<<f1>>, f2)) = 2
          /\ Append(<<f1>>, f2)[1] = f1 /\ Append(<<f1>>, f2)[2] = f2
      BY <1>1, <3>1, AppendProperties
    <3>3. \A i \in 1..2 : Append(<<f1>>, f2)[i] = <<f1, f2>>[i]
      BY <3>2
    <3>4. QED
      BY <3>1, <3>2, <3>3, SeqEqual
  <2>3. Append(<<f1, f2>>, f3) = <<f1, f2, f3>>
    <3>1. <<f1, f2>> \in Seq(Frames) /\ <<f1, f2, f3>> \in Seq(Frames) /\ Len(<<f1, f2>>) = 2
      BY <1>1
    <3>2. Append(<<f1, f2>>, f3) \in Seq(Frames) /\ Len(Append(<<f1, f2>>, f3)) = 3
          /\ Append(<<f1, f2>>, f3)[1] = f1 /\ Append(<<f1, f2>>, f3)[2] = f2
          /\ Append(<<f1, f2>>, f3)[3] = f3
      BY <1>1, <3>1, AppendProperties
    <3>3. \A i \in 1..3 : Append(<<f1, f2>>, f3)[i] = <<f1, f2, f3>>[i]
      BY <3>2
    <3>4. QED
      BY <3>1, <3>2, <3>3, SeqEqual
  <2>4. QED
    BY <2>1, <2>2, <2>3
<1>10. <<f1, f2, f3>> \in Seq(Frames) /\ Brackets(<<f1, f2, f3>>, from, from)
  BY <1>8, <1>9
<1>11. QED
  BY <1>10 DEF f1, f2, f3

LEMMA UpdateBrackets ==
    ASSUME NEW cs \in Buffers, NEW u \in Updates
    PROVE  Mapped(MapUpdate(cs, u), OpenCalls(cs))
<1>0. OpenCalls(cs) \in SUBSET Ids /\ ServerCall \notin OpenCalls(cs)
  BY CallIds, OpenIds DEF OpenCalls
<1>1. CASE u.kind = "text"
  <2>1. MapUpdate(cs, u) = [calls |-> cs, frames |-> <<Plain("TOKEN")>>]
    BY <1>1 DEF MapUpdate
  <2>2. Plain("TOKEN") \in Frames /\ Plain("TOKEN").type = "TOKEN"
    BY TokenFrame
  <2>3. <<Plain("TOKEN")>> \in Seq(Frames) /\ Brackets(<<Plain("TOKEN")>>, OpenCalls(cs), OpenCalls(cs))
    BY <1>0, <2>2, PlainBrackets
  <2>4. QED
    BY <2>1, <2>3 DEF Mapped
<1>2. CASE u.kind = "function_call"
  <2>1. u.id \in Calls \cup {NoCall} /\ u.fragment \in Fragments
    BY <1>2 DEF Updates
  <2>2. MapUpdate(cs, u) = IngestFunctionCall(cs, u.id, u.fragment)
    BY <1>2 DEF MapUpdate
  <2>3. QED
    BY <2>1, <2>2, IngestBrackets
<1>3. CASE u.kind = "function_result"
  <2>1. u.id \in Calls
    BY <1>3 DEF Updates
  <2>2. MapUpdate(cs, u) = [calls |-> cs, frames |-> <<Frame("RESULT", u.id, "none")>>]
    BY <1>3 DEF MapUpdate
  <2>3. Frame("RESULT", u.id, "none") \in Frames /\ Frame("RESULT", u.id, "none").type = "RESULT"
    BY <2>1, CallIds, CallFrame DEF CallFrames
  <2>4. /\ <<Frame("RESULT", u.id, "none")>> \in Seq(Frames)
        /\ Brackets(<<Frame("RESULT", u.id, "none")>>, OpenCalls(cs), OpenCalls(cs))
    BY <1>0, <2>3, PlainBrackets
  <2>5. QED
    BY <2>2, <2>4 DEF Mapped
<1>4. CASE u.kind = "server"
  <2>1. MapUpdate(cs, u) =
          [calls |-> cs, frames |-> <<Frame("START", ServerCall, "none"),
             Frame("END", ServerCall, "given"), Frame("RESULT", ServerCall, "none")>>]
    BY <1>4 DEF MapUpdate
  <2>2. QED
    BY <1>0, <2>1, ServerBrackets DEF Mapped
<1>5. u.kind \in {"text", "function_call", "function_result", "server"}
  BY DEF Updates
<1>6. QED
  BY <1>1, <1>2, <1>3, <1>4, <1>5

\* The open calls' END frames, in whatever order, close them all.
LEMMA FlushBrackets ==
    ASSUME NEW cs \in Buffers, NEW ends \in FlushOpenCalls(cs)
    PROVE  ends \in Seq(Frames) /\ Brackets(ends, OpenCalls(cs), {})
<1> DEFINE O == OpenCalls(cs)  n == Cardinality(O)
<1>1. O \subseteq Calls /\ IsFiniteSet(O) /\ n \in Nat
  BY CallIds, FS_Subset, FS_CardinalityType DEF OpenCalls
<1>2. /\ ends \in [1..n -> {EndOf(cs, c) : c \in O}]
      /\ \A c \in O : \E i \in 1..n : ends[i] = EndOf(cs, c)
  BY DEF FlushOpenCalls
<1> HIDE DEF O, n
<1>3. \A i \in 1..n : ends[i] \in Frames /\ ends[i].type = "END" /\ ends[i].id \in O
  BY <1>1, <1>2, EndFrame
<1>4. \A c \in O : \E i \in 1..n : ends[i].id = c
  BY <1>1, <1>2, EndFrame
<1>5. ends \in Seq(Frames) /\ Len(ends) = n
  BY <1>1, <1>2, <1>3
<1> DEFINE named == [i \in 1..n |-> ends[i].id]
<1>6. named \in [1..n -> O] /\ \A i \in 1..n : named[i] = ends[i].id
  BY <1>3
<1> HIDE DEF named
<1>7. named \in Surjection(1..n, O)
  BY <1>4, <1>6 DEF Surjection
<1>8. IsFiniteSet(1..n) /\ Cardinality(1..n) = n
  BY <1>1, FS_Interval
<1>9. n = Cardinality(O)
  BY DEF O, n
<1>10. named \in Injection(1..n, O)
  BY <1>7, <1>8, <1>9, FS_SurjSameCardinalityImpliesInj
<1>11. \A i, j \in 1..n : ends[i].id = ends[j].id => i = j
  BY <1>6, <1>10 DEF Injection, IsInjective
<1> DEFINE opened == [i \in 1..(n + 1) |-> {c \in O : \E j \in i..n : ends[j].id = c}]
<1>12. /\ opened \in [1..(n + 1) -> SUBSET Ids]
       /\ \A i \in 1..(n + 1) : opened[i] = {c \in O : \E j \in i..n : ends[j].id = c}
  BY <1>1, CallIds
<1> HIDE DEF opened
<1>13. opened[1] = O /\ opened[n + 1] = {}
  <2>1. 1 \in 1..(n + 1) /\ n + 1 \in 1..(n + 1) /\ (n + 1)..n = {}
    BY <1>1
  <2>2. opened[n + 1] = {}
    BY <1>12, <2>1
  <2>3. opened[1] = {c \in O : \E j \in 1..n : ends[j].id = c}
    BY <1>12, <2>1
  <2>4. QED
    BY <1>4, <2>2, <2>3
<1>14. ASSUME NEW i \in 1..n
       PROVE  Fits(ends[i], opened[i]) /\ opened[i + 1] = Passed(ends[i], opened[i])
  <2>1. /\ i \in 1..(n + 1) /\ i + 1 \in 1..(n + 1) /\ i \in i..n
        /\ \A j \in i..n : j # i => j \in (i + 1)..n
        /\ \A j \in (i + 1)..n : j \in i..n /\ j # i /\ j \in 1..n
    BY <1>1
  <2>2. ends[i].id \in opened[i]
    BY <1>3, <1>12, <2>1
  <2>3. opened[i + 1] = opened[i] \ {ends[i].id}
    <3>1. ASSUME NEW c \in opened[i + 1] PROVE c \in opened[i] \ {ends[i].id}
      BY <1>11, <1>12, <2>1, <3>1
    <3>2. ASSUME NEW c \in opened[i], c # ends[i].id PROVE c \in opened[i + 1]
      BY <1>12, <2>1, <3>2
    <3>3. QED
      BY <3>1, <3>2
  <2>4. QED
    BY <1>3, <2>2, <2>3 DEF Fits, Passed
<1>15. Follows(opened, ends, O, {})
  BY <1>5, <1>13, <1>14 DEF Follows
<1>16. QED
  BY <1>5, <1>12, <1>15 DEF Brackets, O

(***************************************************************************)
(* The inductive invariant                                                 *)
(***************************************************************************)
Nothing == Plain("none")
Listening == {"new", "waiting", "flushing"}
Quiet(f) == f.type \notin {"TOKEN", "START", "END"}
TokensOf(f) == IF f.type = "TOKEN" THEN 1 ELSE 0

\* The client's tokens and calls, once it has got the frames in hand.
Total == shown.tokens + TokensOf(wframe) + TokensOf(kframe)
Seen == Accumulated(kframe, Accumulated(wframe, shown.calls))

HostedTyped ==
  /\ calls \in Buffers /\ outbox \in Seq(Frames) /\ content \in Nat /\ tools \in Tools
  /\ chat \in {"new", "waiting", "flushing", "done", "ended", "cut"}
  /\ message \in [status : {"none", "streaming", "complete", "error"}, content : Nat, tools : Tools]
  /\ kframe \in AllFrames /\ wframe \in AllFrames
  /\ shown \in [tokens : Nat, calls : Tools, terminals : SUBSET Terminals]

FramesAreInHand == /\ kframe # Nothing => ktask = "ready"
                   /\ wframe # Nothing => wtask = "ready"
                   /\ watcher = "yielded" => wtask = "none"

\* While chat runs, it has accumulated what it has yielded.
AccumulatesYielded ==
  /\ chat \in Listening => content = Total /\ tools = Seen
  /\ chat = "new" => /\ shown.tokens = 0 /\ shown.calls = NoTools /\ Quiet(wframe) /\ Quiet(kframe)
                     /\ outbox = <<>> /\ calls = NoCalls

\* DONE is the last frame that counts, and what is stored is what came before.
DoneWith(client, f, g) == "DONE" \in client.terminals \/ f.type = "DONE" \/ g.type = "DONE"
DoneIsLast ==
  /\ DoneWith(shown, wframe, kframe) =>
       /\ chat \notin Listening /\ message.status = "complete"
       /\ message.content = Total /\ message.tools = Seen
  /\ DoneWith(shown, wframe, Nothing) => Quiet(kframe)
  /\ DoneWith(shown, Nothing, Nothing) => Quiet(wframe)

BracketsFollow ==
  /\ Fits(wframe, OpenIn(shown.calls))
  /\ Fits(kframe, OpenIn(Accumulated(wframe, shown.calls)))
  /\ chat \in Listening => Brackets(outbox, OpenIn(tools), OpenCalls(calls))
  /\ chat = "flushing" => OpenCalls(calls) = {}

HostedIInv == HostedTyped /\ FramesAreInHand /\ AccumulatesYielded /\ DoneIsLast /\ BracketsFollow

LEMMA NothingPasses ==
    /\ Nothing \in AllFrames /\ Nothing.type = "none"
    /\ \A ts : Accumulated(Nothing, ts) = ts
    /\ \A opened : Fits(Nothing, opened)
    /\ TokensOf(Nothing) = 0 /\ Quiet(Nothing)
<1>1. Nothing \in AllFrames /\ Nothing.type = "none"
  BY PlainFrames DEF Nothing, LayerFrames
<1>2. QED
  BY <1>1 DEF Accumulated, Fits, TokensOf, Quiet

LEMMA QuietPasses ==
    ASSUME NEW f, Quiet(f), NEW ts
    PROVE  Accumulated(f, ts) = ts /\ TokensOf(f) = 0
BY DEF Quiet, Accumulated, TokensOf

LEMMA NothingSoFar ==
    NoTools \in Tools /\ NoCalls \in Buffers /\ OpenIn(NoTools) = {} /\ OpenCalls(NoCalls) = {}
BY EmptySeq DEF NoTools, Tools, NoCalls, Buffers, BufferedCall, OpenIn, OpenCalls

LEMMA HostedInitIInv == HostedInit => HostedIInv
<1> SUFFICES ASSUME HostedInit PROVE HostedIInv
  OBVIOUS
<1> USE DEF HostedInit
<1>1. /\ kframe = Nothing /\ wframe = Nothing /\ shown.calls = NoTools /\ shown.tokens = 0
      /\ shown.terminals = {} /\ shown \in [tokens : Nat, calls : Tools, terminals : SUBSET Terminals]
  BY NothingSoFar DEF Nothing, NoTools
<1>2. HostedTyped
  BY <1>1, NothingPasses, NothingSoFar, EmptySeq DEF HostedTyped
<1>3. FramesAreInHand
  BY <1>1 DEF FramesAreInHand
<1>4. AccumulatesYielded
  BY <1>1, NothingPasses DEF AccumulatesYielded, Total, Seen, Listening
<1>5. DoneIsLast
  BY <1>1, NothingPasses DEF DoneIsLast, DoneWith
<1>6. BracketsFollow
  BY <1>1, NothingPasses, NothingSoFar, NoBrackets DEF BracketsFollow
<1>7. QED
  BY <1>2, <1>3, <1>4, <1>5, <1>6 DEF HostedIInv

(***************************************************************************)
(* Steps of chat that yield no frame                                       *)
(***************************************************************************)
LEMMA ChatHasNoFrame ==
    ASSUME HostedIInv, ChatRuns
    PROVE  /\ kframe = Nothing /\ UNCHANGED <<wframe, shown, wtask, keeper, delegations, watcher>>
           /\ (chat \in Listening => /\ content = shown.tokens + TokensOf(wframe)
                                     /\ tools = Accumulated(wframe, shown.calls))
<1>1. kframe = Nothing
  BY DEF HostedIInv, FramesAreInHand, ChatRuns
<1>2. chat \in Listening => content = Total /\ tools = Seen
  BY DEF HostedIInv, AccumulatesYielded
<1>3. shown.tokens \in Nat /\ TokensOf(wframe) \in Nat
  BY DEF HostedIInv, HostedTyped, TokensOf
<1>4. QED
  BY <1>1, <1>2, <1>3, NothingPasses DEF Total, Seen, ChatRuns, watchState

\* The frames stay where they are, and DONE is not among them.
LEMMA ChatGoesOn ==
    ASSUME HostedIInv, ChatRuns, chat \in Listening, chat' \in {"waiting", "flushing"},
           UNCHANGED <<content, tools, kframe, ktask>>,
           calls' \in Buffers, outbox' \in Seq(Frames),
           message' \in [status : {"none", "streaming", "complete", "error"}, content : Nat, tools : Tools],
           Brackets(outbox', OpenIn(tools), OpenCalls(calls')),
           chat' = "flushing" => OpenCalls(calls') = {}
    PROVE  HostedIInv'
<1>1. /\ UNCHANGED <<wframe, shown, wtask, watcher, kframe, ktask, content, tools>> /\ kframe = Nothing
      /\ chat' \in Listening /\ chat' # "new"
  BY ChatHasNoFrame DEF Listening
<1>2. HostedTyped' /\ FramesAreInHand'
  BY <1>1 DEF HostedIInv, HostedTyped, FramesAreInHand
<1>3. AccumulatesYielded'
  BY <1>1 DEF HostedIInv, AccumulatesYielded, Total, Seen
<1>4. ~DoneWith(shown, wframe, kframe)
  BY DEF HostedIInv, DoneIsLast
<1>5. ~DoneWith(shown, wframe, Nothing) /\ ~DoneWith(shown, Nothing, Nothing)
  BY <1>1, <1>4, NothingPasses DEF DoneWith
<1>6. DoneIsLast'
  BY <1>1, <1>4, <1>5 DEF DoneIsLast, DoneWith
<1>7. BracketsFollow'
  BY <1>1 DEF HostedIInv, BracketsFollow
<1>8. QED
  BY <1>2, <1>3, <1>6, <1>7 DEF HostedIInv

LEMMA ChatStartsIInv == ASSUME HostedIInv, ChatStarts PROVE HostedIInv'
<1>1. /\ ChatRuns /\ chat \in Listening /\ chat' = "waiting" /\ chat = "new"
      /\ UNCHANGED <<content, tools, kframe, ktask, calls, outbox>>
      /\ message' = [message EXCEPT !.status = "streaming"]
  BY DEF ChatStarts, append_message, Listening
<1>2. calls \in Buffers /\ outbox \in Seq(Frames) /\ Brackets(outbox, OpenIn(tools), OpenCalls(calls))
  BY <1>1 DEF HostedIInv, HostedTyped, BracketsFollow
<1>3. message' \in [status : {"none", "streaming", "complete", "error"}, content : Nat, tools : Tools]
  BY <1>1 DEF HostedIInv, HostedTyped
<1>4. QED
  BY <1>1, <1>2, <1>3, ChatGoesOn

LEMMA AgentUpdatesIInv ==
    ASSUME HostedIInv, NEW u \in Updates, AgentUpdates(u) PROVE HostedIInv'
<1>1. /\ ChatRuns /\ chat = "waiting" /\ outbox = <<>> /\ chat' = "waiting" /\ chat \in Listening
      /\ UNCHANGED <<content, tools, kframe, ktask, message>>
      /\ calls' = MapUpdate(calls, u).calls /\ outbox' = MapUpdate(calls, u).frames
  BY DEF AgentUpdates, Listening
<1>2. /\ calls \in Buffers
      /\ message' \in [status : {"none", "streaming", "complete", "error"}, content : Nat, tools : Tools]
  BY <1>1 DEF HostedIInv, HostedTyped
<1>3. OpenIn(tools) = OpenCalls(calls)
  BY <1>1, NothingOpened DEF HostedIInv, BracketsFollow
<1>4. Mapped(MapUpdate(calls, u), OpenCalls(calls))
  BY <1>2, UpdateBrackets
<1>5. calls' \in Buffers /\ outbox' \in Seq(Frames) /\ Brackets(outbox', OpenIn(tools), OpenCalls(calls'))
  BY <1>1, <1>3, <1>4 DEF Mapped
<1>6. QED
  BY <1>1, <1>2, <1>5, ChatGoesOn

LEMMA AgentStopsIInv == ASSUME HostedIInv, AgentStops PROVE HostedIInv'
<1>1. /\ ChatRuns /\ chat = "waiting" /\ outbox = <<>> /\ chat' = "flushing" /\ chat \in Listening
      /\ UNCHANGED <<content, tools, kframe, ktask, message>>
      /\ outbox' \in FlushOpenCalls(calls)
      /\ calls' = [c \in Calls |-> IF calls[c].phase = "open" THEN [calls[c] EXCEPT !.phase = "closed"]
                                   ELSE calls[c]]
  BY DEF AgentStops, Listening
<1>2. /\ calls \in Buffers
      /\ message' \in [status : {"none", "streaming", "complete", "error"}, content : Nat, tools : Tools]
  BY <1>1 DEF HostedIInv, HostedTyped
<1>3. OpenIn(tools) = OpenCalls(calls)
  BY <1>1, NothingOpened DEF HostedIInv, BracketsFollow
<1>4. calls' \in Buffers /\ OpenCalls(calls') = {}
  <2>1. \A c \in Calls : calls'[c] \in BufferedCall /\ calls'[c].phase # "open"
    BY <1>1, <1>2 DEF Buffers, BufferedCall
  <2>2. QED
    BY <1>1, <2>1 DEF Buffers, OpenCalls
<1>5. outbox' \in Seq(Frames) /\ Brackets(outbox', OpenIn(tools), OpenCalls(calls'))
  BY <1>1, <1>2, <1>3, <1>4, FlushBrackets
<1>6. QED
  BY <1>1, <1>2, <1>4, <1>5, ChatGoesOn

\* Chat is over and forgets: what it has stored stays.
LEMMA ChatEnds ==
    ASSUME HostedIInv, Forgets, UNCHANGED <<message, wframe, wtask, watcher, shown, kframe>>,
           chat' \in {"ended", "cut"}, kframe = Nothing
    PROVE  HostedIInv'
<1>1. calls' \in Buffers /\ outbox' \in Seq(Frames) /\ content' \in Nat /\ tools' \in Tools
  BY NothingSoFar, EmptySeq DEF Forgets
<1>2. HostedTyped' /\ FramesAreInHand'
  BY <1>1 DEF HostedIInv, HostedTyped, FramesAreInHand
<1>3. chat' \notin Listening /\ chat' # "flushing" /\ chat' # "new"
  BY DEF Listening
<1>4. AccumulatesYielded'
  BY <1>3 DEF AccumulatesYielded
<1>5. DoneIsLast'
  BY <1>3 DEF HostedIInv, DoneIsLast, DoneWith, Total, Seen
<1>6. BracketsFollow'
  BY <1>3 DEF HostedIInv, BracketsFollow
<1>7. QED
  BY <1>2, <1>4, <1>5, <1>6 DEF HostedIInv

(***************************************************************************)
(* Steps of chat that yield a frame                                        *)
(***************************************************************************)
LEMMA ChatYieldsIInv == ASSUME HostedIInv, ChatYields PROVE HostedIInv'
<1> DEFINE f == Head(outbox)
<1>1. /\ ChatRuns /\ chat \in Listening /\ outbox # <<>> /\ chat \in {"waiting", "flushing"}
      /\ content' = IF f.type = "TOKEN" THEN content + 1 ELSE content
      /\ tools' = Accumulated(f, tools) /\ ktask' = "ready" /\ kframe' = f
      /\ outbox' = Tail(outbox) /\ UNCHANGED <<calls, chat, message>>
  BY DEF ChatYields, Yields, Listening
<1>2. /\ kframe = Nothing /\ UNCHANGED <<wframe, shown, wtask, watcher>>
      /\ content = shown.tokens + TokensOf(wframe) /\ tools = Accumulated(wframe, shown.calls)
  BY <1>1, ChatHasNoFrame
<1>3. tools \in Tools /\ outbox \in Seq(Frames) /\ OpenIn(tools) \in SUBSET Ids
      /\ OpenCalls(calls) \in SUBSET Ids /\ Brackets(outbox, OpenIn(tools), OpenCalls(calls))
  BY <1>1, OpenIds DEF HostedIInv, HostedTyped, BracketsFollow, OpenIn
<1>4. /\ f \in Frames /\ f \in AllFrames /\ outbox' \in Seq(Frames) /\ Fits(f, OpenIn(tools))
      /\ Brackets(outbox', Passed(f, OpenIn(tools)), OpenCalls(calls))
  BY <1>1, <1>3, HeadPasses DEF AllFrames
<1>5. tools' \in Tools /\ OpenIn(tools') = Passed(f, OpenIn(tools))
  BY <1>1, <1>3, <1>4, AccumulatedOpens
<1>6. content \in Nat /\ shown.tokens \in Nat /\ TokensOf(wframe) \in Nat
  BY DEF HostedIInv, HostedTyped, TokensOf
<1>7. content' = content + TokensOf(f) /\ content' \in Nat
  BY <1>1, <1>6 DEF TokensOf
<1>8. HostedTyped' /\ FramesAreInHand'
  BY <1>1, <1>2, <1>4, <1>5, <1>7 DEF HostedIInv, HostedTyped, FramesAreInHand
<1> HIDE DEF f
<1>9. AccumulatesYielded'
  <2>1. content' = Total' /\ tools' = Seen'
    BY <1>1, <1>2, <1>6, <1>7 DEF Total, Seen
  <2>2. QED
    BY <1>1, <2>1 DEF AccumulatesYielded
<1>10. DoneIsLast'
  <2>1. ~DoneWith(shown, wframe, kframe)
    BY <1>1 DEF HostedIInv, DoneIsLast
  <2>2. f.type # "DONE"
    BY <1>4 DEF Frames, CallFrames
  <2>3. ~DoneWith(shown', wframe', kframe') /\ ~DoneWith(shown', wframe', Nothing)
        /\ ~DoneWith(shown', Nothing, Nothing)
    BY <1>1, <1>2, <2>1, <2>2, NothingPasses DEF DoneWith
  <2>4. QED
    BY <2>3 DEF DoneIsLast, DoneWith
<1>11. BracketsFollow'
  BY <1>1, <1>2, <1>4, <1>5 DEF HostedIInv, BracketsFollow
<1>12. QED
  BY <1>8, <1>9, <1>10, <1>11 DEF HostedIInv
LEMMA ChatSaysLast ==
    ASSUME HostedIInv, ChatRuns, chat \in Listening, chat' = "done",
           UNCHANGED <<calls, outbox, content, tools>>,
           NEW status \in {"complete", "error"}, NEW type \in {"DONE", "ERROR"},
           Final(status), Yields(Plain(type)),
           type = "DONE" => status = "complete" /\ OpenIn(tools) = {}
    PROVE  HostedIInv'
<1>1. /\ kframe = Nothing /\ UNCHANGED <<wframe, shown, wtask, watcher>>
      /\ content = shown.tokens + TokensOf(wframe) /\ tools = Accumulated(wframe, shown.calls)
  BY ChatHasNoFrame
<1>2. /\ kframe' = Plain(type) /\ kframe' \in AllFrames /\ kframe'.type = type /\ ktask' = "ready"
  BY PlainFrames DEF Yields, LayerFrames
<1>3. /\ message' \in [status : {"none", "streaming", "complete", "error"}, content : Nat, tools : Tools]
      /\ message'.status = status /\ message'.content = content /\ message'.tools = tools
  BY DEF HostedIInv, HostedTyped, Final
<1>4. chat' \notin Listening /\ chat' # "flushing" /\ chat' # "new" /\ Quiet(kframe')
  BY <1>2 DEF Listening, Quiet
<1>5. HostedTyped' /\ FramesAreInHand'
  BY <1>1, <1>2, <1>3 DEF HostedIInv, HostedTyped, FramesAreInHand
<1>6. AccumulatesYielded'
  BY <1>4 DEF AccumulatesYielded
<1>7. Total' = content /\ Seen' = tools
  <2>1. Accumulated(kframe', tools) = tools /\ TokensOf(kframe') = 0
    BY <1>4, QuietPasses
  <2>2. content \in Nat
    BY DEF HostedIInv, HostedTyped
  <2>3. QED
    BY <1>1, <2>1, <2>2 DEF Total, Seen
<1>8. DoneIsLast'
  <2>1. ~DoneWith(shown, wframe, kframe)
    BY DEF HostedIInv, DoneIsLast
  <2>2. DoneWith(shown', wframe', kframe') => type = "DONE"
    BY <1>1, <1>2, <2>1 DEF DoneWith
  <2>3. ~DoneWith(shown', wframe', Nothing) /\ ~DoneWith(shown', Nothing, Nothing)
    BY <1>1, <2>1, NothingPasses DEF DoneWith
  <2>4. QED
    BY <1>3, <1>4, <1>7, <2>2, <2>3 DEF DoneIsLast, DoneWith
<1>9. BracketsFollow'
  BY <1>1, <1>2, <1>4 DEF HostedIInv, BracketsFollow, Fits
<1>10. QED
  BY <1>5, <1>6, <1>8, <1>9 DEF HostedIInv

LEMMA ChatStepsIInv ==
    ASSUME HostedIInv, ChatSteps \/ AgentStops \/ AgentFails PROVE HostedIInv'
<1>1. ASSUME AgentFails PROVE HostedIInv'
  BY <1>1, ChatSaysLast DEF AgentFails, Listening
<1>2. ASSUME ChatFinishes PROVE HostedIInv'
  <2>1. OpenIn(tools) = {} /\ chat \in Listening
    BY <1>2, NothingOpened DEF HostedIInv, BracketsFollow, ChatFinishes, Listening
  <2>2. QED
    BY <1>2, <2>1, ChatSaysLast DEF ChatFinishes
<1>3. ASSUME ChatReturns PROVE HostedIInv'
  <2>1. ChatRuns /\ Forgets /\ UNCHANGED <<message, kframe>> /\ chat' = "ended"
    BY <1>3 DEF ChatReturns
  <2>2. kframe = Nothing /\ UNCHANGED <<wframe, wtask, watcher, shown>>
    BY <2>1, ChatHasNoFrame
  <2>3. QED
    BY <2>1, <2>2, ChatEnds
<1>4. QED
  BY <1>1, <1>2, <1>3, ChatStartsIInv, ChatYieldsIInv, AgentStopsIInv DEF ChatSteps

(***************************************************************************)
(* Steps of the layers above                                               *)
(***************************************************************************)
\* A frame goes up by one layer, or a quiet one comes in from aside.
LEMMA FramesGoUp ==
    ASSUME HostedIInv, UNCHANGED chatState,
           kframe' \in AllFrames, wframe' \in AllFrames, FramesAreInHand',
           shown' \in [tokens : Nat, calls : Tools, terminals : SUBSET Terminals],
           Total' = Total, Seen' = Seen,
           Fits(wframe, OpenIn(shown.calls))',
           Fits(kframe, OpenIn(Accumulated(wframe, shown.calls)))',
           DoneWith(shown, wframe, kframe)' => DoneWith(shown, wframe, kframe),
           DoneWith(shown, wframe, Nothing)' => Quiet(kframe'),
           DoneWith(shown, Nothing, Nothing)' => Quiet(wframe'),
           chat = "new" => /\ Quiet(kframe') /\ Quiet(wframe')
                           /\ shown'.tokens = shown.tokens /\ shown'.calls = shown.calls
    PROVE  HostedIInv'
<1>1. UNCHANGED <<calls, chat, outbox, content, tools, message>>
  BY DEF chatState
<1>2. HostedTyped'
  BY <1>1 DEF HostedIInv, HostedTyped
<1>3. AccumulatesYielded'
  BY <1>1 DEF HostedIInv, AccumulatesYielded
<1>4. DoneIsLast'
  BY <1>1 DEF HostedIInv, DoneIsLast
<1>5. BracketsFollow'
  BY <1>1 DEF HostedIInv, BracketsFollow
<1>6. QED
  BY <1>2, <1>3, <1>4, <1>5 DEF HostedIInv

LEMMA FramesStay ==
    ASSUME HostedIInv, UNCHANGED <<chatState, kframe, wframe, shown>>, FramesAreInHand'
    PROVE  HostedIInv'
BY FramesGoUp DEF HostedIInv, HostedTyped, Total, Seen, BracketsFollow, DoneIsLast, DoneWith,
                  AccumulatesYielded

LEMMA KeeperHasNoFrame ==
    ASSUME HostedIInv, KeeperRuns
    PROVE  /\ wframe = Nothing /\ UNCHANGED <<watcher, shown, envState>> /\ watcher # "yielded"
BY DEF HostedIInv, FramesAreInHand, KeeperRuns

LEMMA KeeperHandsPlain ==
    ASSUME HostedIInv, KeeperRuns, UNCHANGED <<chatState, ktask, kframe>>,
           NEW type \in {"ABORTED", "KEEPALIVE", "DELEGATION"}, Hands(Plain(type))
    PROVE  HostedIInv'
<1>1. /\ wframe = Nothing /\ UNCHANGED <<shown, kframe>> /\ wtask' = "ready" /\ watcher' # "yielded"
      /\ wframe' = Plain(type) /\ wframe' \in AllFrames /\ wframe'.type = type
  BY KeeperHasNoFrame, PlainFrames DEF Hands, LayerFrames
<1>2. Quiet(wframe') /\ wframe'.type # "DONE"
  BY <1>1 DEF Quiet
<1>3. /\ Accumulated(wframe', shown.calls) = shown.calls /\ TokensOf(wframe') = 0
      /\ Accumulated(wframe, shown.calls) = shown.calls /\ TokensOf(wframe) = 0
  BY <1>1, <1>2, QuietPasses, NothingPasses
<1>4. Total' = Total /\ Seen' = Seen
  BY <1>1, <1>3 DEF Total, Seen
<1>5. FramesAreInHand'
  BY <1>1 DEF HostedIInv, FramesAreInHand
<1>6. /\ Fits(wframe, OpenIn(shown.calls))'
      /\ Fits(kframe, OpenIn(Accumulated(wframe, shown.calls)))'
  BY <1>1, <1>3 DEF HostedIInv, BracketsFollow, Fits
<1>7. /\ DoneWith(shown, wframe, kframe)' => DoneWith(shown, wframe, kframe)
      /\ DoneWith(shown, wframe, Nothing)' => DoneWith(shown, wframe, Nothing)
      /\ DoneWith(shown, wframe, Nothing)' => Quiet(kframe')
  <2>1. Nothing' = Nothing
    BY DEF Nothing, Plain, Frame
  <2>2. QED
    BY <1>1, <1>2, <2>1 DEF HostedIInv, DoneIsLast, DoneWith
<1>8. chat = "new" => /\ Quiet(kframe') /\ Quiet(wframe')
                      /\ shown'.tokens = shown.tokens /\ shown'.calls = shown.calls
  BY <1>1, <1>2 DEF HostedIInv, AccumulatesYielded
<1>9. /\ kframe' \in AllFrames
      /\ shown' \in [tokens : Nat, calls : Tools, terminals : SUBSET Terminals]
  BY <1>1 DEF HostedIInv, HostedTyped
<1>10. QED
  BY <1>1, <1>2, <1>4, <1>5, <1>6, <1>7, <1>8, <1>9, FramesGoUp

LEMMA KeeperForwardsIInv == ASSUME HostedIInv, KeeperForwards PROVE HostedIInv'
<1>1. /\ wframe = Nothing /\ UNCHANGED <<shown, chatState>> /\ wtask' = "ready" /\ watcher' # "yielded"
      /\ wframe' = kframe /\ kframe' = Nothing
  BY KeeperHasNoFrame DEF KeeperForwards, Hands, Nothing
<1>2. /\ shown \in [tokens : Nat, calls : Tools, terminals : SUBSET Terminals]
      /\ kframe \in AllFrames /\ TokensOf(kframe) \in Nat
  BY DEF HostedIInv, HostedTyped, TokensOf
<1>3. Total' = Total /\ Seen' = Seen
  BY <1>1, <1>2, NothingPasses DEF Total, Seen
<1>4. FramesAreInHand'
  BY <1>1 DEF FramesAreInHand
<1>5. /\ Fits(wframe, OpenIn(shown.calls))'
      /\ Fits(kframe, OpenIn(Accumulated(wframe, shown.calls)))'
  BY <1>1, NothingPasses DEF HostedIInv, BracketsFollow
<1>6. Nothing' = Nothing
  BY DEF Nothing, Plain, Frame
<1>7. /\ DoneWith(shown, wframe, kframe)' => DoneWith(shown, wframe, kframe)
      /\ Quiet(kframe')
      /\ DoneWith(shown, Nothing, Nothing)' => Quiet(wframe')
  BY <1>1, <1>6, NothingPasses DEF HostedIInv, DoneIsLast, DoneWith
<1>8. chat = "new" => /\ Quiet(kframe') /\ Quiet(wframe')
                      /\ shown'.tokens = shown.tokens /\ shown'.calls = shown.calls
  BY <1>1, <1>7 DEF HostedIInv, AccumulatesYielded
<1>9. /\ kframe' \in AllFrames /\ wframe' \in AllFrames
      /\ shown' \in [tokens : Nat, calls : Tools, terminals : SUBSET Terminals]
  BY <1>1, <1>2, NothingPasses
<1>10. QED
  BY <1>1, <1>3, <1>4, <1>5, <1>7, <1>8, <1>9, FramesGoUp

LEMMA WatcherYieldsIInv == ASSUME HostedIInv, WatcherYields PROVE HostedIInv'
<1>1. /\ Shows(wframe) /\ wframe' = Nothing /\ UNCHANGED <<chatState, kframe, ktask>>
      /\ wtask' = "none"
  BY DEF WatcherYields, keepState, Nothing
<1>2. /\ shown \in [tokens : Nat, calls : Tools, terminals : SUBSET Terminals]
      /\ kframe \in AllFrames /\ wframe \in AllFrames
      /\ TokensOf(kframe) \in Nat /\ TokensOf(wframe) \in Nat
  BY DEF HostedIInv, HostedTyped, TokensOf
<1>3. /\ shown'.tokens = shown.tokens + TokensOf(wframe)
      /\ shown'.calls = Accumulated(wframe, shown.calls)
      /\ shown'.terminals = shown.terminals \cup ({wframe.type} \cap Terminals)
  <2>1. shown'.tokens = IF wframe.type = "TOKEN" THEN shown.tokens + 1 ELSE shown.tokens
    BY <1>1 DEF Shows
  <2>2. /\ shown'.calls = Accumulated(wframe, shown.calls)
        /\ shown'.terminals = shown.terminals \cup ({wframe.type} \cap Terminals)
    BY <1>1 DEF Shows, Accumulated
  <2>3. QED
    BY <1>2, <2>1, <2>2 DEF TokensOf
<1>4. shown' \in [tokens : Nat, calls : Tools, terminals : SUBSET Terminals]
  <2>1. shown.calls \in Tools /\ shown.tokens \in Nat /\ shown.terminals \in SUBSET Terminals
    BY <1>2
  <2>2. Accumulated(wframe, shown.calls) \in Tools
    BY <1>2, <2>1, AccumulatedOpens
  <2>3. shown' = [tokens |-> shown'.tokens, calls |-> shown'.calls, terminals |-> shown'.terminals]
    BY <1>1 DEF Shows
  <2>4. shown'.tokens \in Nat /\ shown'.calls \in Tools /\ shown'.terminals \in SUBSET Terminals
    BY <1>2, <1>3, <2>1, <2>2
  <2>5. QED
    BY <2>3, <2>4
<1>5. Total' = Total /\ Seen' = Seen
  <2>1. shown.tokens \in Nat
    BY <1>2
  <2>2. QED
    BY <1>1, <1>2, <1>3, <2>1, NothingPasses DEF Total, Seen
<1>6. FramesAreInHand'
  BY <1>1 DEF HostedIInv, FramesAreInHand
<1>7. /\ Fits(wframe, OpenIn(shown.calls))'
      /\ Fits(kframe, OpenIn(Accumulated(wframe, shown.calls)))'
  BY <1>1, <1>3, NothingPasses DEF HostedIInv, BracketsFollow
<1>8. Nothing' = Nothing
  BY DEF Nothing, Plain, Frame
<1>9. /\ DoneWith(shown, wframe, kframe)' => DoneWith(shown, wframe, kframe)
      /\ DoneWith(shown, wframe, Nothing)' => Quiet(kframe')
      /\ Quiet(wframe')
  BY <1>1, <1>3, <1>8, NothingPasses DEF HostedIInv, DoneIsLast, DoneWith
<1>10. chat = "new" => /\ Quiet(kframe') /\ Quiet(wframe')
                       /\ shown'.tokens = shown.tokens /\ shown'.calls = shown.calls
  <2> SUFFICES ASSUME chat = "new"
               PROVE  /\ Quiet(kframe') /\ Quiet(wframe')
                      /\ shown'.tokens = shown.tokens /\ shown'.calls = shown.calls
    OBVIOUS
  <2>1. Quiet(wframe) /\ Quiet(kframe) /\ shown.tokens \in Nat
    BY <1>2 DEF HostedIInv, AccumulatesYielded
  <2>2. Accumulated(wframe, shown.calls) = shown.calls /\ TokensOf(wframe) = 0
    BY <2>1, QuietPasses
  <2>3. QED
    BY <1>1, <1>3, <1>9, <2>1, <2>2
<1>11. kframe' \in AllFrames /\ wframe' \in AllFrames
  BY <1>1, <1>2, NothingPasses
<1>12. QED
  BY <1>1, <1>4, <1>5, <1>6, <1>7, <1>9, <1>10, <1>11, FramesGoUp

\* What is cut takes the frames in hand with it; a client that has DONE misses none.
LEMMA ResponseIsCut ==
    ASSUME HostedIInv, ChatIsCut, wframe' \in {wframe, Nothing}, UNCHANGED shown,
           wframe' # Nothing => wtask' = "ready", watcher' # "yielded"
    PROVE  HostedIInv'
<1>1. /\ kframe' = Nothing /\ UNCHANGED message /\ Forgets
      /\ chat' = IF chat \in {"ended", "new"} THEN chat ELSE "cut"
  BY DEF ChatIsCut, Nothing
<1>2. calls' = NoCalls /\ outbox' = <<>> /\ content' = 0 /\ tools' = NoTools
  BY <1>1 DEF Forgets
<1>3. /\ calls' \in Buffers /\ outbox' \in Seq(Frames) /\ content' \in Nat /\ tools' \in Tools
      /\ kframe' \in AllFrames /\ wframe' \in AllFrames
  BY <1>1, <1>2, NothingSoFar, NothingPasses, EmptySeq DEF HostedIInv, HostedTyped
<1>4. HostedTyped' /\ FramesAreInHand'
  <2>1. Nothing' = Nothing
    BY DEF Nothing, Plain, Frame
  <2>2. FramesAreInHand'
    BY <1>1, <2>1 DEF FramesAreInHand
  <2>3. QED
    BY <1>1, <1>3, <2>2 DEF HostedIInv, HostedTyped
<1>5. chat' \in Listening => chat = "new" /\ chat' = "new"
  BY <1>1 DEF HostedIInv, HostedTyped, Listening
<1>6. chat = "new" => /\ shown.tokens = 0 /\ shown.calls = NoTools /\ Quiet(wframe')
                      /\ Accumulated(wframe', shown.calls) = NoTools /\ TokensOf(wframe') = 0
  BY NothingPasses, QuietPasses DEF HostedIInv, AccumulatesYielded
<1>7. AccumulatesYielded'
  BY <1>1, <1>2, <1>5, <1>6, NothingPasses DEF AccumulatesYielded, Total, Seen
<1>8. DoneIsLast'
  <2>1. DoneWith(shown, wframe, kframe)' => DoneWith(shown, wframe, Nothing)
    BY <1>1, NothingPasses DEF DoneWith
  <2>2. DoneWith(shown, wframe, Nothing) =>
          /\ chat \notin Listening /\ message.status = "complete"
          /\ message.content = Total /\ message.tools = Seen /\ Quiet(kframe)
    BY NothingPasses DEF HostedIInv, DoneIsLast, DoneWith
  <2>3. shown.tokens \in Nat /\ TokensOf(wframe) \in Nat
    BY DEF HostedIInv, HostedTyped, TokensOf
  <2>4. Quiet(kframe) => Total = shown.tokens + TokensOf(wframe) /\ Seen = Accumulated(wframe, shown.calls)
    <3>1. Quiet(kframe) => /\ TokensOf(kframe) = 0
                           /\ Accumulated(kframe, Accumulated(wframe, shown.calls)) = Accumulated(wframe, shown.calls)
      BY QuietPasses
    <3>2. QED
      BY <2>3, <3>1 DEF Total, Seen
  <2>5. DoneWith(shown, wframe, kframe)' =>
          TokensOf(wframe') = TokensOf(wframe)
          /\ Accumulated(wframe', shown.calls) = Accumulated(wframe, shown.calls)
    <3>1. CASE wframe' = wframe
      BY <3>1
    <3>2. CASE wframe' = Nothing
      <4>1. DoneWith(shown, wframe, kframe)' => Quiet(wframe)
        BY <1>1, <3>2, NothingPasses DEF HostedIInv, DoneIsLast, DoneWith
      <4>2. QED
        BY <3>2, <4>1, QuietPasses, NothingPasses
    <3>3. QED
      BY <3>1, <3>2
  <2>6. Total' = shown.tokens + TokensOf(wframe') /\ Seen' = Accumulated(wframe', shown.calls)
    <3>1. TokensOf(wframe') \in Nat
      BY DEF TokensOf
    <3>2. QED
      BY <1>1, <2>3, <3>1, NothingPasses DEF Total, Seen
  <2>7. chat \notin Listening => chat' \notin Listening
    BY <1>5 DEF Listening
  <2>8. Quiet(kframe') /\ (DoneWith(shown, Nothing, Nothing)' => Quiet(wframe'))
    <3>1. Nothing' = Nothing
      BY DEF Nothing, Plain, Frame
    <3>2. QED
      BY <1>1, <3>1, NothingPasses DEF HostedIInv, DoneIsLast, DoneWith
  <2>9. QED
    BY <1>1, <2>1, <2>2, <2>4, <2>5, <2>6, <2>7, <2>8 DEF DoneIsLast
<1>9. BracketsFollow'
  <2>1. Fits(wframe', OpenIn(shown'.calls)) /\ Fits(kframe', OpenIn(Accumulated(wframe', shown'.calls)))
    BY <1>1, NothingPasses DEF HostedIInv, BracketsFollow
  <2>2. Brackets(outbox', OpenIn(tools'), OpenCalls(calls')) /\ OpenCalls(calls') = {}
    BY <1>2, NothingSoFar, NoBrackets
  <2>3. QED
    BY <2>1, <2>2 DEF BracketsFollow
<1>10. QED
  BY <1>4, <1>7, <1>8, <1>9 DEF HostedIInv

LEMMA KeeperStepsIInv == ASSUME HostedIInv, KeeperSteps PROVE HostedIInv'
<1>1. KeeperRuns
  BY DEF KeeperSteps, KeeperAborts, KeeperPulls, KeeperForwards, KeepAlive, KeeperDrains,
         KeeperStops, KeeperReturns
<1>2. wframe = Nothing /\ UNCHANGED shown /\ watcher' # "yielded"
  BY <1>1, KeeperHasNoFrame
<1>3. ASSUME KeeperAborts PROVE HostedIInv'
  BY <1>1, <1>3, KeeperHandsPlain DEF KeeperAborts
<1>4. ASSUME KeepAlive PROVE HostedIInv'
  BY <1>1, <1>4, KeeperHandsPlain DEF KeepAlive
<1>5. ASSUME KeeperDrains PROVE HostedIInv'
  <2>1. CASE Hands(Plain("DELEGATION"))
    BY <1>1, <1>5, <2>1, KeeperHandsPlain DEF KeeperDrains
  <2>2. CASE UNCHANGED <<wtask, wframe>>
    BY <1>2, <1>5, <2>2, FramesStay DEF KeeperDrains, HostedIInv, FramesAreInHand
  <2>3. QED
    BY <1>5, <2>1, <2>2 DEF KeeperDrains
<1>6. ASSUME KeeperPulls PROVE HostedIInv'
  <2>1. UNCHANGED <<chatState, kframe, wframe, wtask>> /\ wtask = "running" /\ (ktask = "ready" => ktask' = "ready")
    BY <1>1, <1>6 DEF KeeperPulls, KeeperRuns
  <2>2. FramesAreInHand'
    BY <1>2, <2>1 DEF HostedIInv, FramesAreInHand, Nothing, Plain, Frame
  <2>3. QED
    BY <1>2, <2>1, <2>2, FramesStay
<1>7. ASSUME KeeperStops PROVE HostedIInv'
  <2>1. UNCHANGED <<chatState, kframe, wframe, ktask>>
    BY <1>7 DEF KeeperStops
  <2>2. FramesAreInHand'
    BY <1>2, <2>1 DEF HostedIInv, FramesAreInHand, Nothing, Plain, Frame
  <2>3. QED
    BY <1>2, <2>1, <2>2, FramesStay
<1>8. ASSUME KeeperReturns PROVE HostedIInv'
  BY <1>2, <1>8, ResponseIsCut DEF KeeperReturns
<1>9. QED
  BY <1>3, <1>4, <1>5, <1>6, <1>7, <1>8, KeeperForwardsIInv DEF KeeperSteps

LEMMA WatcherIInv == ASSUME HostedIInv, WatcherSteps \/ ServerCancels PROVE HostedIInv'
<1>1. ASSUME WatcherResumes \/ WatcherStops PROVE HostedIInv'
  <2>1. UNCHANGED <<chatState, kframe, wframe, ktask, shown>>
    BY <1>1 DEF WatcherResumes, WatcherStops, keepState
  <2>2. FramesAreInHand'
    BY <1>1, <2>1 DEF HostedIInv, FramesAreInHand, Nothing, Plain, Frame, WatcherResumes, WatcherStops
  <2>3. QED
    BY <2>1, <2>2, FramesStay
<1>2. ASSUME ClosesAll PROVE HostedIInv'
  BY <1>2, ResponseIsCut DEF ClosesAll, envState, Nothing
<1>3. QED
  BY <1>1, <1>2, WatcherYieldsIInv DEF WatcherSteps, SeesDisconnect, ServerCancels
LEMMA HostedNextIInv == HostedIInv /\ [HostedNext]_hostedVars => HostedIInv'
<1> SUFFICES ASSUME HostedIInv, [HostedNext]_hostedVars PROVE HostedIInv'
  OBVIOUS
<1>1. ASSUME UNCHANGED <<chatState, keepState, watchState>> PROVE HostedIInv'
  <2>1. FramesAreInHand'
    BY <1>1 DEF HostedIInv, FramesAreInHand, Nothing, Plain, Frame, keepState, watchState
  <2>2. QED
    BY <1>1, <2>1, FramesStay DEF keepState, watchState
<1>2. ASSUME UNCHANGED hostedVars \/ Aborts \/ Disconnects \/ Deletes PROVE HostedIInv'
  BY <1>1, <1>2 DEF hostedVars, Aborts, Disconnects, Deletes
<1>3. ASSUME NEW u \in Updates, AgentUpdates(u) PROVE HostedIInv'
  BY <1>3, AgentUpdatesIInv
<1>4. QED
  BY <1>2, <1>3, ChatStepsIInv, KeeperStepsIInv, WatcherIInv DEF HostedNext

LEMMA DoneIsWhole == HostedIInv => DoneIsStored
<1> SUFFICES ASSUME HostedIInv, "DONE" \in shown.terminals PROVE DoneIsStored
  BY DEF DoneIsStored
<1>1. Quiet(wframe) /\ Quiet(kframe) /\ message.status = "complete"
      /\ message.content = Total /\ message.tools = Seen
  BY DEF HostedIInv, DoneIsLast, DoneWith
<1>2. /\ TokensOf(wframe) = 0 /\ TokensOf(kframe) = 0
      /\ \A ts : Accumulated(wframe, ts) = ts /\ Accumulated(kframe, ts) = ts
  BY <1>1, QuietPasses
<1>3. shown.tokens \in Nat
  BY DEF HostedIInv, HostedTyped
<1>4. QED
  BY <1>1, <1>2, <1>3 DEF DoneIsStored, Total, Seen

LEMMA ShowsBracketed ==
    HostedIInv =>
      \A f \in {wframe} : watcher = "wait" /\ watcher' = "yielded" =>
         /\ f.type = "START" => shown.calls[f.id] # "open"
         /\ f.type \in {"DELTA", "END"} => shown.calls[f.id] = "open"
         /\ f.type = "DONE" => \A c \in Ids : shown.calls[c] # "open"
<1> SUFFICES ASSUME HostedIInv
             PROVE  /\ wframe.type = "START" => shown.calls[wframe.id] # "open"
                    /\ wframe.type \in {"DELTA", "END"} => shown.calls[wframe.id] = "open"
                    /\ wframe.type = "DONE" => \A c \in Ids : shown.calls[c] # "open"
  OBVIOUS
<1>1. Fits(wframe, OpenIn(shown.calls))
  BY DEF HostedIInv, BracketsFollow
<1>2. wframe.type \in CallFrames => wframe.id \in Ids
  BY DEF HostedIInv, HostedTyped, AllFrames, Frames, LayerFrames, CallFrames, Plain, Frame
<1>3. QED
  BY <1>1, <1>2 DEF Fits, OpenIn, CallFrames

LEMMA HostedAlways == HostingSpec => []HostedIInv
<1>1. HostingInit => HostedIInv
  BY HostedInitIInv DEF HostingInit
<1>2. [HostingNext]_hostingVars => [HostedNext]_hostedVars
  BY DEF HostingNext, Response, Process, hostingVars, hostedVars
<1>3. HostedIInv /\ [HostingNext]_hostingVars => HostedIInv'
  BY <1>2, HostedNextIInv
<1>4. QED
  BY <1>1, <1>3, PTL DEF HostingSpec

\* A client that was told DONE finds in the store all it was shown, tokens and arguments
\* of calls, through heartbeats, delegation events, aborts and disconnects
\* (agentkit AgentService.chat, with_keepalive, with_disconnect).
THEOREM DoneIsAlwaysStored == HostingSpec => []DoneIsStored
BY HostedAlways, DoneIsWhole, PTL

\* The calls a client sees are bracketed, whatever fragments the agent sends, at any
\* number of them (EventMapper, ToolCallBuffer).
THEOREM CallsAlwaysBracketed == HostingSpec => CallsBracketed
<1>1. HostedIInv /\ [HostingNext]_hostingVars =>
        [\A f \in {wframe} : watcher = "wait" /\ watcher' = "yielded" =>
           /\ f.type = "START" => shown.calls[f.id] # "open"
           /\ f.type \in {"DELTA", "END"} => shown.calls[f.id] = "open"
           /\ f.type = "DONE" => \A c \in Ids : shown.calls[c] # "open"]_hostedVars
  BY ShowsBracketed
<1>2. QED
  BY <1>1, HostedAlways, PTL DEF HostingSpec, CallsBracketed

(***************************************************************************)
(* The life of the server process                                          *)
(***************************************************************************)
\* The store is exchanged before the server is ready, and what was acknowledged by a
\* store is in it: sessions in Cosmos for good, those in memory for as long as it serves.
StoreIsKept ==
  /\ process \in {"up", "stopping", "draining", "down"} /\ startup \in {"warming", "ready"}
  /\ store \in {"memory", "cosmos"} /\ restarts \in Nat
  /\ process = "up" => (startup = "ready" <=> warmup.at = "done")
KeptFor(s) ==
  /\ requests[s] \in [phase : {"none", "began", "acked", "failed"}, store : {"memory", "cosmos"},
                      ready : BOOLEAN, life : Nat]
  /\ requests[s].life <= restarts
  /\ requests[s].phase = "began" => requests[s].life = restarts
  /\ s \in cosmos <=> requests[s].phase = "acked" /\ requests[s].store = "cosmos"
  /\ requests[s].phase \in {"began", "acked"} /\ requests[s].life = restarts =>
       /\ requests[s].store = "cosmos" => store = "cosmos"
       /\ requests[s].store = "memory" /\ requests[s].ready => store = "memory" /\ startup = "ready"
       /\ requests[s].store = "memory" /\ requests[s].phase = "acked" => s \in memory

ShellIInv == /\ requests = [s \in Sessions |-> requests[s]] /\ StoreIsKept
             /\ \A s \in Sessions : KeptFor(s)

LEMMA ShellInitIInv == ShellInit => ShellIInv
BY DEF ShellInit, ShellIInv, StoreIsKept, KeptFor, NoRequest, NotSeeding, Phase1Status

LEMMA WarmupIInv == ASSUME ShellIInv, WarmupSteps PROVE ShellIInv'
<1>1. /\ WarmupStep /\ warmup.at # "done" /\ UNCHANGED <<memory, cosmos, requests, process, restarts>>
      /\ store' = store \/ store' = "cosmos"
      /\ \E step, left : GoesOn(step, left)
  BY DEF WarmupSteps, StaysInMemory, Upgrades, SeedingRaises, Seeds, storeState, WarmupStep
<1>2. startup # "ready" /\ store' \in {"memory", "cosmos"}
  BY <1>1 DEF ShellIInv, StoreIsKept, WarmupStep
<1>3. StoreIsKept'
  BY <1>1, <1>2 DEF ShellIInv, StoreIsKept, WarmupStep, GoesOn
<1>4. \A s \in Sessions : KeptFor(s)'
  BY <1>1, <1>2 DEF ShellIInv, KeptFor
<1>5. QED
  BY <1>1, <1>3, <1>4 DEF ShellIInv

LEMMA RequestIInv ==
    ASSUME ShellIInv, NEW s \in Sessions, RequestBegins(s) \/ Creates(s) \/ CreateFails(s)
    PROVE  ShellIInv'
<1>1. /\ UNCHANGED <<process, startup, warmup, store, restarts>>
      /\ \E r : requests' = [requests EXCEPT ![s] = r]
  BY DEF RequestBegins, Creates, CreateFails, RequestStep, storeState
<1>2. StoreIsKept' /\ requests' = [t \in Sessions |-> requests'[t]]
  BY <1>1 DEF ShellIInv, StoreIsKept
<1>3. ASSUME NEW t \in Sessions, t # s PROVE KeptFor(t)'
  BY <1>1, <1>3 DEF ShellIInv, KeptFor, RequestBegins, Creates, CreateFails, storeState
<1>4. KeptFor(s)'
  <2>1. CASE RequestBegins(s)
    <3> DEFINE ready == readiness
    <3>1. /\ requests[s].phase = "none" /\ UNCHANGED <<store, memory, cosmos, startup, restarts>>
          /\ requests'[s] = [phase |-> "began", store |-> store, ready |-> ready, life |-> restarts]
      BY <2>1, <1>1 DEF ShellIInv, RequestBegins, storeState
    <3>2. ready \in BOOLEAN /\ (ready => startup = "ready")
      BY DEF readiness
    <3> HIDE DEF ready
    <3>3. /\ restarts \in Nat /\ restarts <= restarts /\ store \in {"memory", "cosmos"}
          /\ s \notin cosmos
      BY <3>1 DEF ShellIInv, StoreIsKept, KeptFor
    <3>4. /\ requests'[s].phase = "began" /\ requests'[s].store = store
          /\ requests'[s].ready = ready /\ requests'[s].life = restarts
      BY <3>1
    <3>5. requests'[s] \in [phase : {"none", "began", "acked", "failed"}, store : {"memory", "cosmos"},
                           ready : BOOLEAN, life : Nat]
      BY <3>1, <3>2, <3>3
    <3>6. requests'[s].ready => startup' = "ready"
      BY <3>1, <3>2, <3>4
    <3>7. QED
      BY <3>1, <3>3, <3>4, <3>5, <3>6 DEF KeptFor
  <2>2. CASE Creates(s)
    <3>1. /\ requests[s].phase = "began" /\ requests'[s] = [requests[s] EXCEPT !.phase = "acked"]
          /\ IF requests[s].store = "memory" THEN memory' = memory \cup {s} /\ UNCHANGED cosmos
             ELSE cosmos' = cosmos \cup {s} /\ UNCHANGED memory
      BY <2>2 DEF ShellIInv, Creates
    <3>2. QED
      BY <3>1, <1>1 DEF ShellIInv, KeptFor
  <2>3. CASE CreateFails(s)
    <3>1. /\ requests[s].phase = "began" /\ requests'[s] = [requests[s] EXCEPT !.phase = "failed"]
          /\ UNCHANGED <<memory, cosmos>>
      BY <2>3 DEF ShellIInv, CreateFails, storeState
    <3>2. QED
      BY <3>1, <1>1 DEF ShellIInv, KeptFor
  <2>4. QED
    BY <2>1, <2>2, <2>3
<1>5. QED
  BY <1>2, <1>3, <1>4 DEF ShellIInv

\* A process that begins has no request under way, and owes nothing to those before it
\* but what is in Cosmos.
LEMMA FreshIInv ==
    ASSUME ShellIInv, process' = "up", restarts' = restarts + 1, Fresh PROVE ShellIInv'
<1>1. StoreIsKept' /\ requests' = [s \in Sessions |-> requests'[s]]
  BY DEF ShellIInv, StoreIsKept, Fresh, NotSeeding, Phase1Status
<1>2. ASSUME NEW s \in Sessions PROVE KeptFor(s)'
  <2>1. KeptFor(s) /\ UNCHANGED cosmos /\ restarts \in Nat
    BY DEF ShellIInv, StoreIsKept, Fresh
  <2>2. CASE requests[s].phase # "began"
    <3>1. requests'[s] = requests[s]
      BY <2>2 DEF Fresh
    <3>2. requests[s].life \in Nat /\ requests[s].life <= restarts
      BY <2>1 DEF KeptFor
    <3>3. requests[s].life <= restarts' /\ requests[s].life # restarts'
      BY <2>1, <3>2
    <3>4. QED
      BY <2>1, <2>2, <3>1, <3>3 DEF KeptFor
  <2>3. CASE requests[s].phase = "began"
    <3>1. requests'[s] = [requests[s] EXCEPT !.phase = "failed"]
      BY <2>3 DEF Fresh
    <3>2. QED
      BY <2>1, <2>3, <3>1 DEF KeptFor
  <2>4. QED
    BY <2>2, <2>3
<1>3. QED
  BY <1>1, <1>2 DEF ShellIInv

\* Steps of the traces, of the shutdown and of another replica.
LEMMA ShellAside ==
    ASSUME ShellIInv, UNCHANGED <<startup, store, memory, cosmos, requests, restarts>>,
           \/ UNCHANGED <<process, warmup>>
           \/ process' \in {"stopping", "draining", "down"}
    PROVE  ShellIInv'
BY DEF ShellIInv, StoreIsKept, KeptFor

LEMMA ShellNextIInv == ShellIInv /\ [ShellNext]_shellVars => ShellIInv'
<1> SUFFICES ASSUME ShellIInv, [ShellNext]_shellVars PROVE ShellIInv'
  OBVIOUS
<1>1. ASSUME UNCHANGED shellVars PROVE ShellIInv'
  BY <1>1, ShellAside DEF shellVars, storeState
<1>2. ASSUME WorkerSteps \/ Exports \/ \E t \in Traces : Trace(t) PROVE ShellIInv'
  BY <1>2, ShellAside DEF WorkerSteps, WorkerTakes, WaitTimesOut, WorkerWakes, Exports, Trace,
                          TraceStep, storeState
<1>3. ASSUME CloseSteps \/ Stops PROVE ShellIInv'
  BY <1>3, ShellAside DEF CloseSteps, Closes, Drained, ForceCancel, Ends, Stops, storeState
<1>4. ASSUME NEW t \in Templates, ReplicaSeeds(t) PROVE ShellIInv'
  BY <1>4, ShellAside DEF ReplicaSeeds
<1>5. ASSUME Crashes \/ Restarts PROVE ShellIInv'
  BY <1>5, FreshIInv DEF Crashes, Restarts
<1>6. QED
  BY <1>1, <1>2, <1>3, <1>4, <1>5, WarmupIInv, RequestIInv DEF ShellNext

LEMMA ShellKeeps == ShellIInv => ReadyKeepsSessions
BY DEF ShellIInv, KeptFor, ReadyKeepsSessions, Served

\* A session acknowledged by a server that said it was ready is within reach for the rest
\* of that process's life: the in-memory store is not exchanged behind a client's back
\* (lifespan, _background_warmup of app/main.py).  Of what crashes and restarts leave, it
\* says only that a session written to Cosmos is still in Cosmos.
THEOREM ReadyAlwaysKeepsSessions == HostingSpec => []ReadyKeepsSessions
<1>1. HostingInit => ShellIInv
  BY ShellInitIInv DEF HostingInit
<1>2. ShellIInv /\ [HostingNext]_hostingVars => ShellIInv'
  <2>1. [HostingNext]_hostingVars => [ShellNext]_shellVars
    BY DEF HostingNext, Response, Process, hostingVars, shellVars
  <2>2. QED
    BY <2>1, ShellNextIInv
<1>3. QED
  BY <1>1, <1>2, ShellKeeps, PTL DEF HostingSpec

(***************************************************************************)
(* Delegation                                                              *)
(***************************************************************************)
Labels == {"user", "build", "stream", "sleep", "persistPartial", "persist", "over"}

Sleeping == \A t \in Tasks : pc[t] = "sleep" => attempt[t] # MaxRetries - 1

TabInv == \A t \in Tasks : pc[t] = "persistPartial" => closed[t]

IInv == TypeOK /\ Sleeping /\ TabInv /\ AnswerIsOneAttempt /\ TabFollowsCall

LEMMA AtMostOne ==
    ASSUME NEW x, NEW S, S \subseteq {x}
    PROVE  Cardinality(S) <= 1
<1>1. S = {} \/ S = {x}
  OBVIOUS
<1>2. Cardinality({}) = 0 /\ Cardinality({x}) = 1
  BY FS_EmptySet, FS_Singleton
<1>3. QED
  BY <1>1, <1>2

LEMMA InitIInv == Init => IInv
<1> SUFFICES ASSUME Init PROVE IInv
  OBVIOUS
<1>1. 0 \in Attempts
  BY DelegationAssumption DEF Attempts
<1>2. TypeOK
  BY <1>1 DEF Init, TypeOK, NoAnswer, Answers
<1>3. Cardinality(NoAnswer.parts) <= 1
  BY FS_EmptySet DEF NoAnswer
<1>4. AnswerIsOneAttempt
  BY <1>3 DEF Init, AnswerIsOneAttempt
<1>5. Sleeping /\ TabInv /\ TabFollowsCall
  BY DEF Init, Sleeping, TabInv, TabFollowsCall
<1>6. QED
  BY <1>2, <1>4, <1>5 DEF IInv

-----------------------------------------------------------------------------
\* There is another attempt after one that is not the last.
LEMMA NextAttemptExists ==
    ASSUME NEW n \in Attempts, n # MaxRetries - 1
    PROVE  n + 1 \in Attempts
BY DelegationAssumption DEF Attempts

LEMMA StoredIsAnswer ==
    ASSUME TypeOK, NEW t \in Tasks, StoreAnswer(t)
    PROVE  answer' \in [Tasks -> Answers]
BY DEF TypeOK, StoreAnswer, Answers

LEMMA NextTyped == IInv /\ [Next]_vars => TypeOK'
<1> SUFFICES ASSUME IInv, [Next]_vars PROVE TypeOK'
  OBVIOUS
<1>0. TypeOK /\ Sleeping
  BY DEF IInv
<1> USE DEF Goto, Return, CloseTab
<1>1. ASSUME NEW t \in Tasks, PersistUser(t) \/ Build(t) \/ StreamEnds(t)
      PROVE  TypeOK'
  <2>1. CASE PersistUser(t)
    <3>1. user' \in [Tasks -> BOOLEAN] /\ heard' \in [Tasks -> BOOLEAN]
      BY <1>0, <2>1 DEF PersistUser, StoreUser, TypeOK
    <3>2. pc' \in [Tasks -> Labels]
      BY <1>0, <2>1 DEF PersistUser, TypeOK, Labels
    <3>3. UNCHANGED <<attempt, text, err, sawFatal, answer, closed, result, abort_event>>
      BY <2>1 DEF PersistUser
    <3>4. QED
      BY <1>0, <3>1, <3>2, <3>3 DEF TypeOK, Labels
  <2>2. CASE Build(t)
    BY <1>0, <2>2 DEF Build, TypeOK, stream, thread
  <2>3. CASE StreamEnds(t)
    BY <1>0, <2>3 DEF StreamEnds, TypeOK, thread
  <2>4. QED
    BY <1>1, <2>1, <2>2, <2>3
<1>2. ASSUME NEW t \in Tasks, Update(t)
      PROVE  TypeOK'
  <2>1. text' \in [Tasks -> SUBSET Attempts]
    BY <1>0, <1>2 DEF Update, TypeOK
  <2>2. /\ pc' \in [Tasks -> Labels]
        /\ closed' \in [Tasks -> BOOLEAN]
        /\ result' \in [Tasks -> {"none", "complete", "aborted", "error", "cancelled"}]
    BY <1>0, <1>2 DEF Update, TypeOK, Labels
  <2>3. UNCHANGED <<heard, attempt, err, sawFatal, user, answer, abort_event>>
    BY <1>2 DEF Update, thread
  <2>4. QED
    BY <1>0, <2>1, <2>2, <2>3 DEF TypeOK, Labels
<1>3. ASSUME NEW t \in Tasks, NEW kind \in {"retryable", "fatal"}, AttemptFails(t, kind)
      PROVE  TypeOK'
  <2>1. attempt' \in [Tasks -> Attempts]
    BY <1>0, <1>3, NextAttemptExists DEF AttemptFails, LastAttempt, TypeOK
  <2>2. /\ pc' \in [Tasks -> Labels]
        /\ closed' \in [Tasks -> BOOLEAN]
        /\ result' \in [Tasks -> {"none", "complete", "aborted", "error", "cancelled"}]
    BY <1>0, <1>3 DEF AttemptFails, TypeOK, Labels
  <2>3. /\ err' \in [Tasks -> {"none", "retryable", "fatal"}]
        /\ sawFatal' \in [Tasks -> BOOLEAN]
        /\ UNCHANGED <<heard, text, user, answer, abort_event>>
    BY <1>0, <1>3 DEF AttemptFails, TypeOK, thread
  <2>4. QED
    BY <1>0, <2>1, <2>2, <2>3 DEF TypeOK, Labels
<1>4. ASSUME NEW t \in Tasks, Wake(t)
      PROVE  TypeOK'
  <2>1. attempt' \in [Tasks -> Attempts]
    BY <1>0, <1>4, NextAttemptExists DEF Wake, Sleeping, TypeOK
  <2>2. QED
    BY <1>0, <1>4, <2>1 DEF Wake, ClearText, TypeOK, thread
<1>5. ASSUME NEW t \in Tasks, PersistPartial(t) \/ Persist(t) \/ Cancel(t)
      PROVE  TypeOK'
  <2>1. answer' \in [Tasks -> Answers]
    BY <1>0, <1>5, StoredIsAnswer DEF PersistPartial, Persist, Cancel, TypeOK
  <2>2. /\ pc' \in [Tasks -> Labels]
        /\ user' \in [Tasks -> BOOLEAN]
        /\ closed' \in [Tasks -> BOOLEAN]
        /\ result' \in [Tasks -> {"none", "complete", "aborted", "error", "cancelled"}]
    <3>1. CASE PersistPartial(t)
      BY <1>0, <3>1 DEF PersistPartial, TypeOK, Labels
    <3>2. CASE Persist(t)
      BY <1>0, <3>2 DEF Persist, TypeOK, Labels
    <3>3. CASE Cancel(t)
      BY <1>0, <3>3 DEF Cancel, Cancelled, StoreUser, TypeOK, Labels
    <3>4. QED
      BY <1>5, <3>1, <3>2, <3>3
  <2>3. UNCHANGED <<heard, attempt, text, err, sawFatal, abort_event>>
    BY <1>5 DEF PersistPartial, Persist, Cancel, stream
  <2>4. QED
    BY <1>0, <2>1, <2>2, <2>3 DEF TypeOK, Labels
<1>6. CASE SetAbort \/ UNCHANGED vars
  BY <1>0, <1>6 DEF SetAbort, TypeOK, vars, stream, thread
<1>7. QED
  BY <1>1, <1>2, <1>3, <1>4, <1>5, <1>6 DEF Next

-----------------------------------------------------------------------------
\* One delegation keeps what the invariant says of it: its buffer, its answer, its tab.
TaskOK(t) ==
    /\ pc[t] = "sleep" => attempt[t] # MaxRetries - 1
    /\ pc[t] \in {"persistPartial", "over"} <=> closed[t]

TextOK(t) ==
    ~sawFatal[t] => text[t] \subseteq {attempt[t]} /\ Cardinality(answer[t].parts) <= 1

LEMMA InTasks ==
    IInv <=> TypeOK /\ \A t \in Tasks : TaskOK(t) /\ TextOK(t)
BY DEF IInv, Sleeping, TabInv, AnswerIsOneAttempt, TabFollowsCall, TaskOK, TextOK

LEMMA NextTaskOK ==
    ASSUME IInv, [Next]_vars, NEW u \in Tasks
    PROVE  TaskOK(u)'
<1> USE DEF Goto, Return, CloseTab
<1>0. TypeOK /\ TaskOK(u)
  BY InTasks
<1>1. ASSUME NEW t \in Tasks, PersistUser(t) \/ Build(t) \/ StreamEnds(t) \/ Update(t)
      PROVE  TaskOK(u)'
  BY <1>0, <1>1 DEF PersistUser, Build, StreamEnds, Update, TypeOK, TaskOK, stream
<1>2. ASSUME NEW t \in Tasks, NEW kind \in {"retryable", "fatal"}, AttemptFails(t, kind)
      PROVE  TaskOK(u)'
  BY <1>0, <1>2 DEF AttemptFails, LastAttempt, TypeOK, TaskOK
<1>3. ASSUME NEW t \in Tasks, Wake(t)
      PROVE  TaskOK(u)'
  BY <1>0, <1>3 DEF Wake, TypeOK, TaskOK
<1>4. ASSUME NEW t \in Tasks, PersistPartial(t) \/ Persist(t) \/ Cancel(t)
      PROVE  TaskOK(u)'
  BY <1>0, <1>4 DEF PersistPartial, Persist, Cancel, Cancelled, TypeOK, TaskOK, stream
<1>5. CASE SetAbort \/ UNCHANGED vars
  BY <1>0, <1>5 DEF SetAbort, TaskOK, vars, stream
<1>6. QED
  BY <1>1, <1>2, <1>3, <1>4, <1>5 DEF Next

LEMMA NextTextOK ==
    ASSUME IInv, [Next]_vars, NEW u \in Tasks
    PROVE  TextOK(u)'
<1>0. TypeOK /\ TextOK(u)
  BY InTasks
<1>1. ASSUME NEW t \in Tasks, PersistUser(t) \/ Build(t) \/ StreamEnds(t) \/ Update(t)
      PROVE  TextOK(u)'
  BY <1>0, <1>1 DEF PersistUser, Build, StreamEnds, Update, TypeOK, TextOK, stream, thread
<1>2. ASSUME NEW t \in Tasks, NEW kind \in {"retryable", "fatal"}, AttemptFails(t, kind)
      PROVE  TextOK(u)'
  <2>1. CASE u = t /\ kind = "fatal"
    BY <1>0, <1>2, <2>1 DEF AttemptFails, TypeOK, TextOK
  <2>2. CASE ~(u = t /\ kind = "fatal")
    <3>1. attempt'[u] = attempt[u] /\ UNCHANGED <<text, answer>>
      BY <1>0, <1>2, <2>2 DEF AttemptFails, TypeOK, thread
    <3>2. sawFatal'[u] = sawFatal[u]
      BY <1>0, <1>2, <2>2 DEF AttemptFails, TypeOK
    <3>3. QED
      BY <1>0, <3>1, <3>2 DEF TextOK
  <2>3. QED
    BY <2>1, <2>2
<1>3. ASSUME NEW t \in Tasks, Wake(t)
      PROVE  TextOK(u)'
  <2>1. UNCHANGED <<sawFatal, answer>>
    BY <1>3 DEF Wake, thread
  <2>2. text'[u] \subseteq {attempt'[u]} \/ (text'[u] = text[u] /\ attempt'[u] = attempt[u])
    BY <1>0, <1>3 DEF Wake, ClearText, TypeOK
  <2>3. QED
    BY <1>0, <2>1, <2>2 DEF TextOK
<1>4. ASSUME NEW t \in Tasks, PersistPartial(t) \/ Persist(t) \/ Cancel(t)
      PROVE  TextOK(u)'
  <2>1. UNCHANGED <<sawFatal, text, attempt>>
    BY <1>4 DEF PersistPartial, Persist, Cancel, stream
  <2>2. answer'[u].parts \in {answer[u].parts, text[u]}
    BY <1>0, <1>4 DEF PersistPartial, Persist, Cancel, StoreAnswer, TypeOK
  <2>3. text[u] \subseteq {attempt[u]} => Cardinality(text[u]) <= 1
    BY AtMostOne
  <2>4. QED
    BY <1>0, <2>1, <2>2, <2>3 DEF TextOK
<1>5. CASE SetAbort \/ UNCHANGED vars
  BY <1>0, <1>5 DEF SetAbort, TextOK, vars, stream, thread
<1>6. QED
  BY <1>1, <1>2, <1>3, <1>4, <1>5 DEF Next

LEMMA IInvAlways == Spec => []IInv
<1>1. IInv /\ [Next]_vars => IInv'
  <2> SUFFICES ASSUME IInv, [Next]_vars PROVE IInv'
    OBVIOUS
  <2>1. TypeOK' /\ \A u \in Tasks : TaskOK(u)' /\ TextOK(u)'
    BY NextTyped, NextTaskOK, NextTextOK
  <2>2. QED
    BY <2>1 DEF IInv, Sleeping, TabInv, AnswerIsOneAttempt, TabFollowsCall, TaskOK, TextOK
<1>2. QED
  BY InitIInv, <1>1, PTL DEF Spec

-----------------------------------------------------------------------------
\* The attempts of _stream_specialist_with_retry stay in their range, and every answer
\* is made of the text of attempts.
THEOREM TypeCorrect == Spec => []TypeOK
<1>1. IInv => TypeOK
  BY DEF IInv
<1>2. QED
  BY IInvAlways, <1>1, PTL

\* The buffer is cleared before a retry streams into it: whatever is stored of a
\* delegation, in full or after an abort, comes from one attempt of the specialist,
\* as long as should_retry has not declined before the last.
THEOREM AnswersAreOneAttempt == Spec => []AnswerIsOneAttempt
<1>1. IInv => AnswerIsOneAttempt
  BY DEF IInv
<1>2. QED
  BY IInvAlways, <1>1, PTL

\* Every way out of delegate_to_agent tells the specialist's tab, and nothing but
\* storing the partial answer follows.
THEOREM TabIsTold == Spec => []TabFollowsCall
<1>1. IInv => TabFollowsCall
  BY DEF IInv
<1>2. QED
  BY IInvAlways, <1>1, PTL
=============================================================================
