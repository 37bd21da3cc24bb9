------------------------- MODULE ExamplePrograms_proofs -------------------------
(***************************************************************************)
(* Proofs about ExamplePrograms, for channels of any capacity and any      *)
(* number of failures.                                                     *)
(***************************************************************************)
EXTENDS ExamplePrograms, BufferedChannel_proofs, SequenceTheorems

-----------------------------------------------------------------------------
(* The dialogue.  Each step of a script stands for one frame of the server: *)
(* a call for its answer, the others for the announcement of a state.      *)

States == {"s:acord", "s:initial", "s:model-loaded", "s:instance", "s:foo", "s:model_loaded"}

Frames ==
    Requests \cup {Local!Error, Local!Assets, Local!Ack} \cup { Local!State(id) : id \in States }

\* The step of the k-th call.
Slot(k) ==
    CASE k = 0 -> 0 [] k = 1 -> 2 [] k = 2 -> 3 [] k = 3 -> 5
      [] k = 4 -> 7 [] k = 5 -> 9 [] OTHER -> 10

\* The frame that step i is to receive.
Reply(i) ==
    IF script[i].kind = "expect" THEN Local!State(script[i].what)
    ELSE IF script[i].what = Local!MakeAssets THEN Local!Assets
    ELSE IF script[i].what = Local!LoadProvider THEN Local!Ack
    ELSE Request(script[i].what)

\* A frame that step i may receive.
Right(f, i) == f = Reply(i) \/ (f = Local!Error /\ faults > 0)

-----------------------------------------------------------------------------
(* The inductive invariant.  It is about a program that has not left yet:  *)
(* after that nothing is claimed.                                          *)

Running == program \in {"next", "timed", "wait"}

Types ==
    /\ script \in {CliScript, HelloScript} /\ at \in 1..9
    /\ handled \in Seq(Requests) /\ replies \in Seq(Frames) /\ todo \in Seq(Frames)
    /\ in \in Channel(Requests) /\ up \in Channel(Requests)
    /\ out \in Channel(Frames) /\ down \in Channel(Frames)

\* The calls the program has made.
Asked == Len(handled) + Len(in.buf) + Len(up.buf)

\* At most one request is on its way, and it is the next one for the server.
RequestsInv ==
    /\ Asked <= 5 /\ Len(in.buf) + Len(up.buf) <= 1
    /\ program = "next" => Slot(Asked) < at /\ at <= Slot(Asked + 1)
    /\ program # "next" => Asked > 0 /\ at = Slot(Asked)
    /\ \A i \in 1..Len(handled) : handled[i] = Request(script[Slot(i)].what)
    /\ \A i \in 1..Len(in.buf) : in.buf[i] = Request(script[Slot(Len(handled) + 1)].what)
    /\ \A i \in 1..Len(up.buf) : up.buf[i] = Request(script[Slot(Len(handled) + 1)].what)

\* The frames on their way are those for the steps to come, in their order.
FramesInv ==
    /\ Len(replies) = at - 1 + Len(down.buf) + Len(out.buf)
    /\ \A i \in 1..Len(down.buf) : Right(down.buf[i], at - 1 + i)
    /\ \A i \in 1..Len(out.buf) : Right(out.buf[i], at - 1 + Len(down.buf) + i)
    /\ \A i \in 1..Len(todo) : Right(todo[i], Len(replies) + i)

\* The server is ahead of the requests it has read by the states it announces
\* of its own accord, and by nothing else.
ServerInv ==
    /\ Len(replies) < Slot(Len(handled) + 1)
    /\ pc \notin {"throw", "undefined"}
    /\ provider # "none" => pc = "done"
    /\ provider = "none" =>
        /\ served = Len(handled) /\ served <= 2 /\ state = 1 /\ todo = <<>>
        /\ pc = "push" => Len(replies) = served /\ outgoing = Reply(served + 1)
        /\ pc = "poll" => Len(replies) = served + 1 /\ served <= 1
        /\ pc \in {"assetsState", "assetsResult"} => Len(replies) = 1 /\ served = 1
        /\ pc = "attach" => Len(replies) = 3 /\ served = 2
    /\ provider = "starting" =>
        Len(replies) = 3 /\ Len(handled) = 2 /\ state = 1 /\ todo = <<>>
    /\ provider = "up" =>
        /\ Len(handled) \in 2..5
        /\ Len(replies) + Len(todo) < Slot(Len(handled) + 1)
        /\ Len(replies) + Len(todo) + 1 = Slot(Len(handled) + 1)
            => state = IF Len(handled) = 5 THEN 3 ELSE Len(handled) - 1

\* Nothing is closed before something fails.
ClosedInv ==
    faults = 0 =>
        /\ ~in.closed /\ ~out.closed /\ ~up.closed /\ ~down.closed
        /\ aio # "failed" /\ link # "closed"

Dialogue == Types /\ RequestsInv /\ FramesInv /\ ServerInv /\ ClosedInv

IInv == faults \in Nat /\ FailsForAReason /\ (Running => Dialogue)

-----------------------------------------------------------------------------
(* What the two scripts and the two schemas have in common.                *)

LEMMA Scripts ==
    ASSUME script \in {CliScript, HelloScript}
    PROVE  /\ Len(script) = 9 /\ Len(Schema) = 3
           /\ \A i \in 1..9 : script[i].kind = "expect" <=> i \in {1, 4, 6, 8}
           /\ script[1].what = "s:acord"
           /\ script[2].what = Local!MakeAssets /\ script[3].what = Local!LoadProvider
           /\ \A k \in 1..3 : /\ script[2 * k + 2].what = Schema[k].id
                              /\ script[2 * k + 3].what = Schema[k].op
           /\ \A k \in 1..3 :
                 /\ Schema[k].op \in {"run", "load-model", "start-instance",
                                      "load_model", "create_instance"}
                 /\ Schema[k].id \in {"s:initial", "s:model-loaded", "s:instance",
                                      "s:foo", "s:model_loaded"}
<1>1. CASE script = CliScript
  <2>1. Schema = Llama
    BY <1>1 DEF Schema
  <2>2. /\ Len(script) = 9 /\ Len(Schema) = 3
        /\ \A i \in 1..9 : script[i].kind = "expect" <=> i \in {1, 4, 6, 8}
    BY <1>1, <2>1 DEF CliScript, Llama, Expect, Call, TimedCall
  <2>3. /\ script[1].what = "s:acord"
        /\ script[2].what = Local!MakeAssets /\ script[3].what = Local!LoadProvider
    BY <1>1 DEF CliScript, Expect, Call, TimedCall
  <2>4. \A k \in 1..3 : k = 1 \/ k = 2 \/ k = 3
    OBVIOUS
  <2>5. \A k \in 1..3 : /\ script[2 * k + 2].what = Schema[k].id
                        /\ script[2 * k + 3].what = Schema[k].op
    BY <1>1, <2>1, <2>4 DEF CliScript, Llama, Expect, Call, TimedCall
  <2>6. \A k \in 1..3 :
                 /\ Schema[k].op \in {"run", "load-model", "start-instance",
                                      "load_model", "create_instance"}
                 /\ Schema[k].id \in {"s:initial", "s:model-loaded", "s:instance",
                                      "s:foo", "s:model_loaded"}
    BY <2>1, <2>4 DEF Llama
  <2>7. QED  BY <2>2, <2>3, <2>5, <2>6
<1>2. CASE script = HelloScript
  <2>1. Schema = Foo
    <3>1. CliScript[2].kind = "timed" /\ HelloScript[2].kind = "call"
      BY DEF CliScript, HelloScript, Expect, Call, TimedCall
    <3>2. script # CliScript
      BY <1>2, <3>1
    <3>3. QED  BY <3>2 DEF Schema
  <2>2. /\ Len(script) = 9 /\ Len(Schema) = 3
        /\ \A i \in 1..9 : script[i].kind = "expect" <=> i \in {1, 4, 6, 8}
    BY <1>2, <2>1 DEF HelloScript, Foo, StateInitial, StateModelLoaded, StateInstance,
                      Expect, Call, TimedCall
  <2>3. /\ script[1].what = "s:acord"
        /\ script[2].what = Local!MakeAssets /\ script[3].what = Local!LoadProvider
    BY <1>2 DEF HelloScript, Expect, Call, TimedCall
  <2>4. \A k \in 1..3 : k = 1 \/ k = 2 \/ k = 3
    OBVIOUS
  <2>5. \A k \in 1..3 : /\ script[2 * k + 2].what = Schema[k].id
                        /\ script[2 * k + 3].what = Schema[k].op
    BY <1>2, <2>1, <2>4 DEF HelloScript, Foo, StateInitial, StateModelLoaded,
                            StateInstance, Expect, Call, TimedCall
  <2>6. \A k \in 1..3 :
                 /\ Schema[k].op \in {"run", "load-model", "start-instance",
                                      "load_model", "create_instance"}
                 /\ Schema[k].id \in {"s:initial", "s:model-loaded", "s:instance",
                                      "s:foo", "s:model_loaded"}
    BY <2>1, <2>4 DEF Foo, StateInitial, StateModelLoaded, StateInstance
  <2>7. QED  BY <2>2, <2>3, <2>5, <2>6
<1>3. QED  BY <1>1, <1>2

\* The frames that the steps are to receive.
LEMMA RepliesOfScript ==
    ASSUME script \in {CliScript, HelloScript}
    PROVE  /\ Reply(1) = Local!State("s:acord")
           /\ Reply(2) = Local!Assets /\ Reply(3) = Local!Ack
           /\ \A k \in 1..3 : /\ Reply(2 * k + 2) = Local!State(Schema[k].id)
                              /\ Reply(2 * k + 3) = Request(Schema[k].op)
<1>1. /\ Reply(1) = Local!State("s:acord")
      /\ Reply(2) = Local!Assets /\ Reply(3) = Local!Ack
  <2>1. script[1].kind = "expect" /\ script[2].kind # "expect" /\ script[3].kind # "expect"
    BY Scripts
  <2>2. Local!MakeAssets # Local!LoadProvider
    BY DEF Local!MakeAssets, Local!LoadProvider
  <2>3. QED  BY <2>1, <2>2, Scripts DEF Reply
<1>2. ASSUME NEW k \in 1..3
      PROVE  /\ Reply(2 * k + 2) = Local!State(Schema[k].id)
             /\ Reply(2 * k + 3) = Request(Schema[k].op)
  <2>1. /\ 2 * k + 2 \in 1..9 /\ 2 * k + 2 \in {1, 4, 6, 8}
        /\ 2 * k + 3 \in 1..9 /\ 2 * k + 3 \notin {1, 4, 6, 8}
    OBVIOUS
  <2>2. script[2 * k + 2].kind = "expect" /\ script[2 * k + 3].kind # "expect"
    BY <2>1, Scripts
  <2>3. /\ script[2 * k + 2].what = Schema[k].id /\ script[2 * k + 3].what = Schema[k].op
        /\ Schema[k].op \notin {Local!MakeAssets, Local!LoadProvider}
    BY Scripts DEF Local!MakeAssets, Local!LoadProvider
  <2>4. QED  BY <2>2, <2>3 DEF Reply
<1>3. QED  BY <1>1, <1>2

\* They are frames, and none is an error; the answer to a call has its name.
LEMMA ReplyFacts ==
    ASSUME script \in {CliScript, HelloScript}, NEW i \in 1..9
    PROVE  /\ Reply(i) \in Frames /\ Reply(i) # Local!Error
           /\ script[i].kind = "expect" => Reply(i) = Local!State(script[i].what)
           /\ script[i].kind # "expect" => /\ Reply(i).op = script[i].what
                                           /\ Request(script[i].what) \in Requests
<1>1. i \in {1, 2, 3} \/ \E k \in 1..3 : i = 2 * k + 2 \/ i = 2 * k + 3
  <2>1. 1 \in 1..3 /\ 2 \in 1..3 /\ 3 \in 1..3
    OBVIOUS
  <2>2. i \in {1, 2, 3} \/ i = 2 * 1 + 2 \/ i = 2 * 1 + 3 \/ i = 2 * 2 + 2
        \/ i = 2 * 2 + 3 \/ i = 2 * 3 + 2 \/ i = 2 * 3 + 3
    OBVIOUS
  <2>3. QED  BY <2>1, <2>2
<1>2. CASE i \in {1, 2, 3}
  <2>1. Reply(i) \in {Local!State("s:acord"), Local!Assets, Local!Ack}
    BY <1>2, RepliesOfScript
  <2>2. Reply(i) \in Frames /\ Reply(i) # Local!Error
    <3>1. Local!Error \notin {Local!State("s:acord"), Local!Assets, Local!Ack}
      BY DEF Local!State, Local!Assets, Local!Ack, Local!Error,
             Local!MakeAssets, Local!LoadProvider
    <3>2. "s:acord" \in States
      BY DEF States
    <3>3. QED  BY <2>1, <3>1, <3>2 DEF Frames
  <2>3. script[i].kind = "expect" => Reply(i) = Local!State(script[i].what)
    BY DEF Reply
  <2>4. script[i].kind # "expect" => /\ Reply(i).op = script[i].what
                                     /\ Request(script[i].what) \in Requests
    <3>1. /\ script[1].kind = "expect" /\ script[2].what = Local!MakeAssets
          /\ script[3].what = Local!LoadProvider
      BY Scripts
    <3>2. Local!Assets.op = Local!MakeAssets /\ Local!Ack.op = Local!LoadProvider
      BY DEF Local!Assets, Local!Ack
    <3>3. {Request(Local!MakeAssets), Request(Local!LoadProvider)} \subseteq Requests
      BY DEF Requests, Local!MakeAssets, Local!LoadProvider
    <3>4. QED  BY <1>2, <3>1, <3>2, <3>3, RepliesOfScript
  <2>5. QED  BY <2>2, <2>3, <2>4
<1>3. ASSUME NEW k \in 1..3, i = 2 * k + 2
      PROVE  /\ Reply(i) \in Frames /\ Reply(i) # Local!Error
             /\ script[i].kind = "expect" /\ Reply(i) = Local!State(script[i].what)
  <2>1. Reply(i) = Local!State(Schema[k].id) /\ script[i].what = Schema[k].id
    BY <1>3, RepliesOfScript, Scripts
  <2>2. Schema[k].id \in States /\ Schema[k].id # "error"
    BY Scripts DEF States
  <2>3. script[i].kind = "expect"
    BY <1>3, Scripts
  <2>4. Local!State(Schema[k].id) # Local!Error
    BY <2>2 DEF Local!State, Local!Error
  <2>5. QED  BY <2>1, <2>2, <2>3, <2>4 DEF Frames
<1>4. ASSUME NEW k \in 1..3, i = 2 * k + 3
      PROVE  /\ Reply(i) \in Frames /\ Reply(i) # Local!Error
             /\ script[i].kind # "expect" /\ Reply(i).op = script[i].what
             /\ Request(script[i].what) \in Requests
  <2>1. Reply(i) = Request(Schema[k].op) /\ script[i].what = Schema[k].op
    BY <1>4, RepliesOfScript, Scripts
  <2>2. Schema[k].op \in {"run", "load-model", "start-instance", "load_model",
                          "create_instance"}
    BY Scripts
  <2>3. script[i].kind # "expect"
    BY <1>4, Scripts
  <2>4. Request(Schema[k].op) \in Requests /\ Request(Schema[k].op) \in Frames
    BY <2>2 DEF Requests, Frames
  <2>5. Request(Schema[k].op).op = Schema[k].op /\ Request(Schema[k].op) # Local!Error
    BY <2>2 DEF Request, Local!Error
  <2>6. QED  BY <2>1, <2>3, <2>4, <2>5
<1>5. QED  BY <1>1, <1>2, <1>3, <1>4

-----------------------------------------------------------------------------
(* What a step leaves alone.                                               *)

LEMMA Counts ==
    ASSUME Types
    PROVE  /\ Len(handled) \in Nat /\ Len(replies) \in Nat /\ Len(todo) \in Nat
           /\ in.buf \in Seq(Requests) /\ Len(in.buf) \in Nat
           /\ up.buf \in Seq(Requests) /\ Len(up.buf) \in Nat
           /\ out.buf \in Seq(Frames) /\ Len(out.buf) \in Nat
           /\ down.buf \in Seq(Frames) /\ Len(down.buf) \in Nat
<1>1. /\ in.buf \in Seq(Requests) /\ up.buf \in Seq(Requests)
      /\ out.buf \in Seq(Frames) /\ down.buf \in Seq(Frames)
  BY DEF Types, Channel
<1>2. QED  BY <1>1, LenProperties DEF Types

LEMMA AskedType == Types /\ RequestsInv => Asked \in 0..5
<1> SUFFICES ASSUME Types, RequestsInv PROVE Asked \in 0..5
  OBVIOUS
<1>1. Len(handled) \in Nat /\ Len(in.buf) \in Nat /\ Len(up.buf) \in Nat
  BY Counts
<1>2. \A h, i, u \in Nat : h + i + u \in Nat
  OBVIOUS
<1>3. Asked \in Nat
  BY <1>1, <1>2, Zenon DEF Asked
<1>4. Asked <= 5
  BY DEF RequestsInv
<1>5. QED  BY <1>3, <1>4

\* A queue that loses its head, and one that gets another element.
LEMMA HeadTail ==
    ASSUME NEW S, NEW q \in Seq(S), q # <<>>
    PROVE  /\ Len(q) \in Nat /\ Len(q) > 0 /\ Head(q) = q[1] /\ Head(q) \in S
           /\ Tail(q) \in Seq(S) /\ Len(Tail(q)) = Len(q) - 1
           /\ \A i \in 1..Len(Tail(q)) : i + 1 \in 1..Len(q) /\ Tail(q)[i] = q[i + 1]
  BY HeadTailProperties, EmptySeq, LenProperties

LEMMA Behind ==
    ASSUME NEW S, NEW q \in Seq(S), NEW f \in S
    PROVE  /\ Append(q, f) \in Seq(S) /\ Len(Append(q, f)) = Len(q) + 1
           /\ \A i \in 1..Len(Append(q, f)) :
                 \/ i \in 1..Len(q) /\ Append(q, f)[i] = q[i]
                 \/ i = Len(q) + 1 /\ Append(q, f)[i] = f
<1>1. /\ Append(q, f) \in Seq(S) /\ Len(Append(q, f)) = Len(q) + 1
      /\ Append(q, f)[Len(q) + 1] = f /\ Len(q) \in Nat
      /\ \A i \in 1..Len(q) : Append(q, f)[i] = q[i]
  BY AppendProperties, LenProperties
<1>2. \A n \in Nat : \A i \in 1..(n + 1) : i \in 1..n \/ i = n + 1
  OBVIOUS
<1>3. QED  BY <1>1, <1>2

\* What was right stays right, through further failures too.
LEMMA RightStays ==
    ASSUME UNCHANGED script, faults \in Nat, faults' \in Nat, faults' >= faults
    PROVE  /\ \A i : Reply(i)' = Reply(i)
           /\ \A f, i : Right(f, i) => Right(f, i)'
<1>1. \A i : Reply(i)' = Reply(i)
  BY DEF Reply
<1>2. QED  BY <1>1 DEF Right

LEMMA RightIsFrame ==
    ASSUME script \in {CliScript, HelloScript}, NEW i \in 1..9, NEW f, Right(f, i)
    PROVE  f \in Frames
  BY ReplyFacts DEF Right, Frames

LEMMA RequestsStay ==
    ASSUME RequestsInv, UNCHANGED <<script, at, program, handled>>,
           in'.buf = in.buf, up'.buf = up.buf
    PROVE  RequestsInv'
  BY DEF RequestsInv, Asked

LEMMA FramesStay ==
    ASSUME FramesInv, UNCHANGED <<script, at, replies, todo>>,
           out'.buf = out.buf, down'.buf = down.buf,
           faults \in Nat, faults' \in Nat, faults' >= faults
    PROVE  FramesInv'
  BY RightStays DEF FramesInv

LEMMA ServerStays ==
    ASSUME ServerInv,
           UNCHANGED <<script, pc, outgoing, provider, served, handled, replies, plugin>>
    PROVE  ServerInv'
<1>1. \A i : Reply(i)' = Reply(i)
  BY DEF Reply
<1>2. QED  BY <1>1 DEF ServerInv, plugin

-----------------------------------------------------------------------------
(* The program.                                                            *)

\* When the program calls, all the server had to say was polled: it has read
\* every request, and this is the next.
LEMMA PushStep == Dialogue /\ faults \in Nat /\ Push => Dialogue'
<1> SUFFICES ASSUME Dialogue, faults \in Nat, Push PROVE Dialogue'
  OBVIOUS
<1>1. /\ Types /\ RequestsInv /\ FramesInv /\ ServerInv /\ ClosedInv
  BY DEF Dialogue
<1>2. /\ program = "next" /\ script[at].kind # "expect"
      /\ up' = Put(up, Request(script[at].what)) /\ program' \in {"timed", "wait"}
      /\ UNCHANGED <<server, in, out, down, plugin, script, at, failed, link, faults>>
  BY <1>1 DEF Push, Step
<1>3. at \in {2, 3, 5, 7, 9} /\ Request(script[at].what) \in Requests
  BY <1>1, <1>2, Scripts, ReplyFacts DEF Types
<1>4. /\ Len(handled) = Asked /\ Len(in.buf) = 0 /\ Len(up.buf) = 0
      /\ Asked \in 0..4 /\ at = Slot(Asked + 1)
  <2>1. Len(handled) \in Nat /\ Len(in.buf) \in Nat /\ Len(up.buf) \in Nat
    BY <1>1, Counts
  <2>2. at - 1 <= Len(replies) /\ Len(replies) < Slot(Len(handled) + 1)
        /\ Len(replies) \in Nat
    <3>1. /\ Len(down.buf) \in Nat /\ Len(out.buf) \in Nat /\ Len(replies) \in Nat
          /\ at \in 1..9
      BY <1>1, Counts DEF Types
    <3>2. Len(replies) = at - 1 + Len(down.buf) + Len(out.buf)
      BY <1>1 DEF FramesInv
    <3>3. at - 1 <= Len(replies)
      <4>1. \A a \in 1..9 : \A d, o \in Nat : a - 1 <= a - 1 + d + o
        OBVIOUS
      <4>2. QED  BY <3>1, <3>2, <4>1, Zenon
    <3>4. QED  BY <1>1, <3>1, <3>3 DEF ServerInv
  <2>3. Asked = Len(handled) + Len(in.buf) + Len(up.buf) /\ Asked <= 5
    BY <1>1 DEF RequestsInv, Asked
  <2>4. Slot(Asked) < at /\ at <= Slot(Asked + 1)
    BY <1>1, <1>2 DEF RequestsInv
  <2>5. /\ Asked \in 0..5 /\ Len(handled) \in 0..5 /\ Len(handled) <= Asked
        /\ Asked = Len(handled) => Len(in.buf) = 0 /\ Len(up.buf) = 0
    <3>1. \A h, i, u \in Nat : h + i + u <= 5 =>
              /\ h + i + u \in 0..5 /\ h \in 0..5 /\ h <= h + i + u
              /\ h + i + u = h => i = 0 /\ u = 0
      OBVIOUS
    <3>2. QED  BY <2>1, <2>3, <3>1, Zenon
  <2>6. at = Slot(Asked + 1) /\ Asked # 5
    BY <1>3, <2>4, <2>5 DEF Slot
  <2>7. Len(handled) = Asked
    BY <1>3, <2>2, <2>5, <2>6 DEF Slot
  <2>8. Asked \in 0..4
    BY <2>5, <2>6
  <2>9. QED  BY <2>5, <2>6, <2>7, <2>8
<1>5. /\ up' \in Channel(Requests) /\ up'.closed = up.closed
      /\ up'.buf = Append(up.buf, Request(script[at].what))
  BY <1>1, <1>2, <1>3, ChannelWrite, ChannelPutFields DEF Types
<1>6. Types'
  BY <1>1, <1>2, <1>5 DEF Types, server, plugin
<1>7. RequestsInv'
  <2>1. Len(up'.buf) = 1 /\ \A i \in 1..Len(up'.buf) : up'.buf[i] = Request(script[at].what)
    BY <1>1, <1>3, <1>4, <1>5, Behind, Counts
  <2>2. Asked' = Asked + 1
    <3>1. Asked' = Len(handled) + Len(in.buf) + Len(up'.buf)
      BY <1>2 DEF Asked, server
    <3>2. Asked' = Asked + 0 + 1
      BY <1>4, <2>1, <3>1
    <3>3. QED  BY <1>4, <3>2
  <2>3. QED  BY <1>1, <1>2, <1>4, <2>1, <2>2 DEF RequestsInv, server
<1>8. FramesInv' /\ ServerInv' /\ ClosedInv'
  BY <1>1, <1>2, <1>5, FramesStay, ServerStays DEF server, plugin, ClosedInv
<1>9. QED  BY <1>6, <1>7, <1>8 DEF Dialogue

\* The frame that is polled is the one this step is to receive, or an error.
LEMMA PolledIsRight ==
    ASSUME Dialogue, down.buf # <<>>
    PROVE  Right(Head(down.buf), at)
<1>1. down.buf \in Seq(Frames) /\ at \in 1..9
  BY Counts DEF Dialogue, Types
<1>2. 1 \in 1..Len(down.buf) /\ Head(down.buf) = down.buf[1] /\ at - 1 + 1 = at
  BY <1>1, HeadTail
<1>3. QED  BY <1>2 DEF Dialogue, FramesInv

LEMMA PollStep ==
    ASSUME Dialogue, faults \in Nat, Running, Poll
    PROVE  /\ Wanted(Head(down.buf))
           /\ failed' = failed \/ faults > 0
           /\ Running' => Dialogue'
<1>1. /\ Types /\ RequestsInv /\ FramesInv /\ ServerInv /\ ClosedInv
      /\ script \in {CliScript, HelloScript} /\ at \in 1..9 /\ Len(script) = 9
  BY Scripts DEF Dialogue, Types
<1>2. /\ down.buf # <<>> /\ down' = Take(down)
      /\ UNCHANGED <<server, in, out, up, plugin, script, link, faults>>
  BY DEF Poll, MayRead
<1>3. Right(Head(down.buf), at)
  BY <1>2, PolledIsRight
<1>4. Wanted(Head(down.buf))
  BY <1>1, <1>3, ReplyFacts DEF Right, Wanted, Step
<1>5. Expected(Head(down.buf)) \/ faults > 0
  BY <1>1, <1>3, ReplyFacts DEF Right, Expected, Step
<1>6. failed' = failed \/ faults > 0
  BY <1>5 DEF Poll, Proceed
<1>7. ASSUME Running' PROVE Dialogue'
  <2>1. Proceed /\ program' = "next" /\ at' = at + 1 /\ at \in 1..8
    BY <1>1, <1>7 DEF Poll, Proceed, Running
  <2>2. /\ down.buf \in Seq(Frames) /\ Len(down.buf) \in Nat /\ Len(down.buf) > 0
        /\ down'.buf = Tail(down.buf) /\ Len(down'.buf) = Len(down.buf) - 1
        /\ \A i \in 1..Len(down'.buf) : i + 1 \in 1..Len(down.buf)
                                       /\ down'.buf[i] = down.buf[i + 1]
    <3>1. down.buf \in Seq(Frames) /\ down'.buf = Tail(down.buf)
      BY <1>1, <1>2, Counts, ChannelFields DEF Types
    <3>2. QED  BY <1>2, <3>1, HeadTail
  <2>3. down' \in Channel(Frames) /\ down'.closed = down.closed
    <3>1. down \in Channel(Frames) /\ MayRead(down)
      BY <1>1, <1>2 DEF Types, MayRead
    <3>2. QED  BY <1>2, <3>1, ChannelRead, ChannelFields
  <2>4. Types'
    BY <1>1, <1>2, <2>1, <2>3 DEF Types, server, plugin
  <2>5. RequestsInv'
    <3>1. Asked' = Asked /\ Asked \in 0..5
      <4>1. Asked' = Asked
        BY <1>2 DEF Asked, server
      <4>2. QED  BY <1>1, <4>1, AskedType
    <3>2. program = "next" => at \in {1, 4, 6, 8}
      BY <1>1, Scripts DEF Poll, Polls, Step
    <3>3. Slot(Asked) < at + 1 /\ at + 1 <= Slot(Asked + 1)
      <4>1. CASE program = "next"
        <5>1. Slot(Asked) < at /\ at <= Slot(Asked + 1)
          BY <1>1, <4>1 DEF RequestsInv
        <5>2. QED  BY <2>1, <3>1, <3>2, <4>1, <5>1 DEF Slot
      <4>2. CASE program # "next"
        <5>1. Asked > 0 /\ at = Slot(Asked)
          BY <1>1, <4>2 DEF RequestsInv
        <5>2. QED  BY <2>1, <3>1, <5>1 DEF Slot
      <4>3. QED  BY <4>1, <4>2
    <3>4. QED  BY <1>1, <1>2, <2>1, <3>1, <3>3 DEF RequestsInv, server
  <2>6. FramesInv'
    <3>1. \A f, i : Right(f, i) => Right(f, i)'
      BY <1>2, RightStays
    <3>2. ASSUME NEW i \in 1..Len(down'.buf) PROVE Right(down'.buf[i], at' - 1 + i)
      <4>1. Right(down.buf[i + 1], at - 1 + (i + 1))
        BY <1>1, <2>2 DEF FramesInv
      <4>2. at - 1 + (i + 1) = at' - 1 + i
        BY <1>1, <2>1, <2>2
      <4>3. QED  BY <2>2, <4>1, <4>2
    <3>3. /\ Len(out.buf) \in Nat /\ Len(replies) \in Nat
          /\ at' - 1 + Len(down'.buf) = at - 1 + Len(down.buf)
      BY <1>1, <2>1, <2>2, Counts
    <3>4. Len(replies) = at' - 1 + Len(down'.buf) + Len(out.buf)
      BY <1>1, <3>3 DEF FramesInv
    <3>5. QED  BY <1>1, <1>2, <3>1, <3>2, <3>3, <3>4 DEF FramesInv, server, plugin
  <2>7. ServerInv' /\ ClosedInv'
    BY <1>1, <1>2, <2>3, ServerStays DEF server, plugin, ClosedInv
  <2>8. QED  BY <2>4, <2>5, <2>6, <2>7 DEF Dialogue
<1>8. QED  BY <1>4, <1>6, <1>7

\* A poll that times out is followed by another for the same frame.
LEMMA TimeoutStep == Dialogue /\ faults \in Nat /\ PollTimesOut => Dialogue'
<1> SUFFICES ASSUME Dialogue, faults \in Nat, PollTimesOut PROVE Dialogue'
  OBVIOUS
<1>1. /\ program = "timed" /\ program' = "wait"
      /\ UNCHANGED <<server, in, out, up, down, plugin, script, at, failed, link, faults>>
  BY DEF PollTimesOut, channels
<1>2. RequestsInv'
  BY <1>1 DEF Dialogue, RequestsInv, Asked, server
<1>3. Types' /\ ClosedInv'
  BY <1>1 DEF Dialogue, Types, ClosedInv, server, plugin
<1>4. QED  BY <1>1, <1>2, <1>3, FramesStay, ServerStays DEF Dialogue, server, plugin

\* An exception of the streams has a reason.
LEMMA ThrowStep ==
    ASSUME Dialogue, faults \in Nat, PushThrows \/ PollThrows
    PROVE  faults > 0 /\ faults' = faults /\ ~Running'
  BY DEF Dialogue, ClosedInv, PushThrows, PollThrows, Throw, Running

\* A program that leaves is not asked any more.
LEMMA LeaveStep == CloseIo \/ JoinIo => ~Running' /\ UNCHANGED <<failed, faults>>
  BY DEF CloseIo, JoinIo, Running

-----------------------------------------------------------------------------
(* The link.                                                               *)

\* It moves a request towards the server, whose next one that is,
LEMMA LinkUpStep == Dialogue /\ faults \in Nat /\ LinkUp => Dialogue'
<1> SUFFICES ASSUME Dialogue, faults \in Nat, LinkUp PROVE Dialogue'
  OBVIOUS
<1>1. Types /\ RequestsInv /\ FramesInv /\ ServerInv /\ ClosedInv
  BY DEF Dialogue
<1>2. /\ up.buf # <<>> /\ up' = Take(up) /\ in' = Put(in, Head(up.buf))
      /\ UNCHANGED <<server, out, down, plugin, client, link, faults>>
  BY DEF LinkUp, MayRead
<1>3. /\ in \in Channel(Requests) /\ up \in Channel(Requests)
      /\ in.buf \in Seq(Requests) /\ up.buf \in Seq(Requests)
      /\ Len(in.buf) \in Nat /\ Len(up.buf) \in Nat /\ Len(handled) \in Nat
  BY <1>1, Counts DEF Types
<1>4. /\ Head(up.buf) = up.buf[1] /\ Head(up.buf) \in Requests /\ Len(up.buf) > 0
      /\ Len(Tail(up.buf)) = Len(up.buf) - 1
  BY <1>2, <1>3, HeadTail
<1>5. /\ up'.buf = Tail(up.buf) /\ up'.closed = up.closed /\ up' \in Channel(Requests)
  BY <1>2, <1>3, ChannelRead, ChannelFields DEF MayRead
<1>6. /\ in'.buf = Append(in.buf, Head(up.buf)) /\ in'.closed = in.closed
      /\ in' \in Channel(Requests)
  BY <1>2, <1>3, <1>4, ChannelWrite, ChannelPutFields
<1>7. Len(up.buf) = 1 /\ Len(in.buf) = 0
  <2>1. Len(in.buf) + Len(up.buf) <= 1
    BY <1>1 DEF RequestsInv
  <2>2. \A i, u \in Nat : i + u <= 1 /\ u > 0 => u = 1 /\ i = 0
    OBVIOUS
  <2>3. QED  BY <1>3, <1>4, <2>1, <2>2, Zenon
<1>8. /\ Len(up'.buf) = 0 /\ Len(in'.buf) = 1
      /\ \A i \in 1..Len(in'.buf) : in'.buf[i] = Head(up.buf)
  BY <1>3, <1>4, <1>5, <1>6, <1>7, Behind
<1>9. Head(up.buf) = Request(script[Slot(Len(handled) + 1)].what)
  <2>1. 1 \in 1..Len(up.buf)
    BY <1>7
  <2>2. QED  BY <1>1, <1>4, <2>1 DEF RequestsInv
<1>10. RequestsInv'
  <2>1. Asked' = Asked
    BY <1>2, <1>3, <1>7, <1>8 DEF Asked, server
  <2>2. Len(in'.buf) + Len(up'.buf) <= 1
    BY <1>8
  <2>3. QED  BY <1>1, <1>2, <1>8, <1>9, <2>1, <2>2 DEF RequestsInv, server, client
<1>11. Types' /\ ClosedInv'
  BY <1>1, <1>2, <1>5, <1>6 DEF Types, ClosedInv, server, plugin, client
<1>12. FramesInv' /\ ServerInv'
  BY <1>1, <1>2, FramesStay, ServerStays DEF server, plugin, client
<1>13. QED  BY <1>10, <1>11, <1>12 DEF Dialogue

\* and a frame towards the program, behind those that are there.
LEMMA LinkDownStep == Dialogue /\ faults \in Nat /\ LinkDown => Dialogue'
<1> SUFFICES ASSUME Dialogue, faults \in Nat, LinkDown PROVE Dialogue'
  OBVIOUS
<1>1. Types /\ RequestsInv /\ FramesInv /\ ServerInv /\ ClosedInv
  BY DEF Dialogue
<1>2. /\ out.buf # <<>> /\ out' = Take(out) /\ down' = Put(down, Head(out.buf))
      /\ UNCHANGED <<server, in, up, plugin, client, link, faults>>
  BY DEF LinkDown, MayRead
<1>3. /\ out \in Channel(Frames) /\ down \in Channel(Frames)
      /\ out.buf \in Seq(Frames) /\ down.buf \in Seq(Frames)
      /\ Len(out.buf) \in Nat /\ Len(down.buf) \in Nat /\ Len(replies) \in Nat
      /\ at \in 1..9
  BY <1>1, Counts DEF Types
<1>4. /\ Head(out.buf) = out.buf[1] /\ Head(out.buf) \in Frames /\ Len(out.buf) > 0
      /\ Len(Tail(out.buf)) = Len(out.buf) - 1
      /\ \A i \in 1..Len(Tail(out.buf)) : i + 1 \in 1..Len(out.buf)
                                         /\ Tail(out.buf)[i] = out.buf[i + 1]
  BY <1>2, <1>3, HeadTail
<1>5. /\ out'.buf = Tail(out.buf) /\ out'.closed = out.closed /\ out' \in Channel(Frames)
  BY <1>2, <1>3, ChannelRead, ChannelFields DEF MayRead
<1>6. /\ down'.buf = Append(down.buf, Head(out.buf)) /\ down'.closed = down.closed
      /\ down' \in Channel(Frames)
  BY <1>2, <1>3, <1>4, ChannelWrite, ChannelPutFields
<1>7. /\ Len(down'.buf) = Len(down.buf) + 1
      /\ \A i \in 1..Len(down'.buf) :
            \/ i \in 1..Len(down.buf) /\ down'.buf[i] = down.buf[i]
            \/ i = Len(down.buf) + 1 /\ down'.buf[i] = Head(out.buf)
  BY <1>3, <1>4, <1>6, Behind
<1>8. FramesInv'
  <2>1. \A f, i : Right(f, i) => Right(f, i)'
    BY <1>2, RightStays DEF client
  <2>2. ASSUME NEW i \in 1..Len(down'.buf) PROVE Right(down'.buf[i], at - 1 + i)
    <3>1. CASE i \in 1..Len(down.buf) /\ down'.buf[i] = down.buf[i]
      BY <1>1, <3>1 DEF FramesInv
    <3>2. CASE i = Len(down.buf) + 1 /\ down'.buf[i] = Head(out.buf)
      <4>1. 1 \in 1..Len(out.buf)
        BY <1>3, <1>4
      <4>2. Right(out.buf[1], at - 1 + Len(down.buf) + 1)
        BY <1>1, <4>1 DEF FramesInv
      <4>3. at - 1 + Len(down.buf) + 1 = at - 1 + i
        BY <1>3, <3>2
      <4>4. QED  BY <1>4, <3>2, <4>2, <4>3
    <3>3. QED  BY <1>7, <3>1, <3>2
  <2>3. ASSUME NEW i \in 1..Len(out'.buf)
        PROVE  Right(out'.buf[i], at - 1 + Len(down'.buf) + i)
    <3>1. i + 1 \in 1..Len(out.buf) /\ out'.buf[i] = out.buf[i + 1]
      BY <1>4, <1>5
    <3>2. Right(out.buf[i + 1], at - 1 + Len(down.buf) + (i + 1))
      BY <1>1, <3>1 DEF FramesInv
    <3>3. at - 1 + Len(down.buf) + (i + 1) = at - 1 + Len(down'.buf) + i
      <4>1. \A a \in 1..9 : \A d, o \in Nat : \A j \in 1..o :
                a - 1 + d + (j + 1) = a - 1 + (d + 1) + j
        OBVIOUS
      <4>2. Len(out'.buf) \in Nat
        BY <1>3, <1>5, LenProperties DEF Channel
      <4>3. /\ Len(down'.buf) = Len(down.buf) + 1 /\ Len(down.buf) \in Nat
            /\ at \in 1..9
        BY <1>3, <1>7
      <4>4. at - 1 + Len(down.buf) + (i + 1) = at - 1 + (Len(down.buf) + 1) + i
        BY <4>1, <4>2, <4>3, Zenon
      <4>5. QED  BY <4>3, <4>4, Zenon
    <3>4. QED  BY <3>1, <3>2, <3>3
  <2>4. Len(replies) = at - 1 + Len(down'.buf) + Len(out'.buf)
    <3>1. Len(replies) = at - 1 + Len(down.buf) + Len(out.buf)
      BY <1>1 DEF FramesInv
    <3>2. Len(down'.buf) = Len(down.buf) + 1 /\ Len(out'.buf) = Len(out.buf) - 1
      BY <1>4, <1>5, <1>7
    <3>3. \A a \in 1..9 : \A d, o \in Nat : a - 1 + d + o = a - 1 + (d + 1) + (o - 1)
      OBVIOUS
    <3>4. QED  BY <1>3, <3>1, <3>2, <3>3, Zenon
  <2>5. QED  BY <1>1, <1>2, <2>1, <2>2, <2>3, <2>4 DEF FramesInv, server, plugin, client
<1>9. Types' /\ ClosedInv'
  BY <1>1, <1>2, <1>5, <1>6 DEF Types, ClosedInv, server, plugin, client
<1>10. RequestsInv' /\ ServerInv'
  BY <1>1, <1>2, RequestsStay, ServerStays DEF server, plugin, client
<1>11. QED  BY <1>8, <1>9, <1>10 DEF Dialogue

\* Closing and failing leave the frames alone; the provider may have some more.
LEMMA QuietStep ==
    ASSUME Dialogue, faults \in Nat, faults' \in Nat, faults' >= faults,
           UNCHANGED <<handled, replies, client>>,
           \/ UNCHANGED todo
           \/ /\ todo' \in Seq(Frames)
              /\ (\A i \in 1..Len(todo) : Right(todo[i], Len(replies) + i))',
           in' \in {in, Close(in)}, out' \in {out, Close(out)},
           up' \in {up, Close(up)}, down' \in {down, Close(down)},
           faults' > 0 \/ (UNCHANGED <<channels, link>> /\ aio' # "failed")
    PROVE  Types' /\ RequestsInv' /\ FramesInv' /\ ClosedInv'
<1>1. Types /\ RequestsInv /\ FramesInv /\ ServerInv /\ ClosedInv
  BY DEF Dialogue
<1>2. /\ in' \in Channel(Requests) /\ in'.buf = in.buf
      /\ up' \in Channel(Requests) /\ up'.buf = up.buf
      /\ out' \in Channel(Frames) /\ out'.buf = out.buf
      /\ down' \in Channel(Frames) /\ down'.buf = down.buf
  <2>1. /\ in \in Channel(Requests) /\ up \in Channel(Requests)
        /\ out \in Channel(Frames) /\ down \in Channel(Frames)
    BY <1>1 DEF Types
  <2>2. \A F : \A c \in Channel(F) : Close(c) \in Channel(F) /\ Close(c).buf = c.buf
    BY ChannelFlags, ChannelFields
  <2>3. QED  BY <2>1, <2>2
<1>3. Types'
  BY <1>1, <1>2 DEF Types, client
<1>4. RequestsInv'
  BY <1>1, <1>2, RequestsStay DEF client
<1>5. FramesInv'
  <2>1. \A f, i : Right(f, i) => Right(f, i)'
    BY RightStays DEF client
  <2>2. QED  BY <1>1, <1>2, <2>1 DEF FramesInv, client
<1>6. ClosedInv'
  BY <1>1 DEF ClosedInv, channels
<1>7. QED  BY <1>3, <1>4, <1>5, <1>6

\* The link closes after something else did, or fails.
LEMMA LinkClosesStep ==
    ASSUME Dialogue, faults \in Nat, LinkOpens \/ LinkEnds \/ LinkLost
    PROVE  Dialogue' /\ faults' \in Nat /\ faults' >= faults
<1>1. CASE LinkOpens
  <2>1. /\ UNCHANGED <<server, channels, plugin, client, faults>> /\ link' = "open"
    BY <1>1 DEF LinkOpens
  <2>2. Types' /\ ClosedInv'
    BY <2>1 DEF Dialogue, Types, ClosedInv, server, channels, plugin, client
  <2>3. QED  BY <2>1, <2>2, RequestsStay, FramesStay, ServerStays
             DEF Dialogue, server, channels, plugin, client
<1>2. CASE LinkEnds \/ LinkLost
  <2>1. /\ faults' \in Nat /\ faults' >= faults /\ faults' > 0
    BY <1>2 DEF LinkEnds, LinkLost, Fault, Dialogue, ClosedInv
  <2>2. LinkCloses
    BY <1>2 DEF LinkEnds, LinkLost
  <2>3. Types' /\ RequestsInv' /\ FramesInv' /\ ClosedInv'
    BY <2>1, <2>2, QuietStep DEF LinkCloses, server, plugin
  <2>4. ServerInv'
    BY <2>2, ServerStays DEF Dialogue, LinkCloses, server, client
  <2>5. QED  BY <2>1, <2>3, <2>4 DEF Dialogue
<1>3. QED  BY <1>1, <1>2

-----------------------------------------------------------------------------
(* The server.                                                             *)

LEMMA SlotTable ==
    /\ Slot(1) = 2 /\ Slot(2) = 3 /\ Slot(3) = 5 /\ Slot(4) = 7 /\ Slot(5) = 9 /\ Slot(6) = 10
    /\ \A h \in Nat : Slot(h + 1) \in 2..10
    /\ \A h \in {0, 1, 2} : h + 1 < Slot(h + 1)
    /\ \A h \in {0, 1} : Slot(h + 1) = IF h = 0 THEN 2 ELSE 3
    /\ \A h \in 2..4 : Slot(h + 1) = 2 * h + 1
    /\ \A h \in 2..4 : Slot(h + 1 + 1) = IF h = 4 THEN 10 ELSE 2 * h + 3
  BY DEF Slot

\* It writes the frame for the next step behind those that are on their way.
LEMMA SpeakStep ==
    ASSUME Dialogue, faults \in Nat, NEW f, Right(f, Len(replies) + 1),
           Len(replies) + 1 < Slot(Len(handled) + 1),
           UNCHANGED <<handled, in, up, down, client, link, faults>>,
           out' \in {Put(out, f), PutAndWake(out, f)},
           replies' = Append(replies, f),
           todo' \in Seq(Frames),
           \A i \in 1..Len(todo') : Right(todo'[i], Len(replies) + 1 + i),
           aio' = aio \/ aio' = "none"
    PROVE  /\ Types' /\ RequestsInv' /\ FramesInv' /\ ClosedInv'
           /\ Len(replies') = Len(replies) + 1
<1>1. Types /\ RequestsInv /\ FramesInv /\ ServerInv /\ ClosedInv
  BY DEF Dialogue
<1>2. /\ Len(replies) \in Nat /\ Len(handled) \in Nat /\ Len(out.buf) \in Nat
      /\ Len(down.buf) \in Nat /\ out.buf \in Seq(Frames)
  BY <1>1, Counts
<1>3. /\ out \in Channel(Frames) /\ replies \in Seq(Frames) /\ at \in 1..9
      /\ script \in {CliScript, HelloScript}
  BY <1>1 DEF Types
<1>4. f \in Frames
  <2>1. Slot(Len(handled) + 1) \in 2..10
    BY <1>2, SlotTable
  <2>2. \A r \in Nat : \A s \in 2..10 : r + 1 < s => r + 1 \in 1..9
    OBVIOUS
  <2>3. Len(replies) + 1 \in 1..9
    BY <1>2, <2>1, <2>2
  <2>4. QED  BY <1>3, <2>3, RightIsFrame
<1>5. /\ out' \in Channel(Frames) /\ out'.closed = out.closed
      /\ out'.buf = Append(out.buf, f)
  <2>1. CASE out' = Put(out, f)
    BY <1>3, <1>4, <2>1, ChannelWrite, ChannelPutFields
  <2>2. CASE out' = PutAndWake(out, f)
    BY <1>3, <1>4, <2>2, ChannelWrite, ChannelPutFields
  <2>3. QED  BY <2>1, <2>2
<1>6. replies' \in Seq(Frames) /\ Len(replies') = Len(replies) + 1
  BY <1>3, <1>4, Behind
<1>7. /\ Len(out'.buf) = Len(out.buf) + 1
      /\ \A i \in 1..Len(out'.buf) :
            \/ i \in 1..Len(out.buf) /\ out'.buf[i] = out.buf[i]
            \/ i = Len(out.buf) + 1 /\ out'.buf[i] = f
  BY <1>2, <1>4, <1>5, Behind
<1>8. Types'
  BY <1>1, <1>5, <1>6 DEF Types, client
<1>9. RequestsInv'
  BY <1>1, RequestsStay DEF client
<1>10. FramesInv'
  <2>1. \A g, i : Right(g, i) => Right(g, i)'
    BY RightStays DEF client
  <2>2. Len(replies) = at - 1 + Len(down.buf) + Len(out.buf)
    BY <1>1 DEF FramesInv
  <2>3. \A a \in 1..9 : \A d, o \in Nat : (a - 1 + d + o) + 1 = a - 1 + d + (o + 1)
    OBVIOUS
  <2>4. Len(replies') = at - 1 + Len(down.buf) + Len(out'.buf)
    <3>0. (at - 1 + Len(down.buf) + Len(out.buf)) + 1
            = at - 1 + Len(down.buf) + (Len(out.buf) + 1)
      BY <1>2, <1>3, <2>3, Zenon
    <3>1. Len(replies) + 1 = at - 1 + Len(down.buf) + (Len(out.buf) + 1)
      BY <2>2, <3>0
    <3>2. Len(replies') = Len(replies) + 1 /\ Len(out'.buf) = Len(out.buf) + 1
      BY <1>6, <1>7
    <3>3. QED  BY <3>1, <3>2
  <2>5. ASSUME NEW i \in 1..Len(out'.buf) PROVE Right(out'.buf[i], at - 1 + Len(down.buf) + i)
    <3>1. CASE i \in 1..Len(out.buf) /\ out'.buf[i] = out.buf[i]
      BY <1>1, <3>1 DEF FramesInv
    <3>2. CASE i = Len(out.buf) + 1 /\ out'.buf[i] = f
      BY <1>6, <1>7, <2>4, <3>2
    <3>3. QED  BY <1>7, <3>1, <3>2
  <2>6. \A i \in 1..Len(todo') : Right(todo'[i], Len(replies') + i)
    BY <1>6
  <2>7. QED  BY <1>1, <2>1, <2>4, <2>5, <2>6 DEF FramesInv, client
<1>11. ClosedInv'
  BY <1>1, <1>5 DEF ClosedInv
<1>12. QED  BY <1>6, <1>8, <1>9, <1>10, <1>11

\* A request that it reads is the next one of the script, and the program has
\* polled, or has on their way, all the frames before the answer.
LEMMA NextRequest ==
    ASSUME Dialogue, in.buf # <<>>
    PROVE  /\ Len(handled) \in 0..4 /\ Len(in.buf) = 1 /\ Len(up.buf) = 0
           /\ Head(in.buf) = Request(script[Slot(Len(handled) + 1)].what)
           /\ Len(replies) = Slot(Len(handled) + 1) - 1
<1>1. Types /\ RequestsInv /\ FramesInv /\ ServerInv
  BY DEF Dialogue
<1>2. /\ Len(handled) \in Nat /\ Len(in.buf) \in Nat /\ Len(up.buf) \in Nat
      /\ in.buf \in Seq(Requests) /\ Len(replies) \in Nat
      /\ Len(down.buf) \in Nat /\ Len(out.buf) \in Nat
  BY <1>1, Counts
<1>3. Len(in.buf) > 0 /\ Head(in.buf) = in.buf[1]
  BY <1>2, HeadTail
<1>4. Len(in.buf) = 1 /\ Len(up.buf) = 0
  <2>1. Len(in.buf) + Len(up.buf) <= 1
    BY <1>1 DEF RequestsInv
  <2>2. \A i, u \in Nat : i + u <= 1 /\ i > 0 => i = 1 /\ u = 0
    OBVIOUS
  <2>3. QED  BY <1>2, <1>3, <2>1, <2>2, Zenon
<1>5. Asked = Len(handled) + 1 /\ Asked \in 0..5 /\ Len(handled) \in 0..4
  <2>1. Asked = Len(handled) + 1 + 0
    BY <1>4, Zenon DEF Asked
  <2>2. Asked = Len(handled) + 1
    BY <1>2, <2>1
  <2>3. Asked \in 0..5
    BY <1>1, AskedType
  <2>4. \A h \in Nat : h + 1 \in 0..5 => h \in 0..4
    OBVIOUS
  <2>5. QED  BY <1>2, <2>2, <2>3, <2>4, Zenon
<1>6. Head(in.buf) = Request(script[Slot(Len(handled) + 1)].what)
  <2>1. 1 \in 1..Len(in.buf)
    BY <1>4
  <2>2. QED  BY <1>1, <1>3, <2>1 DEF RequestsInv
<1>7. Len(replies) >= at - 1
  <2>1. \A a \in 1..9 : \A d, o \in Nat : a - 1 + d + o >= a - 1
    OBVIOUS
  <2>2. Len(replies) = at - 1 + Len(down.buf) + Len(out.buf) /\ at \in 1..9
    BY <1>1 DEF FramesInv, Types
  <2>3. QED  BY <1>2, <2>1, <2>2
<1>8. Len(replies) < Slot(Len(handled) + 1) /\ Slot(Len(handled) + 1) \in 2..10
  BY <1>1, <1>2, SlotTable DEF ServerInv
<1>9. at >= Slot(Len(handled) + 1) /\ at \in 1..9
  BY <1>1, <1>5, <1>8 DEF RequestsInv, Types
<1>10. Len(replies) = Slot(Len(handled) + 1) - 1
  <2>1. \A a \in 1..9 : \A r \in Nat : \A s \in 2..10 :
            r >= a - 1 /\ r < s /\ a >= s => r = s - 1
    OBVIOUS
  <2>2. QED  BY <1>2, <1>7, <1>8, <1>9, <2>1
<1>11. QED  BY <1>4, <1>5, <1>6, <1>10

LEMMA HearStep ==
    ASSUME Dialogue, faults \in Nat, faults' \in Nat, faults' >= faults, in.buf # <<>>,
           UNCHANGED <<replies, out, up, down, client, link>>,
           in' \in {Take(in), TakeAndWake(in)},
           handled' = Append(handled, Head(in.buf)),
           todo' \in Seq(Frames),
           (\A i \in 1..Len(todo) : Right(todo[i], Len(replies) + i))',
           aio = "failed" \/ aio' # "failed"
    PROVE  /\ Types' /\ RequestsInv' /\ FramesInv' /\ ClosedInv'
           /\ Len(handled') = Len(handled) + 1
<1>1. Types /\ RequestsInv /\ FramesInv /\ ServerInv /\ ClosedInv
  BY DEF Dialogue
<1>2. /\ in \in Channel(Requests) /\ in.buf \in Seq(Requests) /\ handled \in Seq(Requests)
      /\ Len(handled) \in Nat
  BY <1>1, Counts DEF Types
<1>3. /\ Len(handled) \in 0..4 /\ Len(in.buf) = 1 /\ Len(up.buf) = 0
      /\ Head(in.buf) = Request(script[Slot(Len(handled) + 1)].what)
  BY NextRequest
<1>4. Head(in.buf) \in Requests /\ Len(Tail(in.buf)) = Len(in.buf) - 1
  BY <1>2, HeadTail
<1>5. /\ in' \in Channel(Requests) /\ in'.closed = in.closed /\ in'.buf = Tail(in.buf)
  <2>1. MayRead(in)
    BY DEF MayRead
  <2>2. QED  BY <1>2, <2>1, ChannelRead, ChannelFields
<1>6. Len(in'.buf) = 0
  BY <1>3, <1>4, <1>5
<1>7. /\ handled' \in Seq(Requests) /\ Len(handled') = Len(handled) + 1
      /\ \A i \in 1..Len(handled') :
            \/ i \in 1..Len(handled) /\ handled'[i] = handled[i]
            \/ i = Len(handled) + 1 /\ handled'[i] = Head(in.buf)
  BY <1>2, <1>4, Behind
<1>8. Types'
  BY <1>1, <1>5, <1>7 DEF Types, client
<1>9. RequestsInv'
  <2>1. Asked' = Asked
    <3>1. Asked = Len(handled) + 1 + 0 /\ Asked' = (Len(handled) + 1) + 0 + 0
      BY <1>3, <1>6, <1>7, Zenon DEF Asked
    <3>2. QED  BY <1>2, <3>1
  <2>2. \A i \in 1..Len(handled') : handled'[i] = Request(script[Slot(i)].what)
    BY <1>1, <1>3, <1>7 DEF RequestsInv
  <2>3. Len(in'.buf) + Len(up'.buf) <= 1
    BY <1>3, <1>6
  <2>4. QED  BY <1>1, <1>3, <1>6, <2>1, <2>2, <2>3 DEF RequestsInv, client
<1>10. FramesInv'
  <2>1. \A f, i : Right(f, i) => Right(f, i)'
    BY RightStays DEF client
  <2>2. QED  BY <1>1, <2>1 DEF FramesInv, client
<1>11. ClosedInv'
  BY <1>1, <1>5 DEF ClosedInv
<1>12. QED  BY <1>7, <1>8, <1>9, <1>10, <1>11

-----------------------------------------------------------------------------
(* The coroutine, step by step.                                            *)

\* What it pushes is for the next step: it was all there was to say.
LEMMA CoroutinePush == Dialogue /\ faults \in Nat /\ Local!Push /\ CoroutineStep => Dialogue'
<1> SUFFICES ASSUME Dialogue, faults \in Nat, Local!Push, CoroutineStep PROVE Dialogue'
  OBVIOUS
<1>1. Types /\ ServerInv /\ Len(handled) \in Nat /\ script \in {CliScript, HelloScript}
  BY Counts DEF Dialogue, Types
<1>2. /\ pc = "push" /\ out' = PutAndWake(out, outgoing)
      /\ replies' = Append(replies, outgoing) /\ aio' = "none"
      /\ pc' = IF outgoing = Local!Ack THEN "attach" ELSE "poll"
      /\ UNCHANGED <<provider, in, handled, served, plugin, faults, up, down, client, link>>
  BY DEF Local!Push, Local!PutAndWake, PutAndWake, CoroutineStep, Serves
<1>3. /\ provider = "none" /\ served = Len(handled) /\ served \in {0, 1, 2} /\ state = 1
      /\ todo = <<>> /\ Len(replies) = Len(handled) /\ outgoing = Reply(Len(handled) + 1)
  <2>1. provider = "none"
    BY <1>1, <1>2 DEF ServerInv
  <2>2. /\ served = Len(handled) /\ served <= 2 /\ state = 1 /\ todo = <<>>
        /\ Len(replies) = served /\ outgoing = Reply(served + 1)
    BY <1>1, <1>2, <2>1 DEF ServerInv
  <2>3. QED  BY <1>1, <2>1, <2>2
<1>4. Len(handled) + 1 < Slot(Len(handled) + 1)
  BY <1>3, SlotTable
<1>5. Types' /\ RequestsInv' /\ FramesInv' /\ ClosedInv' /\ Len(replies') = Len(replies) + 1
  <2>1. Right(outgoing, Len(replies) + 1)
    BY <1>3 DEF Right
  <2>2. todo' \in Seq(Frames) /\ Len(todo') = 0
    BY <1>1, <1>2, <1>3 DEF plugin, Types
  <2>3. \A i \in 1..Len(todo') : Right(todo'[i], Len(replies) + 1 + i)
    BY <2>2
  <2>4. QED  BY <1>2, <1>3, <1>4, <2>1, <2>2, <2>3, SpeakStep
<1>6. pc' = "attach" <=> Len(handled) = 2
  <2>1. Reply(1) = Local!State("s:acord") /\ Reply(2) = Local!Assets /\ Reply(3) = Local!Ack
    BY <1>1, RepliesOfScript
  <2>2. Local!State("s:acord") # Local!Ack /\ Local!Assets # Local!Ack
    BY DEF Local!State, Local!Assets, Local!Ack, Local!LoadProvider, Local!MakeAssets
  <2>3. QED  BY <1>2, <1>3, <2>1, <2>2
<1>7. ServerInv'
  BY <1>2, <1>3, <1>4, <1>5, <1>6 DEF ServerInv, plugin
<1>8. QED  BY <1>5, <1>7 DEF Dialogue

\* It returns after a failure only.
LEMMA CoroutineClosed == Dialogue /\ faults \in Nat /\ Local!Closed /\ CoroutineStep => Dialogue'
<1> SUFFICES ASSUME Dialogue, faults \in Nat, Local!Closed, CoroutineStep PROVE Dialogue'
  OBVIOUS
<1>1. Types /\ ServerInv /\ ClosedInv
  BY DEF Dialogue
<1>2. /\ pc \in {"throw", "push", "poll", "assetsState", "assetsResult"}
      /\ pc = "throw" \/ out.closed \/ in.closed \/ aio = "failed"
      /\ pc' = "done" /\ in' = Close(in) /\ out' = Close(out)
      /\ UNCHANGED <<provider, handled, replies, served, plugin, faults, up, down, client, link>>
  BY DEF Local!Closed, Local!Return, Local!Close, Close, CoroutineStep, Serves
<1>3. faults > 0
  BY <1>1, <1>2 DEF ServerInv, ClosedInv
<1>4. Types' /\ RequestsInv' /\ FramesInv' /\ ClosedInv'
  BY <1>2, <1>3, QuietStep DEF plugin
<1>5. ServerInv'
  BY <1>1, <1>2 DEF ServerInv, plugin, client
<1>6. QED  BY <1>4, <1>5 DEF Dialogue

\* What it reads is one of the two first requests of the script.
LEMMA CoroutinePolls ==
    ASSUME Dialogue, NEW f, Local!Poll(f), CoroutineStep
    PROVE  /\ provider = "none" /\ served = Len(handled) /\ served \in {0, 1} /\ state = 1
           /\ todo = <<>> /\ Len(replies) = Len(handled) + 1 /\ in.buf # <<>>
           /\ f = Head(in.buf) /\ handled' = Append(handled, f) /\ served' = served + 1
           /\ UNCHANGED <<provider, replies, plugin, faults, up, down, client, link>>
           /\ f = IF served = 0 THEN Request(Local!MakeAssets) ELSE Request(Local!LoadProvider)
<1>1. Types /\ ServerInv /\ Len(handled) \in Nat /\ script \in {CliScript, HelloScript}
  BY Counts DEF Dialogue, Types
<1>2. /\ pc = "poll" /\ in.buf # <<>> /\ f = Head(in.buf)
      /\ handled' = Append(handled, f) /\ served' = served + 1
      /\ UNCHANGED <<provider, replies, plugin, faults, up, down, client, link>>
  BY DEF Local!Poll, Local!MayRead, CoroutineStep, Serves
<1>3. /\ provider = "none" /\ served = Len(handled) /\ served \in {0, 1} /\ state = 1
      /\ todo = <<>> /\ Len(replies) = Len(handled) + 1
  <2>1. provider = "none"
    BY <1>1, <1>2 DEF ServerInv
  <2>2. /\ served = Len(handled) /\ served <= 1 /\ state = 1 /\ todo = <<>>
        /\ Len(replies) = served + 1
    BY <1>1, <1>2, <2>1 DEF ServerInv
  <2>3. QED  BY <1>1, <2>1, <2>2
<1>4. f = Request(script[Slot(Len(handled) + 1)].what)
  BY <1>2, NextRequest
<1>5. script[2].what = Local!MakeAssets /\ script[3].what = Local!LoadProvider
  BY <1>1, Scripts
<1>6. f = IF served = 0 THEN Request(Local!MakeAssets) ELSE Request(Local!LoadProvider)
  BY <1>3, <1>4, <1>5, SlotTable
<1>7. QED  BY <1>2, <1>3, <1>6

LEMMA CoroutineAssets ==
    ASSUME Dialogue, faults \in Nat, Local!PollMakeAssets, CoroutineStep
    PROVE  Dialogue'
<1>1. PICK f \in Requests : /\ f.op = Local!MakeAssets /\ Local!Poll(f)
                            /\ in' = Local!TakeAndWake(in) /\ UNCHANGED out
                            /\ pc' = "assetsState" /\ aio' = "open"
  BY DEF Local!PollMakeAssets, Local!Continue
<1>2. /\ provider = "none" /\ served = Len(handled) /\ served \in {0, 1} /\ state = 1
      /\ todo = <<>> /\ Len(replies) = Len(handled) + 1 /\ in.buf # <<>>
      /\ f = Head(in.buf) /\ handled' = Append(handled, f) /\ served' = served + 1
      /\ UNCHANGED <<provider, replies, plugin, faults, up, down, client, link>>
      /\ f = IF served = 0 THEN Request(Local!MakeAssets) ELSE Request(Local!LoadProvider)
  BY <1>1, CoroutinePolls
<1>3. served = 0
  BY <1>1, <1>2 DEF Request, Local!MakeAssets, Local!LoadProvider
<1>4. /\ Types' /\ RequestsInv' /\ FramesInv' /\ ClosedInv' /\ Len(handled') = Len(handled) + 1
  <2>1. in' = TakeAndWake(in)
    BY <1>1 DEF Local!TakeAndWake, TakeAndWake
  <2>2. todo' \in Seq(Frames) /\ Len(todo') = 0
    BY <1>2 DEF plugin, Dialogue, Types
  <2>3. (\A i \in 1..Len(todo) : Right(todo[i], Len(replies) + i))'
    BY <2>2
  <2>4. QED  BY <1>1, <1>2, <2>1, <2>2, <2>3, HearStep
<1>5. ServerInv'
  <2>1. served' = 1 /\ Len(handled') = 1 /\ Len(replies') = 1 /\ Slot(2) = 3
    BY <1>2, <1>3, <1>4, SlotTable
  <2>2. pc' = "assetsState" /\ provider' = "none" /\ state' = 1 /\ todo' = <<>>
    BY <1>1, <1>2 DEF plugin
  <2>3. QED  BY <2>1, <2>2 DEF ServerInv
<1>6. QED  BY <1>4, <1>5 DEF Dialogue

LEMMA CoroutineLoads ==
    ASSUME Dialogue, faults \in Nat, Local!PollLoadProvider, CoroutineStep
    PROVE  Dialogue'
<1>1. PICK f \in Requests : /\ f.op = Local!LoadProvider /\ Local!Poll(f)
                            /\ in' = Local!TakeAndWake(in) /\ UNCHANGED <<out, aio>>
                            /\ pc' = "push"
                            /\ outgoing' = IF f.data \in {Local!Known, Local!Unknown}
                                           THEN Local!Ack ELSE Local!Error
  BY DEF Local!PollLoadProvider, Local!Continue
<1>2. /\ provider = "none" /\ served = Len(handled) /\ served \in {0, 1} /\ state = 1
      /\ todo = <<>> /\ Len(replies) = Len(handled) + 1 /\ in.buf # <<>>
      /\ f = Head(in.buf) /\ handled' = Append(handled, f) /\ served' = served + 1
      /\ UNCHANGED <<provider, replies, plugin, faults, up, down, client, link>>
      /\ f = IF served = 0 THEN Request(Local!MakeAssets) ELSE Request(Local!LoadProvider)
  BY <1>1, CoroutinePolls
<1>3. served = 1
  BY <1>1, <1>2 DEF Request, Local!MakeAssets, Local!LoadProvider
<1>4. /\ Types' /\ RequestsInv' /\ FramesInv' /\ ClosedInv' /\ Len(handled') = Len(handled) + 1
  <2>1. in' = TakeAndWake(in)
    BY <1>1 DEF Local!TakeAndWake, TakeAndWake
  <2>2. todo' \in Seq(Frames) /\ Len(todo') = 0
    BY <1>2 DEF plugin, Dialogue, Types
  <2>3. (\A i \in 1..Len(todo) : Right(todo[i], Len(replies) + i))'
    BY <2>2
  <2>4. QED  BY <1>1, <1>2, <2>1, <2>2, <2>3, HearStep
<1>5. outgoing' = Reply(3)'
  <2>1. f.data = Local!Known
    BY <1>2, <1>3 DEF Request, Local!Known, Local!MakeAssets, Local!LoadProvider
  <2>2. Reply(3)' = Local!Ack
    <3>1. Reply(3) = Local!Ack
      BY RepliesOfScript DEF Dialogue, Types
    <3>2. UNCHANGED script
      BY <1>2 DEF client
    <3>3. QED  BY <3>1, <3>2 DEF Reply
  <2>3. QED  BY <1>1, <2>1, <2>2
<1>6. ServerInv'
  <2>1. served' = 2 /\ Len(handled') = 2 /\ Len(replies') = 2 /\ Slot(3) = 5
    BY <1>2, <1>3, <1>4, SlotTable
  <2>2. Reply(served + 1)' = Reply(3)'
    BY <2>1
  <2>3. QED  BY <1>1, <1>2, <1>5, <2>1, <2>2 DEF ServerInv, plugin
<1>7. QED  BY <1>4, <1>6 DEF Dialogue

\* The programs make no request that the coroutine answers with an error.
LEMMA CoroutineRefuses ==
    ASSUME Dialogue, CoroutineStep
    PROVE  ~Local!PollMakeAssetsBadParams /\ ~Local!PollUnknownOp
<1>1. ASSUME NEW f, Local!Poll(f)
      PROVE  f \in {Request(Local!MakeAssets), Request(Local!LoadProvider)}
  BY <1>1, CoroutinePolls
<1>2. ASSUME NEW f, f \in {Request(Local!MakeAssets), Request(Local!LoadProvider)}
      PROVE  /\ f.op \in {Local!MakeAssets, Local!LoadProvider}
             /\ f.op = Local!MakeAssets => f.data = Local!Urls
  BY <1>2 DEF Request, Local!MakeAssets, Local!LoadProvider, Local!Urls
<1>3. QED  BY <1>1, <1>2 DEF Local!PollMakeAssetsBadParams, Local!PollUnknownOp

\* The asset manager's part, and the handover.
LEMMA CoroutineGoesOn ==
    ASSUME Dialogue, faults \in Nat, Local!AssetsState \/ Local!AssetsResult \/ Local!Attach,
           CoroutineStep
    PROVE  Dialogue'
<1>1. ServerInv /\ Len(handled) \in Nat /\ script \in {CliScript, HelloScript}
  BY Counts DEF Dialogue, Types
<1>2. /\ UNCHANGED <<handled, replies, in, out, served, plugin, faults, up, down, client, link>>
      /\ aio' = "asked" \/ UNCHANGED aio
  BY DEF Local!AssetsState, Local!AssetsResult, Local!Attach, CoroutineStep, Serves
<1>3. Types' /\ RequestsInv' /\ FramesInv' /\ ClosedInv'
  <2>1. faults' > 0 \/ (UNCHANGED <<channels, link>> /\ aio' # "failed")
    BY <1>2 DEF Dialogue, ClosedInv, channels
  <2>2. QED  BY <1>2, <2>1, QuietStep DEF plugin
<1>4. ServerInv'
  <2>1. CASE Local!AssetsState
    BY <1>1, <1>2, <2>1 DEF Local!AssetsState, ServerInv, plugin, client
  <2>2. CASE Local!AssetsResult
    <3>1. outgoing' = Local!Assets /\ pc' = "push" /\ UNCHANGED provider
      BY <2>2 DEF Local!AssetsResult
    <3>2. provider = "none" /\ Len(replies) = 1 /\ served = 1
      BY <1>1, <2>2 DEF Local!AssetsResult, ServerInv
    <3>3. Reply(served + 1)' = Local!Assets
      <4>1. Reply(2) = Local!Assets
        BY <1>1, RepliesOfScript
      <4>2. served' + 1 = 2 /\ script' = script
        BY <1>2, <3>2 DEF client
      <4>3. QED  BY <4>1, <4>2 DEF Reply
    <3>4. QED  BY <1>1, <1>2, <3>1, <3>2, <3>3 DEF ServerInv, plugin
  <2>3. CASE Local!Attach
    <3>1. pc = "attach" /\ pc' = "done" /\ provider' = "starting"
      BY <2>3 DEF Local!Attach
    <3>2. /\ provider = "none" /\ Len(replies) = 3 /\ served = 2 /\ served = Len(handled)
          /\ state = 1 /\ todo = <<>> /\ Len(replies) < Slot(Len(handled) + 1)
      BY <1>1, <3>1 DEF ServerInv
    <3>3. QED  BY <1>2, <3>1, <3>2 DEF ServerInv, plugin
  <2>4. QED  BY <2>1, <2>2, <2>3
<1>5. QED  BY <1>3, <1>4 DEF Dialogue

\* The provider of both programs is there.
LEMMA CoroutineAttaches ==
    ASSUME Dialogue, CoroutineStep
    PROVE  ~Local!AttachThrows /\ ~Local!PushToNothing
<1>1. ServerInv /\ RequestsInv /\ Len(handled) \in Nat /\ script \in {CliScript, HelloScript}
  BY Counts DEF Dialogue, Types
<1>2. ~Local!PushToNothing
  BY <1>1 DEF Local!PushToNothing, ServerInv
<1>3. ASSUME pc = "attach" PROVE handled[served].data = Local!Known
  <2>1. served = 2 /\ Len(handled) = 2
    BY <1>1, <1>3 DEF ServerInv
  <2>2. handled[2] = Request(script[3].what)
    BY <1>1, <2>1, SlotTable DEF RequestsInv
  <2>3. script[3].what = Local!LoadProvider
    BY <1>1, Scripts
  <2>4. QED  BY <2>1, <2>2, <2>3
             DEF Request, Local!Known, Local!MakeAssets, Local!LoadProvider
<1>4. QED  BY <1>2, <1>3 DEF Local!AttachThrows

LEMMA CoroutineKeeps == Dialogue /\ faults \in Nat /\ CoroutineStep => Dialogue'
<1> SUFFICES ASSUME Dialogue, faults \in Nat, CoroutineStep PROVE Dialogue'
  OBVIOUS
<1>1. \/ Local!Push \/ Local!Closed
      \/ Local!PollMakeAssets \/ Local!PollMakeAssetsBadParams
      \/ Local!PollLoadProvider \/ Local!PollUnknownOp
      \/ Local!AssetsState \/ Local!AssetsResult
      \/ Local!Attach \/ Local!AttachThrows \/ Local!PushToNothing
  BY DEF CoroutineStep, Local!CoroutineNext
<1>2. QED  BY <1>1, CoroutinePush, CoroutineClosed, CoroutineAssets, CoroutineLoads,
              CoroutineRefuses, CoroutineGoesOn, CoroutineAttaches

\* The asset manager fails, or does not.
LEMMA AssetsKeep ==
    ASSUME Dialogue, faults \in Nat, AssetsStep \/ AssetsFail
    PROVE  Dialogue' /\ faults' \in Nat /\ faults' >= faults
<1>1. /\ UNCHANGED <<pc, outgoing, provider, served, handled, replies, in, out,
                     plugin, up, down, client, link>>
      /\ \/ UNCHANGED faults /\ aio' \in {"stated", "answered"}
         \/ faults' = faults + 1
  BY DEF AssetsStep, AssetsFail, Local!AssetsMove, Local!AssetsFail, Fault, Serves
<1>2. faults' \in Nat /\ faults' >= faults
  BY <1>1
<1>3. faults' > 0 \/ (UNCHANGED <<channels, link>> /\ aio' # "failed")
  BY <1>1 DEF channels
<1>4. Types' /\ RequestsInv' /\ FramesInv' /\ ClosedInv'
  BY <1>1, <1>2, <1>3, QuietStep DEF plugin
<1>5. ServerInv'
  BY <1>1, ServerStays DEF Dialogue, client
<1>6. QED  BY <1>2, <1>4, <1>5 DEF Dialogue

-----------------------------------------------------------------------------
(* The provider.                                                           *)

\* A provider starts in the state that the program waits for.
LEMMA ProviderStartsStep ==
    ASSUME Dialogue, faults \in Nat, ProviderStarts
    PROVE  Dialogue'
<1>1. ServerInv /\ script \in {CliScript, HelloScript}
  BY DEF Dialogue, Types
<1>2. /\ provider = "starting" /\ provider' = "up"
      /\ todo' = << Local!State(Schema[1].id) >>
      /\ UNCHANGED <<pc, outgoing, aio, served, in, out, handled, replies, state, faults,
                     up, down, client, link>>
  BY DEF ProviderStarts, Serves
<1>3. Len(replies) = 3 /\ Len(handled) = 2 /\ state = 1
  BY <1>1, <1>2 DEF ServerInv
<1>4. todo' = << Reply(4) >> /\ Reply(4)' = Reply(4) /\ Reply(4) \in Frames
  <2>1. Reply(4) = Local!State(Schema[1].id)
    <3>1. 1 \in 1..3 /\ 2 * 1 + 2 = 4
      OBVIOUS
    <3>2. QED  BY <1>1, <3>1, RepliesOfScript
  <2>2. Reply(4)' = Reply(4)
    BY <1>2 DEF Reply, client
  <2>3. Reply(4) \in Frames
    <3>1. 4 \in 1..9
      OBVIOUS
    <3>2. QED  BY <1>1, <3>1, ReplyFacts
  <2>4. QED  BY <1>2, <2>1, <2>2, <2>3
<1>5. Types' /\ RequestsInv' /\ FramesInv' /\ ClosedInv'
  <2>1. todo' \in Seq(Frames) /\ Len(todo') = 1 /\ todo'[1] = Reply(4)'
    BY <1>4
  <2>2. (\A i \in 1..Len(todo) : Right(todo[i], Len(replies) + i))'
    BY <1>2, <1>3, <2>1 DEF Right
  <2>3. faults' > 0 \/ (UNCHANGED <<channels, link>> /\ aio' # "failed")
    BY <1>2 DEF Dialogue, ClosedInv, channels
  <2>4. QED  BY <1>2, <2>1, <2>2, <2>3, QuietStep
<1>6. ServerInv'
  <2>1. Len(todo') = 1 /\ Len(replies') = 3 /\ Len(handled') = 2 /\ Slot(3) = 5
    BY <1>2, <1>3, <1>4, SlotTable
  <2>2. pc' = "done"
    BY <1>1, <1>2 DEF ServerInv
  <2>3. QED  BY <1>2, <1>3, <2>1, <2>2 DEF ServerInv
<1>7. QED  BY <1>5, <1>6 DEF Dialogue

\* The request that it reads is the one of the state that it is in.
LEMMA ProviderReads ==
    ASSUME Dialogue, provider = "up", todo = <<>>, MayRead(in)
    PROVE  /\ Len(handled) \in 2..4 /\ state = Len(handled) - 1 /\ pc = "done"
           /\ Len(replies) = 2 * Len(handled) /\ in.buf # <<>>
           /\ Head(in.buf) = Request(Schema[Len(handled) - 1].op)
<1>1. ServerInv /\ script \in {CliScript, HelloScript}
  BY DEF Dialogue, Types
<1>2. /\ Len(handled) \in 0..4
      /\ Head(in.buf) = Request(script[Slot(Len(handled) + 1)].what)
      /\ Len(replies) = Slot(Len(handled) + 1) - 1
  BY NextRequest DEF MayRead
<1>3. Len(handled) \in 2..5 /\ pc = "done"
  BY <1>1 DEF ServerInv
<1>4. Len(handled) \in 2..4 /\ Slot(Len(handled) + 1) = 2 * Len(handled) + 1
  <2>1. \A h : h \in 0..4 /\ h \in 2..5 => h \in 2..4
    OBVIOUS
  <2>2. Len(handled) \in 2..4
    BY <1>2, <1>3, <2>1, Zenon
  <2>3. QED  BY <2>2, SlotTable
<1>5. Len(replies) = 2 * Len(handled)
  BY <1>2, <1>4
<1>6. state = Len(handled) - 1
  <2>1. Len(replies) + Len(todo) + 1 = Slot(Len(handled) + 1)
    BY <1>4, <1>5
  <2>2. state = IF Len(handled) = 5 THEN 3 ELSE Len(handled) - 1
    BY <1>1, <2>1 DEF ServerInv
  <2>3. 5 \notin 2..4
    OBVIOUS
  <2>4. Len(handled) # 5
    BY <1>4, <2>3, Zenon
  <2>5. QED  BY <2>2, <2>4
<1>7. Head(in.buf) = Request(Schema[Len(handled) - 1].op)
  <2>1. \A h \in 2..4 : h - 1 \in 1..3 /\ 2 * (h - 1) + 3 = 2 * h + 1
    OBVIOUS
  <2>2. script[2 * (Len(handled) - 1) + 3].what = Schema[Len(handled) - 1].op
    BY <1>1, <1>4, <2>1, Scripts
  <2>3. QED  BY <1>2, <1>4, <2>1, <2>2
<1>8. QED  BY <1>3, <1>4, <1>5, <1>6, <1>7 DEF MayRead

\* It answers it, and announces the state that the program expects.
LEMMA ProviderServesStep ==
    ASSUME Dialogue, faults \in Nat, ProviderServes
    PROVE  Dialogue'
<1>1. script \in {CliScript, HelloScript} /\ Len(Schema) = 3
  BY Scripts DEF Dialogue, Types
<1>2. /\ provider = "up" /\ todo = <<>> /\ MayRead(in)
      /\ in' = Take(in) /\ handled' = Append(handled, Head(in.buf))
      /\ UNCHANGED <<pc, outgoing, aio, provider, served, out, replies, faults,
                     up, down, client, link>>
  BY DEF ProviderServes, Serves
<1>3. /\ Len(handled) \in 2..4 /\ state = Len(handled) - 1 /\ pc = "done"
      /\ Len(replies) = 2 * Len(handled) /\ in.buf # <<>>
      /\ Head(in.buf) = Request(Schema[Len(handled) - 1].op)
  BY <1>2, ProviderReads
<1>4. /\ state = 3 => todo' = << Head(in.buf) >> /\ state' = 3
      /\ state # 3 => /\ todo' = << Head(in.buf), Local!State(Schema[state + 1].id) >>
                      /\ state' = state + 1
  <2>1. Head(in.buf).op = Schema[state].op
    BY <1>3 DEF Request
  <2>2. QED  BY <1>1, <2>1 DEF ProviderServes
<1>5. Reply(2 * Len(handled) + 1) = Head(in.buf)
  <2>1. \A h \in 2..4 : h - 1 \in 1..3 /\ 2 * (h - 1) + 3 = 2 * h + 1
    OBVIOUS
  <2>2. Reply(2 * (Len(handled) - 1) + 3) = Request(Schema[Len(handled) - 1].op)
    BY <1>1, <1>3, <2>1, RepliesOfScript
  <2>3. QED  BY <1>3, <2>1, <2>2
<1>6. state # 3 => Reply(2 * Len(handled) + 2) = Local!State(Schema[state + 1].id)
  <2>1. \A h \in 2..4 : h - 1 # 3 => h \in 1..3 /\ (h - 1) + 1 = h
    OBVIOUS
  <2>2. QED  BY <1>1, <1>3, <2>1, RepliesOfScript
<1>7. /\ todo' \in Seq(Frames)
      /\ state = 3 => Len(todo') = 1
      /\ state # 3 => Len(todo') = 2
      /\ \A i \in 1..Len(todo') : todo'[i] = Reply(2 * Len(handled) + i)
  <2>1. \A h \in 2..4 : 2 * h + 1 \in 1..9 /\ 2 * h + 2 \in 1..10
                        /\ (h - 1 # 3 => 2 * h + 2 \in 1..9)
    OBVIOUS
  <2>2. Reply(2 * Len(handled) + 1) \in Frames
    BY <1>1, <1>3, <2>1, ReplyFacts
  <2>3. state # 3 => Reply(2 * Len(handled) + 2) \in Frames
    BY <1>1, <1>3, <2>1, ReplyFacts
  <2>4. CASE state = 3
    <3>1. todo' = << Reply(2 * Len(handled) + 1) >>
      BY <1>4, <1>5, <2>4
    <3>2. QED  BY <2>2, <2>4, <3>1
  <2>5. CASE state # 3
    <3>1. todo' = << Reply(2 * Len(handled) + 1), Reply(2 * Len(handled) + 2) >>
      BY <1>4, <1>5, <1>6, <2>5
    <3>2. \A i \in 1..2 : i = 1 \/ i = 2
      OBVIOUS
    <3>3. QED  BY <2>2, <2>3, <2>5, <3>1, <3>2
  <2>6. QED  BY <2>4, <2>5
<1>8. /\ Types' /\ RequestsInv' /\ FramesInv' /\ ClosedInv' /\ Len(handled') = Len(handled) + 1
  <2>1. \A i : Reply(i)' = Reply(i)
    BY <1>2 DEF Reply, client
  <2>2. (\A i \in 1..Len(todo) : Right(todo[i], Len(replies) + i))'
    BY <1>2, <1>3, <1>7, <2>1 DEF Right
  <2>3. QED  BY <1>2, <1>3, <1>7, <2>2, HearStep
<1>9. ServerInv'
  <2>1. /\ Len(handled') \in 3..5 /\ Len(replies') = 2 * Len(handled)
        /\ Len(handled') = Len(handled) + 1
    BY <1>2, <1>3, <1>8
  <2>2. CASE state = 3
    <3>1. Len(handled') = 5 /\ Len(replies') = 8 /\ Len(todo') = 1 /\ state' = 3
      <4>1. \A h \in 2..4 : h - 1 = 3 => h + 1 = 5 /\ 2 * h = 8
        OBVIOUS
      <4>2. Len(handled) + 1 = 5 /\ 2 * Len(handled) = 8
        BY <1>3, <2>2, <4>1, Zenon
      <4>3. QED  BY <1>4, <1>7, <2>1, <2>2, <4>2
    <3>2. QED  BY <1>2, <1>3, <3>1, SlotTable DEF ServerInv
  <2>3. CASE state # 3
    <3>1. /\ Len(handled) \in {2, 3} /\ Len(todo') = 2 /\ state' = Len(handled') - 1
          /\ Len(handled') # 5
      BY <1>3, <1>4, <1>7, <2>1, <2>3
    <3>2. Slot(Len(handled') + 1) = 2 * Len(handled) + 3
      <4>1. Len(handled') \in 2..4
        BY <2>1, <3>1
      <4>2. QED  BY <2>1, <3>1, <4>1, SlotTable
    <3>3. QED  BY <1>2, <1>3, <2>1, <3>1, <3>2 DEF ServerInv
  <2>4. QED  BY <2>2, <2>3
<1>10. QED  BY <1>8, <1>9 DEF Dialogue

LEMMA ProviderFailsStep ==
    ASSUME Dialogue, faults \in Nat, ProviderFails
    PROVE  Dialogue' /\ faults' \in Nat /\ faults' >= faults
<1>1. /\ provider = "up" /\ todo = <<>> /\ MayRead(in)
      /\ in' = Take(in) /\ handled' = Append(handled, Head(in.buf))
      /\ todo' = << Local!Error >> /\ faults' = faults + 1
      /\ UNCHANGED <<pc, outgoing, aio, provider, served, out, replies, state,
                     up, down, client, link>>
  BY DEF ProviderFails, Serves, Fault
<1>2. /\ Len(handled) \in 2..4 /\ state = Len(handled) - 1 /\ pc = "done"
      /\ Len(replies) = 2 * Len(handled) /\ in.buf # <<>>
  BY <1>1, ProviderReads
<1>3. faults' \in Nat /\ faults' >= faults /\ faults' > 0
  BY <1>1
<1>4. todo' \in Seq(Frames) /\ Len(todo') = 1 /\ todo'[1] = Local!Error
  BY <1>1 DEF Frames
<1>5. /\ Types' /\ RequestsInv' /\ FramesInv' /\ ClosedInv' /\ Len(handled') = Len(handled) + 1
  <2>1. (\A i \in 1..Len(todo) : Right(todo[i], Len(replies) + i))'
    BY <1>3, <1>4 DEF Right
  <2>2. QED  BY <1>1, <1>2, <1>3, <1>4, <2>1, HearStep
<1>6. ServerInv'
  <2>1. /\ Len(handled') = Len(handled) + 1 /\ Len(replies') = 2 * Len(handled)
        /\ Len(todo') = 1 /\ state' = Len(handled) - 1
    BY <1>1, <1>2, <1>4, <1>5
  <2>2. Slot(Len(handled) + 1 + 1) = IF Len(handled) = 4 THEN 10 ELSE 2 * Len(handled) + 3
    BY <1>2, SlotTable
  <2>3. CASE Len(handled) = 4
    BY <1>1, <1>2, <2>1, <2>2, <2>3 DEF ServerInv
  <2>4. CASE Len(handled) # 4
    BY <1>1, <1>2, <2>1, <2>2, <2>4 DEF ServerInv
  <2>5. QED  BY <2>3, <2>4
<1>7. QED  BY <1>3, <1>5, <1>6 DEF Dialogue

LEMMA ProviderPushesStep ==
    ASSUME Dialogue, faults \in Nat, ProviderPushes
    PROVE  Dialogue'
<1>1. /\ Types /\ FramesInv /\ ServerInv /\ todo \in Seq(Frames)
      /\ Len(todo) \in Nat /\ Len(replies) \in Nat /\ Len(handled) \in Nat
  BY Counts DEF Dialogue, Types
<1>2. /\ provider = "up" /\ todo # <<>>
      /\ out' = Put(out, Head(todo)) /\ todo' = Tail(todo)
      /\ replies' = Append(replies, Head(todo))
      /\ UNCHANGED <<pc, outgoing, aio, provider, served, in, handled, state, faults,
                     up, down, client, link>>
  BY DEF ProviderPushes, Serves
<1>3. /\ Len(todo) > 0 /\ Head(todo) = todo[1]
      /\ Tail(todo) \in Seq(Frames) /\ Len(Tail(todo)) = Len(todo) - 1
      /\ \A i \in 1..Len(Tail(todo)) : i + 1 \in 1..Len(todo) /\ Tail(todo)[i] = todo[i + 1]
  BY <1>1, <1>2, HeadTail
<1>4. /\ Len(handled) \in 2..5 /\ pc = "done"
      /\ Len(replies) + Len(todo) < Slot(Len(handled) + 1)
      /\ Len(replies) + Len(todo) + 1 = Slot(Len(handled) + 1)
            => state = IF Len(handled) = 5 THEN 3 ELSE Len(handled) - 1
  BY <1>1, <1>2 DEF ServerInv
<1>5. Len(replies) + 1 < Slot(Len(handled) + 1)
  <2>1. \A r, t \in Nat : \A s \in 2..10 : t > 0 /\ r + t < s => r + 1 < s
    OBVIOUS
  <2>2. Slot(Len(handled) + 1) \in 2..10
    BY <1>1, SlotTable
  <2>3. QED  BY <1>1, <1>3, <1>4, <2>1, <2>2
<1>6. /\ Types' /\ RequestsInv' /\ FramesInv' /\ ClosedInv' /\ Len(replies') = Len(replies) + 1
  <2>1. Right(Head(todo), Len(replies) + 1)
    BY <1>1, <1>3 DEF FramesInv
  <2>2. ASSUME NEW i \in 1..Len(todo') PROVE Right(todo'[i], Len(replies) + 1 + i)
    <3>1. i + 1 \in 1..Len(todo) /\ todo'[i] = todo[i + 1]
      BY <1>2, <1>3
    <3>2. Right(todo[i + 1], Len(replies) + (i + 1))
      BY <1>1, <3>1 DEF FramesInv
    <3>3. Len(replies) + (i + 1) = Len(replies) + 1 + i
      BY <1>1
    <3>4. QED  BY <3>1, <3>2, <3>3
  <2>3. QED  BY <1>2, <1>3, <1>5, <2>1, <2>2, SpeakStep
<1>7. ServerInv'
  <2>1. Len(replies') + Len(todo') = Len(replies) + Len(todo)
    BY <1>1, <1>2, <1>3, <1>6
  <2>2. QED  BY <1>2, <1>4, <1>5, <1>6, <2>1 DEF ServerInv
<1>8. QED  BY <1>6, <1>7 DEF Dialogue

\* It goes when its stream is closed, which something that failed did.
LEMMA ProviderEndsStep ==
    ASSUME Dialogue, faults \in Nat, ProviderEnds
    PROVE  Dialogue'
<1>1. ServerInv /\ ClosedInv
  BY DEF Dialogue
<1>2. /\ provider \in {"up", "starting"} /\ provider' = "gone" /\ in.closed
      /\ in' = Close(in) /\ out' = Close(out)
      /\ UNCHANGED <<pc, outgoing, aio, handled, replies, served, plugin, faults,
                     up, down, client, link>>
  BY DEF ProviderEnds, Local!ProviderEnd, Local!Close, Close, Serves
<1>3. faults > 0
  BY <1>1, <1>2 DEF ClosedInv
<1>4. Types' /\ RequestsInv' /\ FramesInv' /\ ClosedInv'
  BY <1>2, <1>3, QuietStep DEF plugin
<1>5. ServerInv'
  BY <1>1, <1>2 DEF ServerInv
<1>6. QED  BY <1>4, <1>5 DEF Dialogue

-----------------------------------------------------------------------------
(* The invariant, and the theorems.                                        *)

LEMMA InitInv == Init => IInv
<1> SUFFICES ASSUME Init PROVE IInv
  OBVIOUS
<1>1. /\ pc = "push" /\ outgoing = Local!State("s:acord") /\ aio = "none"
      /\ provider = "none" /\ served = 0 /\ handled = <<>> /\ replies = <<>>
      /\ in = EmptyChannel /\ out = EmptyChannel /\ up = EmptyChannel /\ down = EmptyChannel
      /\ script \in {CliScript, HelloScript} /\ at = 1 /\ program = "next"
      /\ failed = FALSE /\ link = "connecting" /\ state = 1 /\ todo = <<>> /\ faults = 0
  BY DEF Init, Local!Init, Local!EmptyChannel, EmptyChannel
<1>2. \A F : EmptyChannel \in Channel(F)
  BY DEF Channel, EmptyChannel
<1>3. EmptyChannel.buf = <<>> /\ ~EmptyChannel.closed
  BY DEF EmptyChannel
<1>4. Types
  BY <1>1, <1>2 DEF Types
<1>5. RequestsInv
  <2>1. Asked = 0
    BY <1>1, <1>3 DEF Asked
  <2>2. QED  BY <1>1, <1>3, <2>1 DEF RequestsInv, Slot
<1>6. FramesInv
  BY <1>1, <1>3 DEF FramesInv
<1>7. ServerInv
  <2>1. Reply(1) = Local!State("s:acord")
    BY <1>1, RepliesOfScript
  <2>2. QED  BY <1>1, <2>1 DEF ServerInv, Slot
<1>8. ClosedInv
  BY <1>1, <1>3 DEF ClosedInv
<1>9. QED  BY <1>1, <1>4, <1>5, <1>6, <1>7, <1>8 DEF IInv, FailsForAReason, Dialogue

LEMMA NextStep == IInv /\ [Next]_vars => IInv'
<1> SUFFICES ASSUME IInv, [Next]_vars PROVE IInv'
  OBVIOUS
<1>1. faults \in Nat /\ FailsForAReason /\ (Running => Dialogue)
  BY DEF IInv
<1>2. CASE Push \/ PollTimesOut
  <2>1. Running /\ UNCHANGED <<failed, faults>>
    BY <1>2 DEF Push, PollTimesOut, Running
  <2>2. QED  BY <1>1, <1>2, <2>1, PushStep, TimeoutStep DEF IInv, FailsForAReason
<1>3. CASE Poll
  <2>1. Running /\ UNCHANGED faults
    BY <1>3 DEF Poll, Polls, Running
  <2>2. QED  BY <1>1, <1>3, <2>1, PollStep DEF IInv, FailsForAReason
<1>4. CASE PushThrows \/ PollThrows
  <2>1. Running
    BY <1>4 DEF PushThrows, PollThrows, Polls, Running
  <2>2. QED  BY <1>1, <1>4, <2>1, ThrowStep DEF IInv, FailsForAReason
<1>5. CASE CloseIo \/ JoinIo
  BY <1>1, <1>5, LeaveStep DEF IInv, FailsForAReason
<1>6. ASSUME UNCHANGED client, faults' \in Nat, faults' >= faults, Running => Dialogue'
      PROVE  IInv'
  BY <1>1, <1>6 DEF IInv, FailsForAReason, Running, client
<1>7. CASE LinkUp \/ LinkDown
  <2>1. UNCHANGED <<client, faults>>
    BY <1>7 DEF LinkUp, LinkDown
  <2>2. QED  BY <1>1, <1>6, <1>7, <2>1, LinkUpStep, LinkDownStep
<1>8. CASE LinkOpens \/ LinkEnds \/ LinkLost
  <2>1. UNCHANGED client /\ faults' \in Nat /\ faults' >= faults
    BY <1>1, <1>8 DEF LinkOpens, LinkEnds, LinkLost, LinkCloses, Fault
  <2>2. QED  BY <1>1, <1>6, <1>8, <2>1, LinkClosesStep
<1>9. CASE CoroutineStep
  <2>1. UNCHANGED <<client, faults>>
    BY <1>9 DEF CoroutineStep, Serves
  <2>2. QED  BY <1>1, <1>6, <1>9, <2>1, CoroutineKeeps
<1>10. CASE AssetsStep \/ AssetsFail
  <2>1. UNCHANGED client /\ faults' \in Nat /\ faults' >= faults
    BY <1>1, <1>10 DEF AssetsStep, AssetsFail, Serves, Fault
  <2>2. QED  BY <1>1, <1>6, <1>10, <2>1, AssetsKeep
<1>11. CASE ProviderStarts \/ ProviderServes \/ ProviderPushes \/ ProviderEnds
  <2>1. UNCHANGED <<client, faults>>
    BY <1>11 DEF ProviderStarts, ProviderServes, ProviderPushes, ProviderEnds, Serves
  <2>2. Running => Dialogue'
    BY <1>1, <1>11, ProviderStartsStep, ProviderServesStep, ProviderPushesStep,
       ProviderEndsStep
  <2>3. QED  BY <1>1, <1>6, <2>1, <2>2
<1>12. CASE ProviderFails
  <2>1. UNCHANGED client /\ faults' \in Nat /\ faults' >= faults
    BY <1>1, <1>12 DEF ProviderFails, Serves, Fault
  <2>2. QED  BY <1>1, <1>6, <1>12, <2>1, ProviderFailsStep
<1>13. CASE UNCHANGED vars
  <2>1. /\ UNCHANGED <<server, channels, plugin, client, link, faults>>
    BY <1>13 DEF vars
  <2>2. Running => Dialogue'
    <3>1. SUFFICES ASSUME Dialogue PROVE Dialogue'
      BY <1>1
    <3>2. Types' /\ ClosedInv'
      BY <2>1, <3>1 DEF Dialogue, Types, ClosedInv, server, channels, plugin, client
    <3>3. QED  BY <1>1, <2>1, <3>1, <3>2, RequestsStay, FramesStay, ServerStays
               DEF Dialogue, server, channels, plugin, client
  <2>3. QED  BY <1>1, <1>6, <2>1, <2>2
<1>14. QED  BY <1>2, <1>3, <1>4, <1>5, <1>7, <1>8, <1>9, <1>10, <1>11, <1>12, <1>13
            DEF Next, ProgramNext, LinkNext, ServerNext, Over

THEOREM Invariance == Spec => []IInv
  BY InitInv, NextStep, PTL DEF Spec

\* A program fails only when the link, the asset manager or the provider did:
\* the order of the server's frames, the first poll that may time out and the
\* bounds of the channels are never the reason.
THEOREM FailuresHaveReasons == Spec => []FailsForAReason
<1>1. IInv => FailsForAReason
  BY DEF IInv
<1>2. QED  BY <1>1, Invariance, PTL

\* Every frame that a poll returns is the one the program polls for, or an
\* error, although no poll looks for it.
THEOREM PollsGetTheirFrames == Spec => PolledIsWanted
<1>1. IInv /\ [Next]_vars => [Poll => Wanted(Head(down.buf))]_vars
  <2>1. ASSUME IInv, Poll PROVE Wanted(Head(down.buf))
    <3>1. Running /\ faults \in Nat /\ Dialogue
      BY <2>1 DEF Poll, Polls, Running, IInv
    <3>2. QED  BY <2>1, <3>1, PollStep
  <2>2. QED  BY <2>1
<1>2. QED  BY <1>1, Invariance, PTL DEF Spec, PolledIsWanted
=============================================================================
