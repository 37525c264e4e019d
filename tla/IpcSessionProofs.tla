-------------------------- MODULE IpcSessionProofs --------------------------
(***************************************************************************)
(* The safety properties of a play session, for any number of sessions and *)
(* any bounds on what is under way between the two processes.              *)
(***************************************************************************)
EXTENDS IpcSession, SequenceTheorems, WellFoundedInduction, TLAPS

(***************************************************************************)
(* Sequences of envelopes                                                  *)
(***************************************************************************)
LEMMA LeastNumber ==
  ASSUME NEW S, S \subseteq Nat, S # {}
  PROVE  \E x \in S : \A y \in S : x <= y
<1> DEFINE R == OpToRel(<, Nat)
<1>1. IsWellFoundedOn(R, Nat) BY NatLessThanWellFounded
<1>2. PICK x \in S : \A y \in S : ~ (<<y, x>> \in R) BY <1>1, WFMin
<1>3. ASSUME NEW y \in S, y < x PROVE FALSE
  <2>1. <<y, x>> \in R BY <1>3 DEF OpToRel
  <2> QED BY <1>2, <2>1
<1> QED BY <1>3

(* A set of places of a sequence has a last one. *)
LEMMA LastPlace ==
  ASSUME NEW n \in Nat, NEW S, S \subseteq 1 .. n, S # {}
  PROVE  Max(S) \in S /\ \A i \in S : i <= Max(S)
<1> DEFINE D == {n - i : i \in S}
<1>1. D \subseteq Nat /\ D # {}
  <2>1. ASSUME NEW i \in S PROVE n - i \in Nat
    <3>1. i \in 1 .. n OBVIOUS
    <3> QED BY <3>1
  <2>2. PICK i \in S : TRUE OBVIOUS
  <2>3. n - i \in D BY <2>2
  <2> QED BY <2>1, <2>3
<1>2. PICK d \in D : \A e \in D : d <= e BY <1>1, LeastNumber
<1>3. PICK m \in S : d = n - m OBVIOUS
<1>4. \A i \in S : m >= i
  <2>1. TAKE i \in S
  <2>2. n - i \in D OBVIOUS
  <2> QED BY <1>2, <1>3, <2>2
<1>5. \E x \in S : \A y \in S : x >= y BY <1>4
<1>6. Max(S) \in S /\ \A y \in S : Max(S) >= y BY <1>5 DEF Max
<1> QED BY <1>6

LEMMA AppendHas ==
  ASSUME NEW T, NEW s \in Seq(T), NEW x \in T, NEW e
  PROVE  Contains(Append(s, x), e) <=> Contains(s, e) \/ e = x
<1>1. Append(s, x) \in Seq(T) /\ Len(Append(s, x)) = Len(s) + 1 OBVIOUS
<1>2. \A i \in 1 .. Len(s) : Append(s, x)[i] = s[i] OBVIOUS
<1>3. Append(s, x)[Len(s) + 1] = x OBVIOUS
<1>4. Len(s) \in Nat OBVIOUS
<1>5. ASSUME Contains(Append(s, x), e), e # x PROVE Contains(s, e)
  BY <1>1, <1>2, <1>3, <1>4, <1>5 DEF Contains
<1>6. ASSUME Contains(s, e) PROVE Contains(Append(s, x), e)
  BY <1>1, <1>2, <1>4, <1>6 DEF Contains
<1>7. ASSUME e = x PROVE Contains(Append(s, x), e)
  <2>1. Len(s) + 1 \in 1 .. Len(Append(s, x)) BY <1>1, <1>4
  <2> QED BY <1>3, <1>7, <2>1 DEF Contains
<1> QED BY <1>5, <1>6, <1>7

LEMMA ConcatHas ==
  ASSUME NEW T, NEW s \in Seq(T), NEW t \in Seq(T), NEW e
  PROVE  Contains(s \o t, e) <=> Contains(s, e) \/ Contains(t, e)
<1>1. Len(s \o t) = Len(s) + Len(t) /\ Len(s) \in Nat /\ Len(t) \in Nat OBVIOUS
<1>2. \A i \in 1 .. Len(s) : (s \o t)[i] = s[i] OBVIOUS
<1>3. \A i \in 1 .. Len(t) : (s \o t)[Len(s) + i] = t[i] OBVIOUS
<1>4. ASSUME Contains(s \o t, e) PROVE Contains(s, e) \/ Contains(t, e)
  <2>1. PICK i \in 1 .. Len(s) + Len(t) : (s \o t)[i] = e BY <1>1, <1>4 DEF Contains
  <2>2. CASE i <= Len(s) BY <1>1, <1>2, <2>1, <2>2 DEF Contains
  <2>3. CASE i > Len(s)
    <3>1. i - Len(s) \in 1 .. Len(t) /\ Len(s) + (i - Len(s)) = i BY <1>1, <2>3
    <3>2. t[i - Len(s)] = e BY <1>3, <2>1, <3>1
    <3> QED BY <3>1, <3>2 DEF Contains
  <2> QED BY <1>1, <2>2, <2>3
<1>5. ASSUME Contains(s, e) PROVE Contains(s \o t, e) BY <1>1, <1>2, <1>5 DEF Contains
<1>6. ASSUME Contains(t, e) PROVE Contains(s \o t, e)
  <2>1. PICK i \in 1 .. Len(t) : t[i] = e BY <1>6 DEF Contains
  <2>2. Len(s) + i \in 1 .. Len(s \o t) BY <1>1
  <2> QED BY <1>3, <2>1, <2>2 DEF Contains
<1> QED BY <1>4, <1>5, <1>6

LEMMA PartHas ==
  ASSUME NEW T, NEW s \in Seq(T), NEW m \in 1 .. Len(s) + 1, NEW n \in 0 .. Len(s)
  PROVE  /\ SubSeq(s, m, n) \in Seq(T)
         /\ \A e : Contains(SubSeq(s, m, n), e) => Contains(s, e)
<1>1. SubSeq(s, m, n) \in Seq(T) OBVIOUS
<1>2. Len(SubSeq(s, m, n)) = IF m <= n THEN n - m + 1 ELSE 0 OBVIOUS
<1>3. \A i \in 1 .. n - m + 1 : SubSeq(s, m, n)[i] = s[m + i - 1] OBVIOUS
<1>4. ASSUME NEW e, Contains(SubSeq(s, m, n), e) PROVE Contains(s, e)
  <2>1. PICK i \in 1 .. Len(SubSeq(s, m, n)) : SubSeq(s, m, n)[i] = e BY <1>4 DEF Contains
  <2>2. i \in 1 .. n - m + 1 BY <1>2, <2>1
  <2>3. m + i - 1 \in 1 .. Len(s) BY <2>2
  <2> QED BY <1>3, <2>1, <2>2, <2>3 DEF Contains
<1> QED BY <1>1, <1>4

LEMMA TailHas ==
  ASSUME NEW T, NEW s \in Seq(T), s # <<>>
  PROVE  /\ Tail(s) \in Seq(T) /\ Head(s) \in T /\ Contains(s, Head(s))
         /\ Len(Tail(s)) = Len(s) - 1 /\ Len(s) \in Nat \ {0}
         /\ \A i \in 1 .. Len(s) - 1 : Tail(s)[i] = s[i + 1]
         /\ \A e : Contains(Tail(s), e) => Contains(s, e)
<1>1. Tail(s) \in Seq(T) /\ Head(s) \in T /\ Len(Tail(s)) = Len(s) - 1 /\ Len(s) \in Nat \ {0}
  OBVIOUS
<1>2. \A i \in 1 .. Len(s) - 1 : Tail(s)[i] = s[i + 1] OBVIOUS
<1>3. Contains(s, Head(s)) BY <1>1 DEF Contains
<1>4. ASSUME NEW e, Contains(Tail(s), e) PROVE Contains(s, e)
  <2>1. PICK i \in 1 .. Len(s) - 1 : s[i + 1] = e BY <1>1, <1>2, <1>4 DEF Contains
  <2>2. i + 1 \in 1 .. Len(s) BY <1>1
  <2> QED BY <2>1, <2>2 DEF Contains
<1> QED BY <1>1, <1>2, <1>3, <1>4

(***************************************************************************)
(* What an update takes and what it makes of it                            *)
(***************************************************************************)
Controls == {"stopped", "connecting", "running", "paused", "stopping", "failed"}
Progress ==
  {"connecting", "authenticating", "running", "paused", "stopping", "failed", "stopped"}

LEMMA TakenPlaces ==
  ASSUME TypeOK
  PROVE  /\ Taken \in Seq(Envelopes \cup {"disconnected"})
         /\ Left \in Seq(Envelopes \cup {"disconnected"})
         /\ Len(Taken) \in 0 .. Len(events) /\ Len(Left) = Len(events) - Len(Taken)
         /\ Len(events) \in Nat
         /\ \A i \in 1 .. Len(Taken) : Taken[i] = events[i]
         /\ \A i \in 1 .. Len(Left) : Left[i] = events[Len(Taken) + i]
<1> DEFINE T == Envelopes \cup {"disconnected"}
           n == IF Len(events) < MaxPoll THEN Len(events) ELSE MaxPoll
<1>1. events \in Seq(T) /\ Len(events) \in Nat BY DEF TypeOK
<1>2. n \in 0 .. Len(events) BY <1>1, BoundsAssumption
<1>3. Taken = SubSeq(events, 1, n) BY DEF Taken
<1> HIDE DEF n, T
<1>4. Taken \in Seq(T) /\ Len(Taken) = n /\ \A i \in 1 .. n : Taken[i] = events[i]
  BY <1>1, <1>2, <1>3
<1>5. Left = SubSeq(events, n + 1, Len(events)) BY <1>4 DEF Left
<1>6. Left \in Seq(T) /\ Len(Left) = Len(events) - n BY <1>1, <1>2, <1>5
<1>7. \A i \in 1 .. Len(events) - n : Left[i] = events[n + i] BY <1>1, <1>2, <1>5
<1> QED BY <1>1, <1>2, <1>4, <1>6, <1>7 DEF T

LEMMA EventsAreTakenOrLeft ==
  ASSUME TypeOK
  PROVE  /\ \A e : Contains(Left, e) => Contains(events, e)
         /\ \A i \in 1 .. Len(Taken) : Contains(events, Taken[i])
<1>1. /\ Len(Taken) \in 0 .. Len(events) /\ Len(Left) = Len(events) - Len(Taken)
      /\ Len(events) \in Nat
      /\ \A i \in 1 .. Len(Taken) : Taken[i] = events[i]
      /\ \A i \in 1 .. Len(Left) : Left[i] = events[Len(Taken) + i]
  BY TakenPlaces
<1>2. ASSUME NEW e, Contains(Left, e) PROVE Contains(events, e)
  <2>1. PICK i \in 1 .. Len(Left) : Left[i] = e BY <1>2 DEF Contains
  <2>2. Len(Taken) + i \in 1 .. Len(events) BY <1>1
  <2> QED BY <1>1, <2>1, <2>2 DEF Contains
<1>3. ASSUME NEW i \in 1 .. Len(Taken) PROVE Contains(events, Taken[i])
  <2>1. i \in 1 .. Len(events) BY <1>1
  <2> QED BY <1>1, <2>1 DEF Contains
<1> QED BY <1>2, <1>3

(* Nothing of a session is decoded before a hello was heard and answered. *)
LEMMA DecodedPlaces ==
  ASSUME TypeOK
  PROVE  /\ Decoded \subseteq 1 .. Len(Taken)
         /\ Known => authenticated \/ (link = "connected" /\ Contains(events, "hello"))
<1>1. Decoded \subseteq 1 .. Len(Taken) BY DEF Decoded, Received
<1>2. ASSUME Known, ~authenticated PROVE link = "connected" /\ Contains(events, "hello")
  <2>1. Greeted /\ ~Rejected BY <1>2 DEF Known
  <2>2. link = "connected" /\ \A i \in Received : IsFirst(i) => Taken[i] = "hello"
    BY <2>1 DEF Rejected
  <2>3. Received \subseteq Nat /\ Received # {} BY <2>1, TakenPlaces DEF Greeted, Received
  <2>4. PICK i \in Received : \A j \in Received : i <= j BY <2>3, LeastNumber
  <2>5. Taken[i] = "hello" BY <2>2, <2>4 DEF IsFirst
  <2>6. i \in 1 .. Len(Taken) BY DEF Received
  <2> QED BY <2>2, <2>5, <2>6, EventsAreTakenOrLeft
<1> QED BY <1>1, <1>2

(* What is shown afterwards is what was shown, or the last state that was told. *)
LEMMA AppliedIs ==
  ASSUME TypeOK
  PROVE  /\ Applied \in Controls
         /\ \/ Applied = control /\ \A i \in Decoded : ~Tells(Taken[i])
            \/ \E m \in Decoded : /\ Tells(Taken[m]) /\ Applied = ShownAs(Taken[m])
                                  /\ \A i \in Decoded : i > m => ~Tells(Taken[i])
<1> DEFINE told == {i \in Decoded : Tells(Taken[i])}
<1>1. CASE told = {}
  <2>1. Applied = control BY <1>1 DEF Applied
  <2> QED BY <1>1, <2>1 DEF TypeOK, Controls
<1>2. CASE told # {}
  <2>1. told \subseteq 1 .. Len(Taken) /\ Len(Taken) \in Nat BY DecodedPlaces, TakenPlaces
  <2>2. Max(told) \in told /\ \A i \in told : i <= Max(told) BY <1>2, <2>1, LastPlace
  <2>3. Applied = ShownAs(Taken[Max(told)]) BY <1>2 DEF Applied
  <2>4. ASSUME NEW i \in Decoded, i > Max(told), Tells(Taken[i]) PROVE FALSE
    <3>1. i \in told BY <2>4
    <3>2. i \in Nat /\ Max(told) \in Nat BY <2>1, <2>2, <3>1
    <3>3. i <= Max(told) BY <2>2, <3>1
    <3> QED BY <2>4, <3>2, <3>3
  <2>5. ShownAs(Taken[Max(told)]) \in Controls
    <3>1. Tells(Taken[Max(told)]) BY <2>2
    <3> QED BY <3>1 DEF Tells, States, ShownAs, Controls
  <2> QED BY <2>2, <2>3, <2>4, <2>5
<1> QED BY <1>1, <1>2

(* The answers to one update: an acknowledgement the moment the session is known, and a ping. *)
LEMMA AnswersAre ==
  ASSUME TypeOK, NEW due \in BOOLEAN, due => Room \/ link # "connected"
  PROVE  /\ Answers(due) \in {<<>>, <<"ack">>, <<"ping">>, <<"ack", "ping">>}
         /\ ~authenticated /\ Known => Answers(due) \in {<<"ack">>, <<"ack", "ping">>}
         /\ ~Known => Answers(due) = <<>>
         /\ authenticated => Answers(due) \in {<<>>, <<"ping">>}
         /\ Answers(due) \in {<<"ping">>, <<"ack", "ping">>} => Room
<1> DEFINE first == IF Greeted /\ ~Rejected THEN <<"ack">> ELSE <<>>
           second == IF Pings(due) THEN <<"ping">> ELSE <<>>
<1>1. Answers(due) = first \o second BY DEF Answers
<1>2. Pings(due) => Room /\ Known BY DEF Pings
<1>3. /\ <<>> \o <<>> = <<>> /\ <<>> \o <<"ping">> = <<"ping">>
      /\ <<"ack">> \o <<>> = <<"ack">> /\ <<"ack">> \o <<"ping">> = <<"ack", "ping">>
  <2>1. <<>> \o <<>> = <<>> OBVIOUS
  <2>2. <<>> \o <<"ping">> = <<"ping">> OBVIOUS
  <2>3. <<"ack">> \o <<>> = <<"ack">> OBVIOUS
  <2>4. <<"ack">> \o <<"ping">> = <<"ack", "ping">>
    <3> DEFINE T == {"ack", "ping"}  s == <<"ack">> \o <<"ping">>  t == <<"ack", "ping">>
    <3>1. <<"ack">> \in Seq(T) /\ <<"ping">> \in Seq(T) /\ t \in Seq(T) OBVIOUS
    <3>2. Len(<<"ack">>) = 1 /\ Len(<<"ping">>) = 1 /\ Len(t) = 2 OBVIOUS
    <3>3. s \in Seq(T) /\ Len(s) = 2 BY <3>1, <3>2, ConcatProperties
    <3>4. s[1] = "ack" /\ s[2] = "ping" BY <3>1, <3>2, ConcatProperties
    <3>5. t[1] = "ack" /\ t[2] = "ping" OBVIOUS
    <3> HIDE DEF s, t
    <3>6. \A i \in 1 .. Len(s) : s[i] = t[i]
      <4>1. TAKE i \in 1 .. Len(s)
      <4>2. i = 1 \/ i = 2 BY <3>3
      <4> QED BY <3>4, <3>5, <4>2
    <3>7. s = t BY <3>1, <3>2, <3>3, <3>6, SeqEqual
    <3> QED BY <3>7 DEF s, t
  <2> QED BY <2>1, <2>2, <2>3, <2>4
<1>4. ~authenticated /\ Known => Greeted /\ ~Rejected BY DEF Known
<1>5. ~Known => ~(Greeted /\ ~Rejected) BY DEF Known
<1>6. authenticated => ~Greeted BY DEF Greeted
<1>7. <<>> # <<"ping">> /\ <<"ack">> # <<"ping">> /\ <<"ack">> # <<"ack", "ping">>
      /\ <<>> # <<"ack", "ping">> OBVIOUS
<1> HIDE DEF first, second
<1>8. CASE Greeted /\ ~Rejected /\ Pings(due)
  BY <1>1, <1>2, <1>3, <1>5, <1>6, <1>8 DEF first, second
<1>9. CASE Greeted /\ ~Rejected /\ ~Pings(due)
  BY <1>1, <1>2, <1>3, <1>5, <1>6, <1>7, <1>9 DEF first, second
<1>10. CASE ~(Greeted /\ ~Rejected) /\ Pings(due)
  BY <1>1, <1>2, <1>3, <1>4, <1>5, <1>6, <1>10 DEF first, second
<1>11. CASE ~(Greeted /\ ~Rejected) /\ ~Pings(due)
  BY <1>1, <1>2, <1>3, <1>4, <1>5, <1>6, <1>7, <1>11 DEF first, second
<1> QED BY <1>8, <1>9, <1>10, <1>11

(***************************************************************************)
(* The inductive invariant                                                 *)
(***************************************************************************)
(* The farewell is on its way, or heard, only after the game has left its loop. *)
Farewell ==
  shutdownComplete \/ Contains(events, "shutdown") \/ Contains(wire, "shutdown")
    => process # "running" \/ phase = "closing"

Unheard == ~Contains(events, "hello") /\ ~Contains(wire, "hello")
Before == {"connecting", "failed", "stopped"}

(* Before the game has connected, and before it has noticed that it has, nothing is said. *)
Unconnected ==
  ~rlink => /\ commands = <<>> /\ wire = <<>> /\ ~Contains(events, "hello")
            /\ rstate \in Before /\ link # "connected" /\ ~authenticated
Connecting ==
  /\ \A i \in 2 .. Len(commands) : commands[i] # "connected"
  /\ commands # <<>> /\ Head(commands) = "connected"
       => /\ rstate \in Before /\ ~authenticated /\ Unheard
          /\ \A i \in 2 .. Len(commands) : commands[i] = "eof"

(* The answer to the hello comes first, and is there once the session is known. *)
Answered ==
  rstate = "authenticating" =>
    /\ commands # <<>> => Head(commands) \in {"ack", "eof"}
    /\ alive /\ authenticated => commands # <<>>
Plenty ==
  /\ alive /\ link = "connected" /\ ~authenticated => Len(commands) <= 1
  /\ alive => Len(commands) <= MaxCommands + 1

(* A game that runs its session has been let in, over a connection that is still whole. *)
Playing == {"running", "paused", "stopping"}
LetIn ==
  /\ phase = "closing" => rstate = "stopped"
  /\ alive /\ process = "running" =>
       /\ Contains(commands, "ack") \/ rstate \in Playing => authenticated
       /\ phase = "loop" /\ rlink => link = "connected" /\ ~Contains(wire, "eof")

(* What the editor shows once it has heard everything: the last state on the wire, or the    *)
(* last among the events, or what it shows now.                                              *)
LastIs(sequence, c) ==
  \E k \in 1 .. Len(sequence) :
     /\ Tells(sequence[k]) /\ ShownAs(sequence[k]) = c
     /\ \A j \in 1 .. Len(sequence) : j > k => ~Tells(sequence[j])
Silent(sequence) == \A k \in 1 .. Len(sequence) : ~Tells(sequence[k])
Heading(c) ==
  \/ LastIs(wire, c)
  \/ Silent(wire) /\ LastIs(events, c)
  \/ Silent(wire) /\ Silent(events) /\ control = c
Expected(c) == c = rstate \/ c = "failed" \/ (c = "stopping" /\ Contains(commands, "stop"))
Agreement ==
  alive /\ process = "running" /\ rstate \in Playing
    => \A c \in Controls : Heading(c) => Expected(c)

IpcInv ==
  /\ TypeOK /\ Farewell /\ Unconnected /\ Connecting /\ Answered /\ Plenty /\ LetIn
  /\ Agreement

(***************************************************************************)
(* Types                                                                   *)
(***************************************************************************)
LEMMA HandledType ==
  ASSUME TypeOK, NEW c \in Commands
  PROVE  /\ Handled(c).says \in Seq(Envelopes) /\ Handled(c).state \in Progress
         /\ ~Contains(Handled(c).says, "shutdown")
         /\ Contains(Handled(c).says, "hello") => c = "connected"
<1>1. rstate \in Progress BY DEF TypeOK, Progress
<1>2. Handled(c) \in {
        [says |-> <<"hello">>, state |-> "authenticating"],
        [says |-> <<>>, state |-> "failed"],
        [says |-> <<"ready", "running">>, state |-> "running"],
        [says |-> <<"pong">>, state |-> rstate],
        [says |-> <<"paused">>, state |-> "paused"],
        [says |-> <<"running">>, state |-> "running"],
        [says |-> <<"stopping">>, state |-> "stopping"],
        [says |-> <<>>, state |-> "stopping"],
        [says |-> <<"error">>, state |-> rstate]}
  BY DEF Handled, PauseTold
<1>3. /\ Handled(c).says \in {<<>>, <<"hello">>, <<"ready", "running">>, <<"pong">>, <<"paused">>,
                              <<"running">>, <<"stopping">>, <<"error">>}
      /\ Handled(c).state \in Progress
  BY <1>1, <1>2 DEF Progress
<1>4. Handled(c).says \in Seq(Envelopes)
  <2>1. {"hello", "ready", "running", "pong", "paused", "stopping", "error"} \subseteq Envelopes
    BY DEF Envelopes, States
  <2>2. <<>> \in Seq(Envelopes) OBVIOUS
  <2>3. \A e \in Envelopes : <<e>> \in Seq(Envelopes) OBVIOUS
  <2>4. \A e, f \in Envelopes : <<e, f>> \in Seq(Envelopes) OBVIOUS
  <2> QED BY <1>3, <2>1, <2>2, <2>3, <2>4
<1>5. ~Contains(Handled(c).says, "shutdown") BY <1>3 DEF Contains
<1>6. Contains(Handled(c).says, "hello") => c = "connected"
  <2>1. SUFFICES ASSUME c # "connected" PROVE Handled(c).says # <<"hello">>
    BY <1>3 DEF Contains
  <2> QED BY <2>1 DEF Handled, PauseTold
<1> QED BY <1>3, <1>4, <1>5, <1>6

LEMMA ClosedIs ==
  ASSUME NEW T, "eof" \in T, NEW s \in Seq(T), NEW t \in Closed(s)
  PROVE  t \in Seq(T) /\ \A e : Contains(t, e) => e = "eof" \/ Contains(s, e)
<1>1. CASE t = s BY <1>1
<1>2. ASSUME t # s
      PROVE  \E kept \in 0 .. Len(s) : t = Append(SubSeq(s, 1, kept), "eof")
  BY <1>2 DEF Closed
<1>3. ASSUME NEW kept \in 0 .. Len(s), t = Append(SubSeq(s, 1, kept), "eof")
      PROVE  t \in Seq(T) /\ \A e : Contains(t, e) => e = "eof" \/ Contains(s, e)
  <2>1. 1 \in 1 .. Len(s) + 1 BY LenProperties
  <2>2. SubSeq(s, 1, kept) \in Seq(T) /\ \A e : Contains(SubSeq(s, 1, kept), e) => Contains(s, e)
    BY <2>1, PartHas
  <2>3. t \in Seq(T) BY <1>3, <2>2
  <2>4. \A e : Contains(t, e) <=> Contains(SubSeq(s, 1, kept), e) \/ e = "eof"
    BY <1>3, <2>2, AppendHas
  <2> QED BY <2>2, <2>3, <2>4
<1> QED BY <1>1, <1>2, <1>3

LEMMA SentIs ==
  ASSUME TypeOK, NEW s \in Seq(Envelopes)
  PROVE  /\ Sent(s) \in Seq(Envelopes \cup {"eof"})
         /\ \A e : Contains(Sent(s), e) => Contains(wire, e) \/ Contains(s, e)
<1> DEFINE T == Envelopes \cup {"eof"}
<1>1. wire \in Seq(T) BY DEF TypeOK
<1>2. s \in Seq(T)
  <2>1. Len(s) \in Nat /\ s \in [1 .. Len(s) -> Envelopes] BY LenProperties
  <2>2. s \in [1 .. Len(s) -> T] BY <2>1
  <2> QED BY <2>1, <2>2
<1> HIDE DEF T
<1>3. wire \o s \in Seq(T) BY <1>1, <1>2
<1>4. \A e : Contains(wire \o s, e) <=> Contains(wire, e) \/ Contains(s, e)
  BY <1>1, <1>2, ConcatHas
<1> QED BY <1>1, <1>3, <1>4 DEF Sent, T

(* Commands are appended within their bound. *)
LEMMA RoomForOne ==
  ASSUME TypeOK, Plenty, NEW c \in Commands, alive, Room
  PROVE  /\ Append(commands, c) \in Seq(Commands)
         /\ Len(Append(commands, c)) = Len(commands) + 1
         /\ Len(Append(commands, c)) <= MaxCommands
<1>1. commands \in Seq(Commands) /\ Len(commands) \in Nat BY DEF TypeOK
<1>2. Append(commands, c) \in Seq(Commands) /\ Len(Append(commands, c)) = Len(commands) + 1 BY <1>1
<1>3. Len(commands) < MaxCommands BY DEF Room
<1> QED BY <1>1, <1>2, <1>3, BoundsAssumption

LEMMA RoomForAnswers ==
  ASSUME TypeOK, Plenty, alive, NEW due \in BOOLEAN, due => Room \/ link # "connected"
  PROVE  /\ commands \o Answers(due) \in Seq(Commands)
         /\ Len(commands \o Answers(due)) <= MaxCommands + 1
         /\ Answers(due) \in Seq(Commands)
         /\ Len(commands \o Answers(due)) = Len(commands) + Len(Answers(due))
<1> DEFINE A == Answers(due)
<1>1. commands \in Seq(Commands) /\ Len(commands) \in Nat BY DEF TypeOK
<1>2. A \in Seq(Commands) /\ A \in {<<>>, <<"ack">>, <<"ping">>, <<"ack", "ping">>}
  <2>1. "ack" \in Commands /\ "ping" \in Commands BY DEF Commands
  <2>2. /\ <<>> \in Seq(Commands) /\ <<"ack">> \in Seq(Commands) /\ <<"ping">> \in Seq(Commands)
        /\ <<"ack", "ping">> \in Seq(Commands)
    BY <2>1
  <2>3. A \in {<<>>, <<"ack">>, <<"ping">>, <<"ack", "ping">>} BY AnswersAre
  <2> HIDE DEF A
  <2> QED BY <2>2, <2>3
<1>3. Len(A) = IF A = <<>> THEN 0 ELSE IF A = <<"ack", "ping">> THEN 2 ELSE 1
  <2>1. <<"ack">> # <<"ack", "ping">> /\ <<"ping">> # <<"ack", "ping">> OBVIOUS
  <2>2. Len(<<>>) = 0 /\ Len(<<"ack">>) = 1 /\ Len(<<"ping">>) = 1 /\ Len(<<"ack", "ping">>) = 2
    OBVIOUS
  <2> QED BY <1>2, <2>1, <2>2
<1>4. A \in {<<"ping">>, <<"ack", "ping">>} => Len(commands) < MaxCommands BY AnswersAre DEF Room
<1>5. A = <<"ack">> => Len(commands) <= 1
  <2>1. A = <<"ack">> => Known /\ ~authenticated
    <3>1. <<"ack">> # <<>> /\ <<"ack">> # <<"ping">> OBVIOUS
    <3> QED BY <3>1, AnswersAre
  <2>2. Known /\ ~authenticated => link = "connected" BY DecodedPlaces
  <2> QED BY <2>1, <2>2 DEF Plenty
<1> HIDE DEF A
<1>6. commands \o A \in Seq(Commands) /\ Len(commands \o A) = Len(commands) + Len(A)
  BY <1>1, <1>2, ConcatProperties
<1>7. A = <<>> => Len(commands) <= MaxCommands + 1 BY DEF Plenty
<1>8. Len(commands) + Len(A) <= MaxCommands + 1
  <2>1. MaxCommands \in Nat /\ MaxCommands >= 1 BY BoundsAssumption
  <2>2. CASE A = <<>> BY <1>1, <1>3, <1>7, <2>1, <2>2
  <2>3. CASE A = <<"ack">>
    <3>1. <<"ack">> # <<>> /\ <<"ack">> # <<"ack", "ping">> OBVIOUS
    <3>2. Len(A) = 1 BY <1>3, <2>3, <3>1
    <3> QED BY <1>1, <1>5, <2>1, <2>3, <3>2
  <2>4. CASE A = <<"ping">>
    <3>1. <<"ping">> # <<>> /\ <<"ping">> # <<"ack", "ping">> OBVIOUS
    <3>2. Len(A) = 1 BY <1>3, <2>4, <3>1
    <3> QED BY <1>1, <1>4, <2>1, <2>4, <3>2
  <2>5. CASE A = <<"ack", "ping">>
    <3>1. <<"ack", "ping">> # <<>> OBVIOUS
    <3>2. Len(A) = 2 BY <1>3, <2>5, <3>1
    <3> QED BY <1>1, <1>4, <2>1, <2>5, <3>2
  <2> QED BY <1>2, <2>2, <2>3, <2>4, <2>5
<1> QED BY <1>2, <1>6, <1>8 DEF A

(* An update leaves queues of the right kind behind, with nothing in them that was not there. *)
LEMMA UpdateQueues ==
  ASSUME TypeOK, NEW due \in BOOLEAN, NEW late \in BOOLEAN, Update(due, late)
  PROVE  /\ events' \in Seq(Envelopes \cup {"disconnected"})
         /\ wire' \in Seq(Envelopes \cup {"eof"})
         /\ \A e : Contains(events', e) => Contains(events, e) \/ Contains(wire, e)
         /\ \A e : Contains(wire', e) => e = "eof" \/ Contains(wire, e)
<1> DEFINE T == Envelopes \cup {"disconnected"}
           W == Envelopes \cup {"eof"}
<1>1. events \in Seq(T) /\ wire \in Seq(W) BY DEF TypeOK
<1>2. Left \in Seq(T) BY TakenPlaces
<1>3. CASE Running
  <2>1. events' = Left /\ wire' \in Closed(wire) \cup {wire} BY <1>3 DEF Update, GoOn
  <2>2. wire' \in Seq(W) /\ \A e : Contains(wire', e) => e = "eof" \/ Contains(wire, e)
    BY <1>1, <2>1, ClosedIs
  <2> QED BY <1>2, <2>1, <2>2, EventsAreTakenOrLeft
<1>4. CASE ~Running
  <2>1. PICK read \in {n \in 0 .. Len(wire) : \A i \in 1 .. n : wire[i] # "eof"} :
          events' = Left \o SubSeq(wire, 1, read)
    BY <1>4 DEF Update, Finish
  <2>2. wire' = <<>> BY <1>4 DEF Update, Finish
  <2>3. Len(wire) \in Nat /\ read \in 0 .. Len(wire) BY <1>1
  <2> DEFINE part == SubSeq(wire, 1, read)
  <2>4. part \in Seq(W) /\ \A e : Contains(part, e) => Contains(wire, e)
    BY <1>1, <2>3, PartHas
  <2>5. part \in Seq(T)
    <3>1. Len(part) = read /\ \A i \in 1 .. read : part[i] = wire[i] BY <1>1, <2>3
    <3>2. \A i \in 1 .. read : part[i] \in T
      <4>1. TAKE i \in 1 .. read
      <4>2. wire[i] \in W /\ wire[i] # "eof" BY <1>1, <2>1, <2>3
      <4> QED BY <3>1, <4>2
    <3> HIDE DEF part
    <3>3. part \in [1 .. read -> W] BY <2>4, <3>1, LenProperties
    <3>4. part \in [1 .. read -> T] BY <3>2, <3>3
    <3> QED BY <2>3, <3>4
  <2> HIDE DEF part
  <2>6. events' = Left \o part BY <2>1 DEF part
  <2>7. events' \in Seq(T) BY <1>2, <2>5, <2>6, ConcatProperties
  <2>8. \A e : Contains(events', e) <=> Contains(Left, e) \/ Contains(part, e)
    BY <1>2, <2>5, <2>6, ConcatHas
  <2>9. \A e : ~Contains(<<>>, e) BY DEF Contains
  <2>10. <<>> \in Seq(W) OBVIOUS
  <2> QED BY <2>2, <2>4, <2>7, <2>8, <2>9, <2>10, EventsAreTakenOrLeft
<1> QED BY <1>3, <1>4

LEMMA UpdateType ==
  ASSUME TypeOK, Plenty, NEW due \in BOOLEAN, NEW late \in BOOLEAN, Update(due, late)
  PROVE  TypeOK'
<1>1. events' \in Seq(Envelopes \cup {"disconnected"}) /\ wire' \in Seq(Envelopes \cup {"eof"})
  BY UpdateQueues
<1>2. /\ alive /\ alive' = alive /\ sessions' = sessions /\ stopFile' = stopFile
      /\ gameVars' = gameVars /\ commands' = commands \o Answers(due)
      /\ due => Room \/ link # "connected"
  BY DEF Update
<1>3. commands' \in Seq(Commands) /\ Len(commands') <= MaxCommands + 1
  BY <1>2, RoomForAnswers
<1>4. Len(commands') <= MaxCommands + 2
  <2>1. Len(commands') \in Nat /\ MaxCommands \in Nat BY <1>3, BoundsAssumption
  <2> QED BY <1>3, <2>1
<1>5. shutdownComplete' \in BOOLEAN
  BY DEF Update, TypeOK
<1>6. Applied \in Controls BY AppliedIs
<1>7. CASE Running
  <2>1. /\ view' = TRUE /\ authenticated' = Known /\ link' = link
        /\ control' = IF Fails(due, late) THEN "failed" ELSE Applied
        /\ deadline' = FailDeadline(Fails(due, late)) /\ process' \in {process, "bad"}
    BY <1>7 DEF Update, GoOn
  <2>2. control' \in Controls BY <1>6, <2>1 DEF Controls
  <2>3. deadline' \in {"none", "set", "passed"} BY <2>1 DEF FailDeadline, TypeOK
  <2>4. authenticated' \in BOOLEAN BY <2>1 DEF Known, Greeted, Rejected, TypeOK
  <2>5. authenticated' => link' # "stopped" BY <1>2, <2>1, DecodedPlaces DEF TypeOK
  <2>6. view' \in BOOLEAN /\ (deadline' # "none" => view') BY <2>1
  <2>7. process' \in {"none", "running", "clean", "bad"} /\ link' \in {"stopped", "listening", "connected"}
    BY <2>1 DEF TypeOK
  <2> QED
    BY <1>1, <1>2, <1>3, <1>4, <1>5, <2>2, <2>3, <2>4, <2>5, <2>6, <2>7 DEF TypeOK, Controls, gameVars
<1>8. CASE ~Running
  <2>1. /\ view' = FALSE /\ deadline' = "none" /\ authenticated' = FALSE /\ link' = "stopped"
        /\ control' \in {"failed", "stopped"} /\ process' = process
    BY <1>8 DEF Update, Finish, StoppedSession
  <2>2. /\ view' \in BOOLEAN /\ authenticated' \in BOOLEAN /\ (deadline' # "none" => view')
        /\ (alive' /\ authenticated' => link' # "stopped")
    BY <2>1
  <2>3. /\ deadline' \in {"none", "set", "passed"} /\ process' \in {"none", "running", "clean", "bad"}
        /\ link' \in {"stopped", "listening", "connected"}
        /\ control' \in {"stopped", "connecting", "running", "paused", "stopping", "failed"}
    BY <2>1 DEF TypeOK
  <2> QED BY <1>1, <1>2, <1>3, <1>4, <1>5, <2>2, <2>3 DEF TypeOK, gameVars
<1> QED BY <1>7, <1>8

LEMMA HandleType ==
  ASSUME TypeOK, HandleCommand
  PROVE  TypeOK'
<1>1. commands \in Seq(Commands) /\ commands # <<>> BY DEF TypeOK, HandleCommand
<1>2. /\ Head(commands) \in Commands /\ Tail(commands) \in Seq(Commands)
      /\ Len(Tail(commands)) = Len(commands) - 1 /\ Len(commands) \in Nat
  BY <1>1, TailHas
<1>3. Handled(Head(commands)).says \in Seq(Envelopes) /\ Handled(Head(commands)).state \in Progress
  BY <1>2, HandledType
<1>4. /\ commands' = Tail(commands) /\ wire' = Sent(Handled(Head(commands)).says)
      /\ rstate' = Handled(Head(commands)).state
      /\ exit' = ExitAfter(rstate', Head(commands))
      /\ UNCHANGED <<editorSide, link, phase, rlink, hung>>
  BY DEF HandleCommand
<1>5. wire' \in Seq(Envelopes \cup {"eof"}) BY <1>3, <1>4, SentIs
<1>6. exit' \in {"none", "asked", "failed"} BY <1>4 DEF ExitAfter, TypeOK
<1>7. Len(commands') <= MaxCommands + 2
  <2>1. Len(commands) <= MaxCommands + 2 /\ MaxCommands \in Nat BY BoundsAssumption DEF TypeOK
  <2> QED BY <1>2, <1>4, <2>1
<1> QED BY <1>2, <1>3, <1>4, <1>5, <1>6, <1>7 DEF TypeOK, Progress, editorSide, editorVars

LEMMA ArriveType ==
  ASSUME TypeOK, Arrive
  PROVE  TypeOK'
<1>1. wire \in Seq(Envelopes \cup {"eof"}) /\ wire # <<>> BY DEF TypeOK, Arrive
<1>2. Tail(wire) \in Seq(Envelopes \cup {"eof"}) /\ Head(wire) \in Envelopes \cup {"eof"}
  BY <1>1, TailHas
<1>3. events' \in Seq(Envelopes \cup {"disconnected"})
  <2>1. (IF Head(wire) = "eof" THEN "disconnected" ELSE Head(wire)) \in Envelopes \cup {"disconnected"}
    BY <1>2
  <2> QED BY <2>1 DEF Arrive, TypeOK
<1> QED BY <1>2, <1>3 DEF Arrive, TypeOK, editorVars, gameVars

LEMMA StepType ==
  ASSUME TypeOK, Plenty, [Next]_vars
  PROVE  TypeOK'
<1> DEFINE W == Envelopes \cup {"eof"}
<1>1. wire \in Seq(W) /\ commands \in Seq(Commands) /\ Len(commands) \in Nat /\ MaxCommands \in Nat
  BY BoundsAssumption DEF TypeOK
<1>2. CASE Arrive BY <1>2, ArriveType
<1>3. CASE DeadlinePasses BY <1>3 DEF DeadlinePasses, TypeOK, gameVars
<1>4. CASE Updates
  <2>1. PICK due \in BOOLEAN, late \in {FALSE, Timeouts} : Update(due, late) BY <1>4 DEF Updates
  <2>2. late \in BOOLEAN BY BoundsAssumption
  <2> QED BY <2>1, <2>2, UpdateType
<1>5. CASE Start
  <2>1. sessions' \in 0 .. MaxSessions BY <1>5, BoundsAssumption DEF Start, TypeOK
  <2>2. /\ wire' \in Seq(W) /\ commands' \in Seq(Commands) /\ Len(commands') = 0
        /\ events' \in Seq(Envelopes \cup {"disconnected"})
    BY <1>5 DEF Start
  <2>3. Len(commands') <= MaxCommands + 2 BY <1>1, <2>2
  <2>4. /\ alive' = alive /\ shutdownComplete' = FALSE /\ deadline' = "none"
        /\ authenticated' = FALSE /\ stopFile' = FALSE /\ phase' = "loop" /\ exit' = "none"
        /\ rlink' = FALSE /\ hung' = FALSE
    BY <1>5 DEF Start
  <2>5. /\ view' \in BOOLEAN /\ process' \in {"running", "none"}
        /\ rstate' \in {"connecting", "stopped"} /\ control' \in {"connecting", "failed"}
        /\ link' \in {"listening", "stopped"}
    BY <1>5 DEF Start
  <2> QED BY <2>1, <2>2, <2>3, <2>4, <2>5 DEF TypeOK
<1>6. CASE RequestStop
  <2>1. commands' \in Seq(Commands) /\ Len(commands') <= MaxCommands + 2
    <3>1. CASE commands' = commands BY <3>1 DEF TypeOK
    <3>2. CASE Room /\ commands' = Append(commands, "stop")
      <4>1. "stop" \in Commands /\ alive BY <1>6 DEF Commands, RequestStop
      <4>2. commands' \in Seq(Commands) /\ Len(commands') <= MaxCommands
            /\ Len(commands') = Len(commands) + 1
        BY <3>2, <4>1, RoomForOne
      <4> QED BY <1>1, <4>2
    <3> QED BY <1>6, <3>1, <3>2 DEF RequestStop
  <2>2. control' \in {control, "stopping"} /\ stopFile' \in {stopFile, TRUE}
    BY <1>6 DEF RequestStop
  <2>3. deadline' \in {"set", deadline} BY <1>6 DEF RequestStop, StopDeadline
  <2>4. /\ view /\ stopFile' \in BOOLEAN /\ deadline' \in {"none", "set", "passed"}
        /\ control' \in Controls
    BY <1>6, <2>2, <2>3 DEF RequestStop, TypeOK, Controls
  <2>5. UNCHANGED <<alive, sessions, view, authenticated, shutdownComplete, link, events,
                    wire, process, gameVars>>
    BY <1>6 DEF RequestStop
  <2> QED BY <2>1, <2>4, <2>5 DEF TypeOK, gameVars, Controls
<1>7. ASSUME NEW c \in {"pause", "resume"}, NEW from \in {"running", "paused"},
             RequestPause(c, from)
      PROVE  TypeOK'
  <2>1. commands' \in Seq(Commands) /\ Len(commands') <= MaxCommands + 2
    <3>1. c \in Commands /\ alive /\ Room /\ commands' = Append(commands, c)
      BY <1>7 DEF Commands, RequestPause
    <3>2. commands' \in Seq(Commands) /\ Len(commands') <= MaxCommands
          /\ Len(commands') = Len(commands) + 1
      BY <3>1, RoomForOne
    <3> QED BY <1>1, <3>2
  <2> QED BY <1>7, <2>1 DEF RequestPause, TypeOK, gameVars, editorVars
<1>8. CASE Connect
  <2>1. commands' \in Seq(Commands) /\ Len(commands') <= MaxCommands + 2
    <3>1. CASE commands' = commands BY <3>1 DEF TypeOK
    <3>2. CASE commands' = <<"connected">>
      <4>1. "connected" \in Commands BY DEF Commands
      <4>2. commands' \in Seq(Commands) /\ Len(commands') = 1 BY <3>2, <4>1
      <4> QED BY <1>1, <4>2
    <3> QED BY <1>8, <3>1, <3>2 DEF Connect
  <2>2. /\ rlink' \in BOOLEAN /\ link' \in {link, "connected"} /\ rstate' \in {rstate, "failed"}
        /\ exit' \in {exit, "failed"}
    BY <1>8 DEF Connect, TypeOK
  <2> QED BY <1>8, <2>1, <2>2 DEF Connect, TypeOK, editorSide, editorVars
<1>9. CASE HandleCommand BY <1>9, HandleType
<1>10. CASE LeaveLoop
  <2>1. wire' \in Seq(W)
    <3> DEFINE says == IF exit = "failed" THEN <<>> ELSE <<"stopping", "shutdown">>
    <3>1. says \in Seq(Envelopes)
      <4>1. "stopping" \in Envelopes /\ "shutdown" \in Envelopes BY DEF Envelopes, States
      <4>2. <<>> \in Seq(Envelopes) /\ <<"stopping", "shutdown">> \in Seq(Envelopes) BY <4>1
      <4> QED BY <4>2
    <3>2. wire' = wire \/ wire' \in Closed(Sent(says)) BY <1>10 DEF LeaveLoop
    <3> HIDE DEF says
    <3>3. Sent(says) \in Seq(W) BY <3>1, SentIs
    <3>4. "eof" \in W OBVIOUS
    <3> QED BY <1>1, <3>2, <3>3, <3>4, ClosedIs
  <2> QED BY <1>10, <2>1 DEF LeaveLoop, TypeOK, editorSide, editorVars
<1>11. CASE Exit BY <1>11 DEF Exit, TypeOK, editorVars, gameVars
<1>12. CASE EditorCrash
  <2>1. commands' \in Seq(Commands) /\ Len(commands') <= MaxCommands + 2
    <3>1. Len(commands) <= MaxCommands + 1 BY <1>12 DEF Plenty, EditorCrash
    <3>2. "eof" \in Commands BY DEF Commands
    <3>3. Append(commands, "eof") \in Seq(Commands) /\ Len(Append(commands, "eof")) = Len(commands) + 1
      BY <1>1, <3>2
    <3> QED BY <1>1, <1>12, <3>1, <3>3 DEF EditorCrash
  <2>2. events' \in Seq(Envelopes \cup {"disconnected"}) /\ wire' \in Seq(W)
    BY <1>12 DEF EditorCrash
  <2>3. alive' = FALSE /\ link' = "stopped"
        /\ UNCHANGED <<sessions, view, authenticated, control, shutdownComplete, deadline,
                       stopFile, process, phase, exit, rlink, rstate, hung>>
    BY <1>12 DEF EditorCrash, editorVars, gameVars
  <2>4. alive' \in BOOLEAN /\ ~alive' BY <2>3
  <2> QED BY <2>1, <2>2, <2>3, <2>4 DEF TypeOK
<1>13. CASE Timeout BY <1>13 DEF Timeout, TypeOK, editorSide, editorVars
<1>14. CASE AskExit
  <2>1. exit' = "asked" /\ stopFile' \in BOOLEAN BY <1>14 DEF AskExit, TypeOK
  <2>2. UNCHANGED <<alive, sessions, editorVars, link, events, wire, commands, process,
                    phase, rlink, rstate, hung>>
    BY <1>14 DEF AskExit
  <2> QED BY <2>1, <2>2 DEF TypeOK, editorVars
<1>15. CASE Crash
  <2>1. wire' \in Seq(W)
    <3>1. "eof" \in W /\ wire' \in Closed(wire) BY <1>15 DEF Crash
    <3> QED BY <1>1, <3>1, ClosedIs
  <2> QED BY <1>15, <2>1 DEF Crash, TypeOK, editorVars, gameVars
<1>16. CASE Hang BY <1>16 DEF Hang, TypeOK, editorSide, editorVars
<1>17. CASE UNCHANGED vars BY <1>17 DEF vars, TypeOK, editorVars, gameVars
<1> QED
  BY <1>2, <1>3, <1>4, <1>5, <1>6, <1>7, <1>8, <1>9, <1>10, <1>11, <1>12, <1>13, <1>14, <1>15,
     <1>16, <1>17
  DEF Next, Player, Game, Faults

(***************************************************************************)
(* What is said                                                            *)
(***************************************************************************)
LEMMA NothingInEmpty == \A e : ~Contains(<<>>, e)
BY DEF Contains

(* Envelopes come from a handler or from the farewell; all other steps move or lose them. *)
LEMMA StepSays ==
  ASSUME TypeOK, [Next]_vars, NEW e \in Envelopes, Contains(events', e) \/ Contains(wire', e)
  PROVE  \/ Contains(events, e) \/ Contains(wire, e)
         \/ HandleCommand /\ Contains(Handled(Head(commands)).says, e)
         \/ LeaveLoop /\ e \in {"stopping", "shutdown"}
<1> DEFINE W == Envelopes \cup {"eof"}
           Goal == Contains(events, e) \/ Contains(wire, e)
<1>1. /\ wire \in Seq(W) /\ commands \in Seq(Commands) /\ "eof" \in W
      /\ events \in Seq(Envelopes \cup {"disconnected"})
  BY DEF TypeOK
<1>2. e # "eof" /\ e # "disconnected" BY DEF Envelopes, States
<1>3. CASE Arrive
  <2>1. wire # <<>> /\ wire' = Tail(wire) BY <1>3 DEF Arrive
  <2>2. Contains(wire, Head(wire)) /\ (Contains(Tail(wire), e) => Contains(wire, e))
        /\ Head(wire) \in W
    BY <1>1, <2>1, TailHas
  <2> DEFINE x == IF Head(wire) = "eof" THEN "disconnected" ELSE Head(wire)
  <2>3. events' = Append(events, x) BY <1>3 DEF Arrive
  <2>4. x \in Envelopes \cup {"disconnected"} BY <2>2
  <2>5. Contains(events', e) <=> Contains(events, e) \/ e = x BY <1>1, <2>3, <2>4, AppendHas
  <2>6. e = x => e = Head(wire) BY <1>2
  <2> QED BY <2>1, <2>2, <2>5, <2>6
<1>4. CASE Updates
  <2>1. PICK due \in BOOLEAN, late \in {FALSE, Timeouts} : Update(due, late) BY <1>4 DEF Updates
  <2>2. late \in BOOLEAN BY BoundsAssumption
  <2> QED BY <1>2, <2>1, <2>2, UpdateQueues
<1>5. CASE Start
  <2>1. events' = <<>> /\ wire' = <<>> BY <1>5 DEF Start
  <2> QED BY <2>1, NothingInEmpty
<1>6. CASE EditorCrash
  <2>1. events' = <<>> /\ wire' = <<>> BY <1>6 DEF EditorCrash
  <2> QED BY <2>1, NothingInEmpty
<1>7. CASE HandleCommand
  <2>1. commands # <<>> /\ wire' = Sent(Handled(Head(commands)).says) /\ events' = events
    BY <1>7 DEF HandleCommand, editorSide
  <2>2. Head(commands) \in Commands BY <1>1, <2>1, TailHas
  <2>3. Handled(Head(commands)).says \in Seq(Envelopes) BY <2>2, HandledType
  <2>4. Contains(wire', e) => Contains(wire, e) \/ Contains(Handled(Head(commands)).says, e)
    BY <2>1, <2>3, SentIs
  <2> QED BY <1>7, <2>1, <2>4
<1>8. CASE LeaveLoop
  <2> DEFINE says == IF exit = "failed" THEN <<>> ELSE <<"stopping", "shutdown">>
  <2>1. events' = events /\ (wire' = wire \/ wire' \in Closed(Sent(says)))
    BY <1>8 DEF LeaveLoop, editorSide
  <2>2. says \in Seq(Envelopes)
    <3>1. "stopping" \in Envelopes /\ "shutdown" \in Envelopes BY DEF Envelopes, States
    <3>2. <<>> \in Seq(Envelopes) /\ <<"stopping", "shutdown">> \in Seq(Envelopes) BY <3>1
    <3> QED BY <3>2
  <2>3. Contains(says, e) => e \in {"stopping", "shutdown"} BY DEF Contains
  <2> HIDE DEF says
  <2>4. Sent(says) \in Seq(W) /\ (Contains(Sent(says), e) => Contains(wire, e) \/ Contains(says, e))
    BY <2>2, SentIs
  <2>5. wire' \in Closed(Sent(says)) => (Contains(wire', e) => e = "eof" \/ Contains(Sent(says), e))
    BY <1>1, <2>4, ClosedIs
  <2> QED BY <1>2, <1>8, <2>1, <2>3, <2>4, <2>5
<1>9. CASE Crash
  <2>1. events' = events /\ wire' \in Closed(wire) BY <1>9 DEF Crash
  <2> QED BY <1>1, <1>2, <2>1, ClosedIs
<1>10. ASSUME UNCHANGED <<events, wire>> PROVE Goal BY <1>10
<1>11. DeadlinePasses \/ RequestStop \/ RequestPause("pause", "running")
         \/ RequestPause("resume", "paused") \/ Connect \/ Exit \/ Timeout \/ AskExit \/ Hang
         \/ UNCHANGED vars => UNCHANGED <<events, wire>>
  BY DEF DeadlinePasses, RequestStop, RequestPause, Connect, Exit, Timeout, AskExit, Hang, vars,
         editorSide
<1> QED BY <1>3, <1>4, <1>5, <1>6, <1>7, <1>8, <1>9, <1>10, <1>11 DEF Next, Player, Game, Faults

(* The life of the game: one start, one way out of its loop, one end. *)
LEMMA StepLives ==
  ASSUME [Next]_vars
  PROVE  \/ Start
         \/ /\ process' = "running" => process = "running"
            /\ phase = "closing" => phase' = "closing"
            /\ phase' = "closing" => phase = "closing" \/ LeaveLoop
            /\ LeaveLoop => phase' = "closing"
            /\ rlink => rlink'
            /\ alive' => alive
<1>1. CASE Updates BY <1>1 DEF Updates, Update, Finish, GoOn, LeaveLoop, gameVars
<1>2. CASE HandleCommand BY <1>2 DEF HandleCommand, LeaveLoop, editorSide
<1>3. CASE LeaveLoop BY <1>3 DEF LeaveLoop, editorSide
<1>4. CASE Connect BY <1>4 DEF Connect, LeaveLoop, editorSide
<1>5. CASE Arrive BY <1>5 DEF Arrive, LeaveLoop, gameVars
<1>6. CASE DeadlinePasses \/ RequestStop BY <1>6 DEF DeadlinePasses, RequestStop, LeaveLoop, gameVars
<1>7. CASE RequestPause("pause", "running") \/ RequestPause("resume", "paused")
  BY <1>7 DEF RequestPause, LeaveLoop, gameVars
<1>8. CASE Exit \/ Crash BY <1>8 DEF Exit, Crash, LeaveLoop, gameVars
<1>9. CASE EditorCrash BY <1>9 DEF EditorCrash, LeaveLoop, gameVars
<1>10. CASE Timeout \/ AskExit \/ Hang BY <1>10 DEF Timeout, AskExit, Hang, LeaveLoop, editorSide
<1>11. CASE UNCHANGED vars BY <1>11 DEF vars, LeaveLoop, gameVars
<1> QED BY <1>1, <1>2, <1>3, <1>4, <1>5, <1>6, <1>7, <1>8, <1>9, <1>10, <1>11
        DEF Next, Player, Game, Faults

(* A shutdown is believed only when an update has read it. *)
LEMMA StepBelieves ==
  ASSUME TypeOK, [Next]_vars, ~Start, shutdownComplete'
  PROVE  shutdownComplete \/ Contains(events, "shutdown")
<1>1. CASE Updates
  <2>1. PICK due \in BOOLEAN, late \in {FALSE, Timeouts} : Update(due, late) BY <1>1 DEF Updates
  <2>2. shutdownComplete \/ IsShutdown BY <2>1 DEF Update
  <2>3. ASSUME IsShutdown PROVE Contains(events, "shutdown")
    <3>1. PICK i \in Decoded : Taken[i] = "shutdown" BY <2>3 DEF IsShutdown
    <3>2. i \in 1 .. Len(Taken) BY DecodedPlaces
    <3> QED BY <3>1, <3>2, EventsAreTakenOrLeft
  <2> QED BY <2>2, <2>3
<1>2. ~Updates => shutdownComplete' = shutdownComplete
  BY DEF Next, Player, Game, Faults, Arrive, DeadlinePasses, RequestStop, RequestPause, Connect,
         HandleCommand, LeaveLoop, Exit, EditorCrash, Timeout, AskExit, Crash, Hang, vars,
         editorSide, editorVars
<1> QED BY <1>1, <1>2

LEMMA StepFarewell ==
  ASSUME TypeOK, Farewell, LetIn, [Next]_vars
  PROVE  Farewell'
<1>1. CASE Start
  <2>1. events' = <<>> /\ wire' = <<>> /\ ~shutdownComplete' BY <1>1 DEF Start
  <2> QED BY <2>1, NothingInEmpty DEF Farewell
<1>2. CASE ~Start
  <2>1. "shutdown" \in Envelopes BY DEF Envelopes
  <2>2. ASSUME shutdownComplete' \/ Contains(events', "shutdown") \/ Contains(wire', "shutdown")
        PROVE  LeaveLoop \/ shutdownComplete \/ Contains(events, "shutdown")
                 \/ Contains(wire, "shutdown")
    <3>1. HandleCommand => ~Contains(Handled(Head(commands)).says, "shutdown")
      <4>1. HandleCommand => Head(commands) \in Commands BY TailHas DEF HandleCommand, TypeOK
      <4> QED BY <4>1, HandledType
    <3> QED BY <1>2, <2>1, <2>2, <3>1, StepSays, StepBelieves
  <2>3. /\ process' = "running" => process = "running"
        /\ phase = "closing" => phase' = "closing"
        /\ LeaveLoop => phase' = "closing"
    BY <1>2, StepLives
  <2> QED BY <2>2, <2>3 DEF Farewell
<1> QED BY <1>1, <1>2

(***************************************************************************)
(* The handshake                                                           *)
(***************************************************************************)
LEMMA HandledState ==
  ASSUME NEW c
  PROVE  /\ Handled(c).state = "authenticating" => c = "connected"
         /\ Handled(c).state \in Playing =>
              c # "connected" /\ (rstate \in Playing \/ (rstate = "authenticating" /\ c = "ack"))
<1>1. rstate = "authenticating" /\ c \notin {"connected", "ack"} => Handled(c).state = "failed"
  BY DEF Handled
<1>2. c = "connected" => Handled(c).state = "authenticating" BY DEF Handled
<1>3. rstate \notin {"authenticating"} \cup Playing /\ c # "connected"
        => Handled(c).state \in {rstate, "failed"}
  BY DEF Handled, Playing
<1>4. rstate \in Playing /\ c # "connected" => Handled(c).state \in Playing \cup {"failed"}
  BY DEF Handled, Playing
<1>5. rstate = "authenticating" /\ c = "ack" => Handled(c).state = "running" BY DEF Handled
<1> QED BY <1>1, <1>2, <1>3, <1>4, <1>5 DEF Playing

LEMMA UnheardIsUnknown ==
  ASSUME TypeOK, ~authenticated, link # "connected" \/ ~Contains(events, "hello"),
         NEW due \in BOOLEAN, NEW late \in BOOLEAN, Update(due, late)
  PROVE  commands' = commands /\ ~authenticated'
<1>1. ~Known BY DecodedPlaces
<1>2. due => Room \/ link # "connected" BY DEF Update
<1>3. Answers(due) = <<>> BY <1>1, <1>2, AnswersAre
<1>4. commands' = commands \o Answers(due) BY DEF Update
<1>5. commands \in Seq(Commands) BY DEF TypeOK
<1>6. commands \o <<>> = commands BY <1>5, ConcatEmptySeq
<1>7. ~authenticated' BY <1>1 DEF Update, GoOn, Finish, StoppedSession
<1> QED BY <1>3, <1>4, <1>6, <1>7

LEMMA UpdatesAre ==
  ASSUME Updates
  PROVE  \E due \in BOOLEAN, late \in BOOLEAN : Update(due, late)
BY BoundsAssumption DEF Updates

(* Who touches the commands, and the game's state, besides. *)
LEMMA StepKeepsCommands ==
  ASSUME [Next]_vars, ~Updates, ~HandleCommand, ~Start, ~RequestStop, ~EditorCrash, ~Connect,
         ~RequestPause("pause", "running"), ~RequestPause("resume", "paused")
  PROVE  /\ commands' = commands /\ authenticated' = authenticated /\ alive' = alive
         /\ rlink' = rlink /\ rstate' \in {rstate, "failed", "stopped"}
BY DEF Next, Player, Game, Faults, Arrive, DeadlinePasses, LeaveLoop, Exit, Timeout, AskExit,
       Crash, Hang, vars, editorSide, editorVars, gameVars

LEMMA StepCommands ==
  ASSUME [Next]_vars
  PROVE  \/ Updates /\ alive' = alive /\ rlink' = rlink /\ rstate' = rstate /\ alive
         \/ HandleCommand /\ alive' = alive /\ rlink' = rlink /\ authenticated' = authenticated
         \/ Start
         \/ Connect /\ alive' = alive /\ authenticated' = authenticated
         \/ EditorCrash /\ ~alive' /\ alive /\ authenticated' = authenticated /\ rlink' = rlink
                        /\ rstate' = rstate
         \/ /\ commands' = commands /\ authenticated' = authenticated /\ alive' = alive
            /\ rlink' = rlink /\ rstate' \in {rstate, "failed", "stopped"}
         \/ /\ authenticated' = authenticated /\ alive' = alive /\ alive /\ authenticated /\ Room
            /\ rlink' = rlink /\ rstate' = rstate /\ link' = link
            /\ \E c \in {"stop", "pause", "resume"} : commands' = Append(commands, c)
<1>1. Updates => alive' = alive /\ rlink' = rlink /\ rstate' = rstate /\ alive
  BY DEF Updates, Update, gameVars
<1>2. HandleCommand => alive' = alive /\ rlink' = rlink /\ authenticated' = authenticated
  BY DEF HandleCommand, editorSide, editorVars
<1>3. Connect => alive' = alive /\ authenticated' = authenticated
  BY DEF Connect, editorSide, editorVars
<1>4. EditorCrash => ~alive' /\ alive /\ authenticated' = authenticated /\ rlink' = rlink
                       /\ rstate' = rstate
  BY DEF EditorCrash, editorVars, gameVars
<1>5. CASE RequestStop
  <2>1. authenticated' = authenticated /\ alive' = alive /\ alive /\ rlink' = rlink
        /\ rstate' = rstate /\ link' = link
    BY <1>5 DEF RequestStop, gameVars
  <2> QED BY <1>5, <2>1 DEF RequestStop, MayCommand
<1>6. CASE RequestPause("pause", "running") \/ RequestPause("resume", "paused")
  <2>1. authenticated' = authenticated /\ alive' = alive /\ alive /\ rlink' = rlink
        /\ rstate' = rstate /\ authenticated /\ Room /\ link' = link
    BY <1>6 DEF RequestPause, gameVars, editorVars, MayCommand
  <2> QED BY <1>6, <2>1 DEF RequestPause
<1> QED BY <1>1, <1>2, <1>3, <1>4, <1>5, <1>6, StepKeepsCommands

LEMMA StepUnconnected ==
  ASSUME TypeOK, Unconnected, [Next]_vars
  PROVE  Unconnected'
<1>1. CASE Start BY <1>1, NothingInEmpty DEF Start, Unconnected, Before
<1>2. ASSUME ~Start, ~rlink' PROVE Unconnected'
  <2>1. ~rlink BY <1>2, StepLives
  <2>2. /\ commands = <<>> /\ wire = <<>> /\ ~Contains(events, "hello")
        /\ rstate \in Before /\ link # "connected" /\ ~authenticated
    BY <2>1 DEF Unconnected
  <2>3. ~HandleCommand BY <2>2 DEF HandleCommand
  <2>4. "hello" \in Envelopes /\ ~Contains(wire, "hello") BY <2>2, NothingInEmpty DEF Envelopes
  <2>5. ~Contains(events', "hello") BY <2>2, <2>3, <2>4, StepSays
  <2>6. commands' = <<>> /\ ~authenticated' /\ rstate' \in Before
    <3>1. CASE Updates
      <4>1. PICK due \in BOOLEAN, late \in BOOLEAN : Update(due, late) BY <3>1, UpdatesAre
      <4>2. commands' = commands /\ ~authenticated' BY <2>2, <4>1, UnheardIsUnknown
      <4>3. rstate' = rstate BY <4>1 DEF Update, gameVars
      <4> QED BY <2>2, <4>2, <4>3
    <3>2. CASE Connect BY <1>2, <2>2, <3>2 DEF Connect, Before, editorSide, editorVars
    <3>3. CASE EditorCrash BY <2>1, <2>2, <3>3 DEF EditorCrash, editorVars, gameVars
    <3> QED BY <1>2, <2>2, <2>3, <3>1, <3>2, <3>3, StepCommands DEF Before
  <2>7. wire' = <<>> /\ link' # "connected"
    <3>1. CASE Updates
      <4>1. PICK due \in BOOLEAN, late \in BOOLEAN : Update(due, late) BY <3>1, UpdatesAre
      <4> QED BY <2>2, <4>1 DEF Update, GoOn, Finish, Closed
    <3>2. CASE LeaveLoop BY <2>1, <2>2, <3>2 DEF LeaveLoop
    <3>3. CASE Crash BY <2>2, <3>3 DEF Crash, Closed
    <3>4. CASE Connect BY <1>2, <2>2, <3>4 DEF Connect
    <3>5. CASE Arrive BY <2>2, <3>5 DEF Arrive
    <3>6. CASE EditorCrash BY <2>2, <3>6 DEF EditorCrash
    <3>7. ~Updates /\ ~LeaveLoop /\ ~Crash /\ ~Connect /\ ~Arrive /\ ~EditorCrash
            => UNCHANGED <<wire, link>>
      BY <1>2, <2>3 DEF Next, Player, Game, Faults, DeadlinePasses, RequestStop, RequestPause,
         Exit, Timeout, AskExit, Hang, vars, editorSide
    <3> QED BY <2>2, <3>1, <3>2, <3>3, <3>4, <3>5, <3>6, <3>7
  <2> QED BY <2>5, <2>6, <2>7 DEF Unconnected
<1> QED BY <1>1, <1>2 DEF Unconnected

LEMMA UpdateCommands ==
  ASSUME TypeOK, Plenty, NEW due \in BOOLEAN, NEW late \in BOOLEAN, Update(due, late)
  PROVE  /\ commands' \in Seq(Commands) /\ Len(commands') \in Nat /\ Len(commands) \in Nat
         /\ Len(commands') >= Len(commands)
         /\ \A i \in 1 .. Len(commands) : commands'[i] = commands[i]
         /\ \A i \in 1 .. Len(commands') : i > Len(commands) => commands'[i] \in {"ack", "ping"}
         /\ \A e : Contains(commands, e) => Contains(commands', e)
         /\ Contains(commands', "ack") => Contains(commands, "ack") \/ Known
         /\ Contains(commands', "stop") => Contains(commands, "stop")
         /\ commands = <<>> /\ Known /\ ~authenticated => commands' # <<>> /\ commands'[1] = "ack"
<1> DEFINE A == Answers(due)
<1>1. commands' = commands \o A /\ alive /\ (due => Room \/ link # "connected") BY DEF Update
<1>2. commands \in Seq(Commands) /\ Len(commands) \in Nat BY DEF TypeOK
<1>3. /\ A \in {<<>>, <<"ack">>, <<"ping">>, <<"ack", "ping">>}
      /\ ~authenticated /\ Known => A \in {<<"ack">>, <<"ack", "ping">>}
      /\ ~Known => A = <<>>
  BY <1>1, AnswersAre
<1>4. A \in Seq(Commands) /\ commands' \in Seq(Commands) /\ Len(commands') = Len(commands) + Len(A)
  BY <1>1, RoomForAnswers
<1>5. Len(A) \in Nat /\ \A i \in 1 .. Len(A) : A[i] \in {"ack", "ping"}
  <2> HIDE DEF A
  <2>1. Len(A) \in Nat BY <1>4
  <2>2. CASE A = <<>> BY <2>1, <2>2
  <2>3. CASE A = <<"ack">> BY <2>1, <2>3
  <2>4. CASE A = <<"ping">> BY <2>1, <2>4
  <2>5. CASE A = <<"ack", "ping">>
    <3>1. Len(A) = 2 /\ A[1] = "ack" /\ A[2] = "ping" BY <2>5
    <3>2. \A i \in 1 .. 2 : i = 1 \/ i = 2 OBVIOUS
    <3> QED BY <2>1, <3>1, <3>2
  <2> QED BY <1>3, <2>1, <2>2, <2>3, <2>4, <2>5
<1> HIDE DEF A
<1>6. \A i \in 1 .. Len(commands) : commands'[i] = commands[i]
  BY <1>1, <1>2, <1>4, ConcatProperties
<1>7. \A i \in 1 .. Len(A) : commands'[Len(commands) + i] = A[i]
  <2>1. TAKE i \in 1 .. Len(A)
  <2>2. Len(commands) + i \in 1 .. Len(commands) + Len(A) /\ Len(commands) + i > Len(commands)
        /\ Len(commands) + i - Len(commands) = i
    BY <1>2, <1>5
  <2> QED BY <1>1, <1>2, <1>4, <2>2, ConcatProperties
<1>8. \A i \in 1 .. Len(commands') : i > Len(commands) => commands'[i] \in {"ack", "ping"}
  <2>1. SUFFICES ASSUME NEW i \in 1 .. Len(commands'), i > Len(commands)
                 PROVE  commands'[i] \in {"ack", "ping"}
    OBVIOUS
  <2>2. i - Len(commands) \in 1 .. Len(A) /\ Len(commands) + (i - Len(commands)) = i
    BY <1>2, <1>4, <1>5, <2>1
  <2> QED BY <1>5, <1>7, <2>2
<1>9. \A e : Contains(commands', e) <=> Contains(commands, e) \/ Contains(A, e)
  BY <1>1, <1>2, <1>4, ConcatHas
<1>10. Contains(A, "ack") => Known BY <1>3, NothingInEmpty
<1>11. ~Contains(A, "stop") BY <1>5 DEF Contains
<1>12. commands = <<>> /\ Known /\ ~authenticated => commands' # <<>> /\ commands'[1] = "ack"
  <2>1. ASSUME commands = <<>>, Known, ~authenticated PROVE commands' # <<>> /\ commands'[1] = "ack"
    <3>1. A \in {<<"ack">>, <<"ack", "ping">>} BY <1>3, <2>1
    <3>2. Len(A) > 0 /\ A[1] = "ack" BY <3>1
    <3>3. Len(commands) = 0 BY <2>1
    <3>4. 1 \in 1 .. Len(A) /\ Len(commands) + 1 = 1 BY <1>5, <3>2, <3>3
    <3>5. commands'[1] = "ack" BY <1>7, <3>2, <3>4
    <3>6. Len(commands') > 0 BY <1>4, <3>2, <3>3, <1>5
    <3> QED BY <3>5, <3>6
  <2> QED BY <2>1
<1>13. Len(commands') \in Nat /\ Len(commands') >= Len(commands) BY <1>2, <1>4, <1>5
<1> QED BY <1>2, <1>4, <1>6, <1>8, <1>9, <1>10, <1>11, <1>12, <1>13

LEMMA AppendPlaces ==
  ASSUME NEW c \in Commands, commands \in Seq(Commands), commands' = Append(commands, c)
  PROVE  /\ Len(commands) \in Nat /\ Len(commands') = Len(commands) + 1
         /\ \A i \in 1 .. Len(commands) : commands'[i] = commands[i]
         /\ commands'[Len(commands) + 1] = c /\ commands' # <<>>
         /\ \A e : Contains(commands', e) <=> Contains(commands, e) \/ e = c
<1>1. Len(commands) \in Nat /\ Len(commands') = Len(commands) + 1 OBVIOUS
<1>2. \A i \in 1 .. Len(commands) : commands'[i] = commands[i] OBVIOUS
<1>3. commands'[Len(commands) + 1] = c OBVIOUS
<1>4. commands' # <<>> BY <1>1
<1>5. \A e : Contains(commands', e) <=> Contains(commands, e) \/ e = c BY AppendHas
<1> QED BY <1>1, <1>2, <1>3, <1>4, <1>5

LEMMA StepConnecting ==
  ASSUME TypeOK, Plenty, Unconnected, Connecting, [Next]_vars
  PROVE  Connecting'
<1> DEFINE First(s) == s # <<>> /\ Head(s) = "connected"
<1>1. commands \in Seq(Commands) /\ Len(commands) \in Nat BY DEF TypeOK
<1>2. "hello" \in Envelopes /\ "hello" \notin {"stopping", "shutdown"} BY DEF Envelopes
<1>3. CASE Start
  <2>1. commands' = <<>> /\ Len(commands') = 0 BY <1>3 DEF Start
  <2> QED BY <2>1 DEF Connecting
<1>4. CASE Connect /\ rlink'
  <2>1. ~rlink /\ Unheard /\ rstate \in Before /\ ~authenticated
    BY <1>4, NothingInEmpty DEF Connect, Unconnected, Unheard
  <2>2. CASE commands' = <<"connected">>
    <3>1. Len(commands') = 1 /\ \A i \in 2 .. Len(commands') : FALSE BY <2>2
    <3>2. Unheard' BY <1>4, <2>1 DEF Connect, Unheard, editorSide
    <3>3. rstate' \in Before /\ ~authenticated'
      BY <1>4, <2>1 DEF Connect, Before, editorSide, editorVars
    <3> QED BY <3>1, <3>2, <3>3 DEF Connecting
  <2> QED BY <1>4, <2>1, <2>2 DEF Connect
<1>5. CASE Connect /\ ~rlink'
  <2>1. commands' = <<>> BY <1>5 DEF Connect, Unconnected
  <2>2. Len(commands') = 0 BY <2>1
  <2> QED BY <2>1, <2>2 DEF Connecting
<1>6. CASE HandleCommand
  <2>1. commands # <<>> /\ commands' = Tail(commands) BY <1>6 DEF HandleCommand
  <2>2. /\ Len(commands') = Len(commands) - 1
        /\ \A i \in 1 .. Len(commands) - 1 : commands'[i] = commands[i + 1]
        /\ commands' \in Seq(Commands)
    BY <1>1, <2>1, TailHas
  <2>3. \A i \in 1 .. Len(commands') : commands'[i] # "connected"
    <3>1. TAKE i \in 1 .. Len(commands')
    <3>2. i + 1 \in 2 .. Len(commands) BY <1>1, <2>2
    <3> QED BY <2>2, <3>2 DEF Connecting
  <2>4. ~First(commands')
    <3>1. SUFFICES ASSUME commands' # <<>>, Head(commands') = "connected" PROVE FALSE OBVIOUS
    <3>2. Len(commands') > 0 /\ Head(commands') = commands'[1] BY <2>2, <3>1
    <3>3. 1 \in 1 .. Len(commands') BY <2>2, <3>2, <1>1
    <3> QED BY <2>3, <3>1, <3>2, <3>3
  <2>5. \A i \in 2 .. Len(commands') : commands'[i] # "connected" BY <2>3, <1>1, <2>2
  <2> QED BY <2>4, <2>5 DEF Connecting
<1>7. ASSUME Unheard, ~HandleCommand, ~Start PROVE Unheard'
  BY <1>2, <1>7, StepSays DEF Unheard
<1>8. CASE Updates
  <2>1. PICK due \in BOOLEAN, late \in BOOLEAN : Update(due, late) BY <1>8, UpdatesAre
  <2>2. ~HandleCommand /\ ~Start
    <3>1. Len(commands') >= Len(commands) /\ Len(commands') \in Nat BY <2>1, UpdateCommands
    <3>2. HandleCommand => Len(commands') = Len(commands) - 1 BY <1>1, TailHas DEF HandleCommand
    <3>3. Start => sessions' = sessions + 1 /\ sessions \in Nat BY DEF Start, TypeOK
    <3>4. sessions' = sessions BY <2>1 DEF Update
    <3> QED BY <1>1, <3>1, <3>2, <3>3, <3>4
  <2>3. CASE First(commands)
    <3>1. rstate \in Before /\ ~authenticated /\ Unheard
          /\ \A i \in 2 .. Len(commands) : commands[i] = "eof"
      BY <2>3 DEF Connecting
    <3>2. commands' = commands /\ ~authenticated' BY <2>1, <3>1, UnheardIsUnknown DEF Unheard
    <3>3. rstate' = rstate BY <2>1 DEF Update, gameVars
    <3> QED BY <1>7, <2>2, <3>1, <3>2, <3>3 DEF Connecting
  <2>4. CASE ~First(commands)
    <3>1. /\ commands' \in Seq(Commands) /\ Len(commands') \in Nat
          /\ \A i \in 1 .. Len(commands) : commands'[i] = commands[i]
          /\ \A i \in 1 .. Len(commands') : i > Len(commands) => commands'[i] \in {"ack", "ping"}
      BY <2>1, UpdateCommands
    <3>2. \A i \in 2 .. Len(commands') : commands'[i] # "connected"
      <4>1. TAKE i \in 2 .. Len(commands')
      <4>2. CASE i <= Len(commands)
        <5>1. i \in 2 .. Len(commands) /\ i \in 1 .. Len(commands) BY <1>1, <4>2
        <5> QED BY <3>1, <5>1 DEF Connecting
      <4>3. CASE i > Len(commands)
        <5>1. i \in 1 .. Len(commands') BY <3>1
        <5> QED BY <3>1, <4>3, <5>1
      <4> QED BY <1>1, <4>2, <4>3
    <3>3. ~First(commands')
      <4>1. SUFFICES ASSUME commands' # <<>>, Head(commands') = "connected" PROVE FALSE OBVIOUS
      <4>2. Len(commands') > 0 /\ commands'[1] = "connected" BY <3>1, <4>1
      <4>3. 1 \in 1 .. Len(commands') BY <3>1, <4>2
      <4>4. Len(commands) >= 1 BY <1>1, <3>1, <4>2, <4>3
      <4>5. commands[1] = "connected" BY <1>1, <3>1, <4>2, <4>4
      <4>6. commands # <<>> /\ Head(commands) = "connected" BY <1>1, <4>4, <4>5
      <4> QED BY <2>4, <4>6
    <3> QED BY <3>2, <3>3 DEF Connecting
  <2> QED BY <2>3, <2>4
<1>9. ASSUME commands' = commands, authenticated' = authenticated,
             rstate' \in {rstate, "failed", "stopped"}, ~HandleCommand, ~Start
      PROVE  Connecting'
  BY <1>7, <1>9 DEF Connecting, Before
<1>10. ASSUME NEW c \in {"stop", "pause", "resume"}, commands' = Append(commands, c), authenticated
       PROVE  Connecting'
  <2>1. c \in Commands BY DEF Commands
  <2>2. /\ Len(commands') = Len(commands) + 1
        /\ \A i \in 1 .. Len(commands) : commands'[i] = commands[i]
        /\ commands'[Len(commands) + 1] = c
    BY <1>1, <1>10, <2>1, AppendPlaces
  <2>3. ~First(commands) BY <1>10 DEF Connecting
  <2>4. \A i \in 1 .. Len(commands') : commands'[i] # "connected"
    <3>1. TAKE i \in 1 .. Len(commands')
    <3>2. CASE i = Len(commands) + 1 BY <2>2, <3>2
    <3>3. CASE i \in 2 .. Len(commands) BY <2>2, <3>3, <1>1 DEF Connecting
    <3>4. CASE i = 1 /\ i <= Len(commands)
      <4>1. commands'[1] = commands[1] /\ commands # <<>> /\ Head(commands) = commands[1]
        BY <1>1, <2>2, <3>4
      <4> QED BY <2>3, <3>4, <4>1
    <3> QED BY <1>1, <2>2, <3>2, <3>3, <3>4
  <2>5. commands' \in Seq(Commands) BY <1>1, <1>10, <2>1
  <2>6. ~First(commands')
    <3>1. Head(commands') = commands'[1] /\ 1 \in 1 .. Len(commands') BY <1>1, <2>2, <2>5
    <3> QED BY <2>4, <3>1
  <2>7. \A i \in 2 .. Len(commands') : commands'[i] # "connected"
    <3>1. \A i \in 2 .. Len(commands') : i \in 1 .. Len(commands') BY <1>1, <2>2
    <3> QED BY <2>4, <3>1
  <2> QED BY <2>6, <2>7 DEF Connecting
<1>11. CASE EditorCrash
  <2>1. "eof" \in Commands BY DEF Commands
  <2>2. authenticated' = authenticated /\ rstate' = rstate
    BY <1>11 DEF EditorCrash, editorVars, gameVars
  <2>3. ~HandleCommand /\ ~Start
    BY <1>11 DEF EditorCrash, HandleCommand, Start, editorSide
  <2>4. CASE commands' = commands BY <1>9, <2>2, <2>3, <2>4
  <2>5. CASE commands' = Append(commands, "eof")
    <3>1. /\ Len(commands') = Len(commands) + 1
          /\ \A i \in 1 .. Len(commands) : commands'[i] = commands[i]
          /\ commands'[Len(commands) + 1] = "eof"
      BY <1>1, <2>1, <2>5, AppendPlaces
    <3>2. commands' \in Seq(Commands) BY <1>1, <2>1, <2>5
    <3>3. \A i \in 2 .. Len(commands') : commands'[i] = "eof" \/ (i \in 2 .. Len(commands) /\ commands'[i] = commands[i])
      <4>1. TAKE i \in 2 .. Len(commands')
      <4>2. CASE i = Len(commands) + 1 BY <3>1, <4>2
      <4>3. CASE i <= Len(commands)
        <5>1. i \in 2 .. Len(commands) /\ i \in 1 .. Len(commands) BY <1>1, <4>3
        <5> QED BY <3>1, <5>1
      <4> QED BY <1>1, <3>1, <4>2, <4>3
    <3>4. First(commands') => First(commands)
      <4>1. SUFFICES ASSUME commands' # <<>>, Head(commands') = "connected" PROVE First(commands)
        OBVIOUS
      <4>2. commands'[1] = "connected" BY <3>2, <4>1
      <4>3. Len(commands) # 0 BY <3>1, <4>2
      <4>4. 1 \in 1 .. Len(commands) BY <1>1, <4>3
      <4>5. commands[1] = "connected" BY <3>1, <4>2, <4>4
      <4> QED BY <1>1, <4>4, <4>5
    <3>5. First(commands) => Unheard' BY <1>7, <2>3 DEF Connecting
    <3> QED BY <2>2, <3>3, <3>4, <3>5 DEF Connecting
  <2> QED BY <1>11, <2>4, <2>5 DEF EditorCrash
<1>12. HandleCommand \/ Start \/ Updates \/ EditorCrash \/ Connect \/ Connecting'
  BY <1>9, <1>10, StepCommands
<1> QED BY <1>3, <1>4, <1>5, <1>6, <1>8, <1>11, <1>12

LEMMA StepAnswered ==
  ASSUME TypeOK, Plenty, Unconnected, Connecting, Answered, [Next]_vars
  PROVE  Answered'
<1> SUFFICES ASSUME rstate' = "authenticating"
             PROVE  /\ commands' # <<>> => Head(commands') \in {"ack", "eof"}
                    /\ alive' /\ authenticated' => commands' # <<>>
  BY DEF Answered
<1>1. commands \in Seq(Commands) /\ Len(commands) \in Nat BY DEF TypeOK
<1>2. ~Start BY DEF Start
<1>3. CASE HandleCommand
  <2>1. commands # <<>> /\ commands' = Tail(commands) /\ authenticated' = authenticated
        /\ Handled(Head(commands)).state = "authenticating"
    BY <1>3 DEF HandleCommand, editorSide, editorVars
  <2>2. Head(commands) = "connected" BY <2>1, HandledState
  <2>3. ~authenticated /\ \A i \in 2 .. Len(commands) : commands[i] = "eof"
    BY <2>1, <2>2 DEF Connecting
  <2>4. /\ Len(commands') = Len(commands) - 1 /\ commands' \in Seq(Commands)
        /\ \A i \in 1 .. Len(commands) - 1 : commands'[i] = commands[i + 1]
    BY <1>1, <2>1, TailHas
  <2>5. commands' # <<>> => Head(commands') = "eof"
    <3>1. SUFFICES ASSUME commands' # <<>> PROVE commands'[1] = "eof" BY <2>4
    <3>2. Len(commands') >= 1 BY <2>4, <3>1
    <3>3. 1 \in 1 .. Len(commands) - 1 /\ 1 + 1 \in 2 .. Len(commands) BY <1>1, <2>4, <3>2
    <3> QED BY <2>3, <2>4, <3>3
  <2> QED BY <2>1, <2>3, <2>5
<1>4. ASSUME rstate = "authenticating", Len(commands') >= Len(commands), Len(commands') \in Nat,
             commands' \in Seq(Commands),
             \A i \in 1 .. Len(commands) : commands'[i] = commands[i],
             commands = <<>> => commands' = <<>> \/ commands'[1] \in {"ack", "eof"},
             alive' /\ authenticated' /\ commands = <<>> => commands' # <<>>
      PROVE  /\ commands' # <<>> => Head(commands') \in {"ack", "eof"}
             /\ alive' /\ authenticated' => commands' # <<>>
  <2>1. CASE commands = <<>> BY <1>4, <2>1
  <2>2. CASE commands # <<>>
    <3>1. Len(commands) >= 1 /\ Head(commands) = commands[1] BY <1>1, <2>2
    <3>2. 1 \in 1 .. Len(commands) /\ Head(commands) \in {"ack", "eof"}
      BY <1>1, <1>4, <2>2, <3>1 DEF Answered
    <3>3. commands'[1] \in {"ack", "eof"} BY <1>4, <3>1, <3>2
    <3>4. commands' # <<>> BY <1>1, <1>4, <3>1
    <3> QED BY <1>4, <3>3, <3>4
  <2> QED BY <2>1, <2>2
<1>5. ASSUME commands' = commands, authenticated' = authenticated, alive' = alive,
             rstate' = rstate
      PROVE  /\ commands' # <<>> => Head(commands') \in {"ack", "eof"}
             /\ alive' /\ authenticated' => commands' # <<>>
  BY <1>5 DEF Answered
<1>6. CASE Connect
  <2>1. ~rlink /\ rstate' \in {rstate, "failed"} BY <1>6 DEF Connect
  <2>2. rstate \in Before BY <2>1 DEF Unconnected
  <2> QED BY <2>1, <2>2 DEF Before
<1>7. CASE Updates
  <2>1. PICK due \in BOOLEAN, late \in BOOLEAN : Update(due, late) BY <1>7, UpdatesAre
  <2>2. rstate' = rstate BY <2>1 DEF Update, gameVars
  <2>3. /\ commands' \in Seq(Commands) /\ Len(commands') \in Nat /\ Len(commands') >= Len(commands)
        /\ \A i \in 1 .. Len(commands) : commands'[i] = commands[i]
        /\ commands = <<>> /\ Known /\ ~authenticated => commands' # <<>> /\ commands'[1] = "ack"
    BY <2>1, UpdateCommands
  <2>4. rstate = "authenticating" /\ alive /\ commands = <<>> => ~authenticated BY DEF Answered
  <2>5. alive /\ (due => Room \/ link # "connected") BY <2>1 DEF Update
  <2>6. authenticated' => Known BY <2>1 DEF Update, GoOn, Finish, StoppedSession
  <2>7. ~Known /\ commands = <<>> => commands' = <<>>
    <3>1. ~Known => Answers(due) = <<>> BY <2>5, AnswersAre
    <3>2. commands' = commands \o Answers(due) BY <2>1 DEF Update
    <3>3. <<>> \o <<>> = <<>> OBVIOUS
    <3> QED BY <3>1, <3>2, <3>3
  <2>8. commands = <<>> => commands' = <<>> \/ commands'[1] \in {"ack", "eof"}
    BY <2>2, <2>3, <2>4, <2>5, <2>7
  <2>9. alive' /\ authenticated' /\ commands = <<>> => commands' # <<>>
    BY <2>2, <2>3, <2>4, <2>5, <2>6
  <2> QED BY <1>4, <2>2, <2>3, <2>8, <2>9
<1>8. CASE EditorCrash
  <2>1. ~alive' /\ rstate' = rstate BY <1>8 DEF EditorCrash, gameVars
  <2>2. CASE commands' = commands BY <2>1, <2>2 DEF Answered
  <2>3. CASE commands' = Append(commands, "eof")
    <3>1. "eof" \in Commands BY DEF Commands
    <3>2. /\ Len(commands') = Len(commands) + 1 /\ commands' \in Seq(Commands)
          /\ \A i \in 1 .. Len(commands) : commands'[i] = commands[i]
          /\ commands'[Len(commands) + 1] = "eof"
      BY <1>1, <2>3, <3>1, AppendPlaces
    <3>3. commands = <<>> => commands'[1] = "eof"
      <4>1. commands = <<>> => Len(commands) + 1 = 1 OBVIOUS
      <4> QED BY <3>2, <4>1
    <3> QED BY <1>1, <1>4, <2>1, <3>2, <3>3
  <2> QED BY <1>8, <2>2, <2>3 DEF EditorCrash
<1>9. ASSUME NEW c \in {"stop", "pause", "resume"}, commands' = Append(commands, c),
             authenticated, alive, rstate' = rstate
      PROVE  /\ commands' # <<>> => Head(commands') \in {"ack", "eof"}
             /\ alive' /\ authenticated' => commands' # <<>>
  <2>1. commands # <<>> BY <1>9 DEF Answered
  <2>2. c \in Commands BY DEF Commands
  <2>3. /\ Len(commands') = Len(commands) + 1 /\ commands' \in Seq(Commands)
        /\ \A i \in 1 .. Len(commands) : commands'[i] = commands[i]
    BY <1>1, <1>9, <2>2, AppendPlaces
  <2> QED BY <1>1, <1>4, <1>9, <2>1, <2>3
<1> QED BY <1>2, <1>3, <1>5, <1>6, <1>7, <1>8, <1>9, StepCommands

LEMMA StepPlenty ==
  ASSUME TypeOK, Plenty, Unconnected, [Next]_vars
  PROVE  Plenty'
<1>1. /\ commands \in Seq(Commands) /\ Len(commands) \in Nat
      /\ MaxCommands \in Nat /\ MaxCommands >= 1
  BY BoundsAssumption DEF TypeOK
<1>2. CASE Start
  <2>1. commands' = <<>> /\ Len(commands') = 0 BY <1>2 DEF Start
  <2> QED BY <1>1, <2>1 DEF Plenty
<1>3. ASSUME Len(commands') <= Len(commands), Len(commands') \in Nat, alive' => alive,
             alive /\ link' = "connected" /\ ~authenticated' => link = "connected" /\ ~authenticated
      PROVE  Plenty'
  BY <1>1, <1>3 DEF Plenty
<1>4. CASE HandleCommand
  <2>1. commands # <<>> /\ commands' = Tail(commands) /\ link' = link
        /\ authenticated' = authenticated /\ alive' = alive
    BY <1>4 DEF HandleCommand, editorSide, editorVars
  <2>2. Len(commands') = Len(commands) - 1 /\ Len(commands) # 0 BY <1>1, <2>1, TailHas
  <2> QED BY <1>1, <1>3, <2>1, <2>2
<1>5. CASE Connect
  <2>1. ~rlink BY <1>5 DEF Connect
  <2>2. commands = <<>> /\ Len(commands) = 0 BY <2>1 DEF Unconnected
  <2>3. Len(commands') <= 1 /\ Len(commands') \in Nat
    <3>1. commands' = commands \/ commands' = <<"connected">> BY <1>5 DEF Connect
    <3>2. commands' = <<"connected">> => Len(commands') = 1 OBVIOUS
    <3>3. commands' = commands => Len(commands') = 0 BY <2>2
    <3>4. Len(commands') = 0 \/ Len(commands') = 1 BY <3>1, <3>2, <3>3
    <3>5. ASSUME NEW n, n = 0 \/ n = 1 PROVE n <= 1 /\ n \in Nat BY <3>5
    <3> QED BY <3>4, <3>5
  <2> QED BY <1>1, <2>3 DEF Plenty
<1>6. CASE EditorCrash BY <1>6 DEF EditorCrash, Plenty
<1>7. CASE Updates
  <2>1. PICK due \in BOOLEAN, late \in BOOLEAN : Update(due, late) BY <1>7, UpdatesAre
  <2>2. alive /\ (due => Room \/ link # "connected") /\ commands' = commands \o Answers(due)
    BY <2>1 DEF Update
  <2>3. Len(commands') <= MaxCommands + 1 BY <2>2, RoomForAnswers
  <2>4. ASSUME link' = "connected", ~authenticated' PROVE Len(commands') <= 1
    <3>1. link = "connected" /\ ~Known BY <2>1, <2>4 DEF Update, GoOn, Finish
    <3>2. ~authenticated BY <3>1 DEF Known
    <3>3. Answers(due) = <<>> BY <2>2, <3>1, AnswersAre
    <3>4. commands' = commands BY <1>1, <2>2, <3>3, ConcatEmptySeq
    <3> QED BY <2>2, <3>1, <3>2, <3>4 DEF Plenty
  <2> QED BY <2>3, <2>4 DEF Plenty
<1>8. ASSUME NEW c \in {"stop", "pause", "resume"}, commands' = Append(commands, c), Room, alive,
             authenticated, authenticated' = authenticated
      PROVE  Plenty'
  <2>1. c \in Commands BY DEF Commands
  <2>2. Len(commands') <= MaxCommands /\ Len(commands') = Len(commands) + 1
    BY <1>8, <2>1, RoomForOne
  <2> QED BY <1>1, <1>8, <2>2 DEF Plenty
<1>9. ASSUME commands' = commands, authenticated' = authenticated, alive' = alive, ~Start, ~Updates,
             ~HandleCommand, ~Connect
      PROVE  Plenty'
  <2>1. link' = "connected" => link = "connected"
    BY <1>9 DEF Next, Player, Game, Faults, Arrive, DeadlinePasses, RequestStop, RequestPause,
       LeaveLoop, Exit, EditorCrash, Timeout, AskExit, Crash, Hang, vars, editorSide
  <2> QED BY <1>1, <1>3, <1>9, <2>1
<1> QED BY <1>2, <1>4, <1>5, <1>6, <1>7, <1>8, <1>9, StepCommands

LEMMA StepLetIn ==
  ASSUME TypeOK, Plenty, Unconnected, Connecting, Answered, LetIn, [Next]_vars
  PROVE  LetIn'
<1>1. commands \in Seq(Commands) /\ Len(commands) \in Nat /\ wire \in Seq(Envelopes \cup {"eof"})
  BY DEF TypeOK
<1>2. CASE Start
  <2>1. commands' = <<>> /\ ~rlink' /\ rstate' \in {"connecting", "stopped"} /\ phase' = "loop"
    BY <1>2 DEF Start
  <2> QED BY <2>1, NothingInEmpty DEF LetIn, Playing
<1>3. ASSUME ~Start, phase' = "closing" PROVE rstate' = "stopped"
  <2>1. CASE LeaveLoop BY <2>1 DEF LeaveLoop
  <2>2. CASE ~LeaveLoop
    <3>1. phase = "closing" BY <1>3, <2>2, StepLives
    <3>2. rstate = "stopped" BY <3>1 DEF LetIn
    <3>3. ~HandleCommand /\ ~Connect BY <3>1 DEF HandleCommand, Connect, Pumps
    <3>4. ~Timeout BY <3>1 DEF Timeout, Pumps
    <3>5. rstate' = rstate
      BY <1>3, <2>2, <3>3, <3>4 DEF Next, Player, Game, Faults, Arrive, DeadlinePasses, Updates,
         Update, RequestStop, RequestPause, Exit, EditorCrash, AskExit, Crash, Hang, vars, gameVars
    <3> QED BY <3>2, <3>5
  <2> QED BY <2>1, <2>2
<1>4. ASSUME ~Start, alive', process' = "running"
      PROVE  /\ Contains(commands', "ack") \/ rstate' \in Playing => authenticated'
             /\ phase' = "loop" /\ rlink' => link' = "connected" /\ ~Contains(wire', "eof")
  <2>1. alive /\ process = "running" BY <1>4, StepLives
  <2>2. /\ Contains(commands, "ack") \/ rstate \in Playing => authenticated
        /\ phase = "loop" /\ rlink => link = "connected" /\ ~Contains(wire, "eof")
    BY <2>1 DEF LetIn
  <2>3. CASE Updates
    <3>1. PICK due \in BOOLEAN, late \in BOOLEAN : Update(due, late) BY <2>3, UpdatesAre
    <3>2. /\ authenticated' = Known /\ link' = link /\ wire' = wire
          /\ rstate' = rstate /\ rlink' = rlink /\ phase' = phase
      BY <1>4, <2>1, <3>1 DEF Update, GoOn, Running, gameVars
    <3>3. Contains(commands', "ack") => Contains(commands, "ack") \/ Known
      BY <3>1, UpdateCommands
    <3>4. authenticated => Known BY DEF Known
    <3> QED BY <2>2, <3>2, <3>3, <3>4
  <2>4. CASE HandleCommand
    <3>1. commands # <<>> /\ commands' = Tail(commands) /\ authenticated' = authenticated
          /\ rstate' = Handled(Head(commands)).state /\ link' = link /\ phase' = phase
          /\ rlink' = rlink /\ wire' = Sent(Handled(Head(commands)).says)
      BY <2>4 DEF HandleCommand, editorSide, editorVars
    <3>2. /\ Contains(Tail(commands), "ack") => Contains(commands, "ack")
          /\ Contains(commands, Head(commands)) /\ Head(commands) \in Commands
      BY <1>1, <3>1, TailHas
    <3>3. rstate' \in Playing => rstate \in Playing \/ Head(commands) = "ack"
      BY <3>1, HandledState
    <3>4. Handled(Head(commands)).says \in Seq(Envelopes) BY <3>2, HandledType
    <3>5. ~Contains(Handled(Head(commands)).says, "eof")
      BY <3>4 DEF Contains, Envelopes, States
    <3>6. Contains(wire', "eof") => Contains(wire, "eof") BY <3>1, <3>4, <3>5, SentIs
    <3> QED BY <2>2, <3>1, <3>2, <3>3, <3>6
  <2>5. CASE Connect
    <3>1. ~rlink /\ authenticated' = authenticated /\ wire' = wire BY <2>5 DEF Connect, editorSide, editorVars
    <3>2. wire = <<>> /\ commands = <<>> /\ rstate \in Before BY <3>1 DEF Unconnected
    <3>3. ~Contains(wire', "eof") BY <3>1, <3>2, NothingInEmpty
    <3>4. rlink' => link' = "connected" BY <2>5, <3>1 DEF Connect
    <3>5. rstate' \notin Playing BY <2>5, <3>2 DEF Connect, Before, Playing
    <3>6. ~Contains(commands', "ack")
      <4>1. ~Contains(<<"connected">>, "ack") BY DEF Contains
      <4> QED BY <2>5, <3>2, <4>1, NothingInEmpty DEF Connect
    <3> QED BY <3>3, <3>4, <3>5, <3>6
  <2>6. ~EditorCrash BY <1>4 DEF EditorCrash
  <2>7. CASE Arrive
    <3>1. wire # <<>> /\ wire' = Tail(wire) /\ commands' = commands /\ rstate' = rstate
          /\ authenticated' = authenticated /\ phase' = phase /\ rlink' = rlink
          /\ link' = IF Head(wire) = "eof" THEN "listening" ELSE link
      BY <2>7 DEF Arrive, editorVars, gameVars
    <3>2. Contains(wire, Head(wire)) /\ (Contains(wire', "eof") => Contains(wire, "eof"))
      BY <1>1, <3>1, TailHas
    <3> QED BY <2>2, <3>1, <3>2
  <2>8. ~Crash BY <1>4 DEF Crash
  <2>9. CASE LeaveLoop
    <3>1. phase' = "closing" /\ rstate' = "stopped" /\ commands' = commands
          /\ authenticated' = authenticated
      BY <2>9 DEF LeaveLoop, editorSide, editorVars
    <3> QED BY <2>2, <3>1 DEF Playing
  <2>10. ASSUME RequestStop \/ RequestPause("pause", "running") \/ RequestPause("resume", "paused")
         PROVE  UNCHANGED <<authenticated, rstate, phase, rlink, link, wire>>
                /\ (Contains(commands', "ack") => Contains(commands, "ack"))
    <3>1. UNCHANGED <<authenticated, rstate, phase, rlink, link, wire>>
      BY <2>10 DEF RequestStop, RequestPause, gameVars, editorVars
    <3>2. commands' = commands \/ \E c \in {"stop", "pause", "resume"} : commands' = Append(commands, c)
      BY <2>10 DEF RequestStop, RequestPause
    <3>3. ASSUME NEW c \in {"stop", "pause", "resume"}, commands' = Append(commands, c)
          PROVE  Contains(commands', "ack") => Contains(commands, "ack")
      <4>1. c \in Commands BY DEF Commands
      <4> QED BY <1>1, <3>3, <4>1, AppendPlaces
    <3> QED BY <3>1, <3>2, <3>3
  <2>11. DeadlinePasses \/ Exit \/ Timeout \/ AskExit \/ Hang \/ UNCHANGED vars
           => /\ UNCHANGED <<authenticated, phase, rlink, link, wire, commands>>
              /\ rstate' \in {rstate, "failed"}
    BY DEF DeadlinePasses, Exit, Timeout, AskExit, Hang, vars, gameVars, editorVars, editorSide
  <2>12. CASE RequestStop \/ RequestPause("pause", "running") \/ RequestPause("resume", "paused")
    BY <2>2, <2>10, <2>12
  <2>13. CASE DeadlinePasses \/ Exit \/ Timeout \/ AskExit \/ Hang \/ UNCHANGED vars
    BY <2>2, <2>11, <2>13 DEF Playing
  <2> QED BY <1>4, <2>3, <2>4, <2>5, <2>6, <2>7, <2>8, <2>9, <2>12, <2>13
          DEF Next, Player, Game, Faults
<1> QED BY <1>2, <1>3, <1>4 DEF LetIn

(***************************************************************************)
(* What the editor shows                                                   *)
(***************************************************************************)
LEMMA TellingEnvelopes ==
  /\ ~Tells("eof") /\ ~Tells("disconnected") /\ ~Tells("hello") /\ ~Tells("pong") /\ ~Tells("error")
  /\ Tells("running") /\ Tells("paused") /\ Tells("stopping")
  /\ ShownAs("running") = "running" /\ ShownAs("paused") = "paused"
  /\ ShownAs("stopping") = "stopping"
BY DEF Tells, States, ShownAs

LEMMA AppendLast ==
  ASSUME NEW T, NEW s \in Seq(T), NEW x \in T, NEW c
  PROVE  /\ Silent(Append(s, x)) => Silent(s) /\ ~Tells(x)
         /\ LastIs(Append(s, x), c) => IF Tells(x) THEN c = ShownAs(x) ELSE LastIs(s, c)
<1> DEFINE t == Append(s, x)
<1>1. Len(s) \in Nat /\ Len(t) = Len(s) + 1 OBVIOUS
<1>2. \A i \in 1 .. Len(s) : t[i] = s[i] OBVIOUS
<1>3. t[Len(s) + 1] = x OBVIOUS
<1> HIDE DEF t
<1>4. Len(s) + 1 \in 1 .. Len(t) /\ \A i \in 1 .. Len(s) : i \in 1 .. Len(t) BY <1>1
<1>5. Silent(t) => Silent(s) /\ ~Tells(x) BY <1>2, <1>3, <1>4 DEF Silent
<1>6. ASSUME LastIs(t, c) PROVE IF Tells(x) THEN c = ShownAs(x) ELSE LastIs(s, c)
  <2>1. PICK k \in 1 .. Len(t) :
          Tells(t[k]) /\ ShownAs(t[k]) = c /\ \A j \in 1 .. Len(t) : j > k => ~Tells(t[j])
    BY <1>6 DEF LastIs
  <2>2. CASE k = Len(s) + 1 BY <1>3, <2>1, <2>2
  <2>3. CASE k \in 1 .. Len(s)
    <3>1. ~Tells(x)
      <4>1. Len(s) + 1 > k BY <1>1, <2>3
      <4> QED BY <1>3, <1>4, <2>1, <4>1
    <3>2. \A j \in 1 .. Len(s) : j > k => ~Tells(s[j]) BY <1>2, <1>4, <2>1
    <3>3. Tells(s[k]) /\ ShownAs(s[k]) = c BY <1>2, <2>1, <2>3
    <3> QED BY <2>3, <3>1, <3>2, <3>3 DEF LastIs
  <2> QED BY <1>1, <2>2, <2>3
<1> QED BY <1>5, <1>6 DEF t

LEMMA TailLast ==
  ASSUME NEW T, NEW s \in Seq(T), s # <<>>, NEW c
  PROVE  /\ Silent(Tail(s)) /\ ~Tells(Head(s)) => Silent(s)
         /\ LastIs(Tail(s), c) => LastIs(s, c)
         /\ Silent(Tail(s)) /\ Tells(Head(s)) => LastIs(s, ShownAs(Head(s)))
<1>1. /\ Len(Tail(s)) = Len(s) - 1 /\ Len(s) \in Nat \ {0}
      /\ \A i \in 1 .. Len(s) - 1 : Tail(s)[i] = s[i + 1]
  BY TailHas
<1>2. Head(s) = s[1] OBVIOUS
<1>3. \A i \in 2 .. Len(s) : i - 1 \in 1 .. Len(Tail(s)) /\ Tail(s)[i - 1] = s[i]
  <2>1. TAKE i \in 2 .. Len(s)
  <2>2. i - 1 \in 1 .. Len(s) - 1 /\ i - 1 + 1 = i BY <1>1
  <2> QED BY <1>1, <2>2
<1>4. \A i \in 1 .. Len(s) : i = 1 \/ i \in 2 .. Len(s) BY <1>1
<1>5. ASSUME Silent(Tail(s)) PROVE \A i \in 2 .. Len(s) : ~Tells(s[i]) BY <1>3, <1>5 DEF Silent
<1>6. Silent(Tail(s)) /\ ~Tells(Head(s)) => Silent(s) BY <1>2, <1>4, <1>5 DEF Silent
<1>7. ASSUME LastIs(Tail(s), c) PROVE LastIs(s, c)
  <2>1. PICK k \in 1 .. Len(Tail(s)) :
          /\ Tells(Tail(s)[k]) /\ ShownAs(Tail(s)[k]) = c
          /\ \A j \in 1 .. Len(Tail(s)) : j > k => ~Tells(Tail(s)[j])
    BY <1>7 DEF LastIs
  <2>2. k + 1 \in 1 .. Len(s) /\ Tail(s)[k] = s[k + 1] BY <1>1
  <2>3. ASSUME NEW j \in 1 .. Len(s), j > k + 1 PROVE ~Tells(s[j])
    <3>1. j \in 2 .. Len(s) /\ j - 1 > k BY <1>1, <2>3
    <3> QED BY <1>3, <2>1, <3>1
  <2> QED BY <2>1, <2>2, <2>3 DEF LastIs
<1>8. ASSUME Silent(Tail(s)), Tells(Head(s)) PROVE LastIs(s, ShownAs(Head(s)))
  <2>1. 1 \in 1 .. Len(s) BY <1>1
  <2>2. \A j \in 1 .. Len(s) : j > 1 => j \in 2 .. Len(s) BY <1>1
  <2> QED BY <1>2, <1>5, <1>8, <2>1, <2>2 DEF LastIs
<1> QED BY <1>6, <1>7, <1>8

LEMMA ConcatLast ==
  ASSUME NEW T, NEW s \in Seq(T), NEW t \in Seq(T), NEW c
  PROVE  /\ Silent(s \o t) => Silent(s) /\ Silent(t)
         /\ LastIs(s \o t, c) => LastIs(t, c) \/ (Silent(t) /\ LastIs(s, c))
<1> DEFINE u == s \o t
<1>1. Len(u) = Len(s) + Len(t) /\ Len(s) \in Nat /\ Len(t) \in Nat OBVIOUS
<1>2. \A i \in 1 .. Len(s) : u[i] = s[i] OBVIOUS
<1>3. \A i \in 1 .. Len(t) : u[Len(s) + i] = t[i] OBVIOUS
<1> HIDE DEF u
<1>4. /\ \A i \in 1 .. Len(s) : i \in 1 .. Len(u)
      /\ \A i \in 1 .. Len(t) : Len(s) + i \in 1 .. Len(u)
  BY <1>1
<1>5. Silent(u) => Silent(s) /\ Silent(t) BY <1>2, <1>3, <1>4 DEF Silent
<1>6. ASSUME LastIs(u, c) PROVE LastIs(t, c) \/ (Silent(t) /\ LastIs(s, c))
  <2>1. PICK k \in 1 .. Len(u) :
          Tells(u[k]) /\ ShownAs(u[k]) = c /\ \A j \in 1 .. Len(u) : j > k => ~Tells(u[j])
    BY <1>6 DEF LastIs
  <2>2. CASE k <= Len(s)
    <3>1. k \in 1 .. Len(s) BY <1>1, <2>2
    <3>2. \A j \in 1 .. Len(s) : j > k => ~Tells(s[j]) BY <1>2, <1>4, <2>1
    <3>3. LastIs(s, c) BY <1>2, <2>1, <3>1, <3>2 DEF LastIs
    <3>4. \A j \in 1 .. Len(t) : ~Tells(t[j])
      <4>1. TAKE j \in 1 .. Len(t)
      <4>2. Len(s) + j > k BY <1>1, <2>2
      <4> QED BY <1>3, <1>4, <2>1, <4>2
    <3> QED BY <3>3, <3>4 DEF Silent
  <2>3. CASE k > Len(s)
    <3>1. k - Len(s) \in 1 .. Len(t) /\ Len(s) + (k - Len(s)) = k BY <1>1, <2>3
    <3>2. u[k] = t[k - Len(s)] BY <1>3, <3>1
    <3>3. ASSUME NEW j \in 1 .. Len(t), j > k - Len(s) PROVE ~Tells(t[j])
      <4>1. Len(s) + j > k /\ Len(s) + j \in 1 .. Len(u) BY <1>1, <3>3
      <4> QED BY <1>3, <2>1, <4>1
    <3> QED BY <2>1, <3>1, <3>2, <3>3 DEF LastIs
  <2> QED BY <1>1, <2>2, <2>3
<1> QED BY <1>5, <1>6 DEF u

(* What a handler tells of the state it enters. *)
LEMMA HandledTells ==
  ASSUME NEW c, Handled(c).state \in Playing
  PROVE  \/ \E x \in {"running", "paused", "stopping"} :
              /\ Handled(c).state = x
              /\ Handled(c).says \in {<<x>>, <<"ready", x>>}
         \/ /\ Handled(c).says \in {<<>>, <<"pong">>, <<"error">>} /\ Handled(c).state = rstate
            /\ c = "stop" => rstate = "stopping"
<1>1. c # "connected" /\ (rstate \in Playing \/ (rstate = "authenticating" /\ c = "ack"))
  BY HandledState
<1>2. c # "eof" BY DEF Handled, Playing
<1>3. CASE rstate = "authenticating" /\ c = "ack"
  <2>1. Handled(c) = [says |-> <<"ready", "running">>, state |-> "running"]
    BY <1>3 DEF Handled
  <2> QED BY <2>1
<1>4. CASE rstate \in Playing /\ c = "ping"
  <2>1. Handled(c) = [says |-> <<"pong">>, state |-> rstate] BY <1>4 DEF Handled, Playing
  <2> QED BY <1>4, <2>1
<1>5. CASE rstate = "running" /\ c = "pause"
  <2>1. Handled(c) = [says |-> <<"paused">>, state |-> "paused"] BY <1>5 DEF Handled, PauseTold
  <2> QED BY <2>1
<1>6. CASE rstate = "paused" /\ c = "resume"
  <2>1. Handled(c) = [says |-> <<"running">>, state |-> "running"] BY <1>6 DEF Handled
  <2> QED BY <2>1
<1>7. CASE rstate \in {"running", "paused"} /\ c = "stop"
  <2>1. Handled(c) = [says |-> <<"stopping">>, state |-> "stopping"] BY <1>7 DEF Handled
  <2> QED BY <2>1
<1>8. CASE rstate = "stopping" /\ c = "stop"
  <2>1. Handled(c) = [says |-> <<>>, state |-> "stopping"] BY <1>8 DEF Handled
  <2> QED BY <1>8, <2>1
<1>9. CASE /\ rstate \in Playing /\ c # "ping" /\ c # "stop"
           /\ ~(rstate = "running" /\ c = "pause") /\ ~(rstate = "paused" /\ c = "resume")
  <2>1. Handled(c) = [says |-> <<"error">>, state |-> rstate]
    BY <1>1, <1>2, <1>9 DEF Handled, Playing
  <2> QED BY <1>9, <2>1
<1> QED BY <1>1, <1>3, <1>4, <1>5, <1>6, <1>7, <1>8, <1>9 DEF Playing

LEMMA SaidLast ==
  ASSUME NEW x \in {"running", "paused", "stopping"}, NEW s \in {<<x>>, <<"ready", x>>}, NEW c
  PROVE  ~Silent(s) /\ (LastIs(s, c) => c = x)
<1>1. Tells(x) /\ ShownAs(x) = x BY TellingEnvelopes
<1>2. Len(s) \in 1 .. 2 /\ s[Len(s)] = x
  <2>1. CASE s = <<x>> BY <2>1
  <2>2. CASE s = <<"ready", x>> BY <2>2
  <2> QED BY <2>1, <2>2
<1>3. Len(s) \in 1 .. Len(s) BY <1>2
<1>4. ASSUME LastIs(s, c) PROVE c = x
  <2>1. PICK k \in 1 .. Len(s) :
          Tells(s[k]) /\ ShownAs(s[k]) = c /\ \A j \in 1 .. Len(s) : j > k => ~Tells(s[j])
    BY <1>4 DEF LastIs
  <2>2. k = Len(s) BY <1>1, <1>2, <1>3, <2>1
  <2> QED BY <1>1, <1>2, <2>1, <2>2
<1> QED BY <1>1, <1>2, <1>3, <1>4 DEF Silent

LEMMA QuietSaid ==
  ASSUME NEW s \in {<<>>, <<"pong">>, <<"error">>}, NEW c
  PROVE  Silent(s) /\ ~LastIs(s, c)
<1>1. \A i \in 1 .. Len(s) : ~Tells(s[i])
  <2>1. CASE s = <<>> BY <2>1
  <2>2. CASE s = <<"pong">> BY <2>2, TellingEnvelopes
  <2>3. CASE s = <<"error">> BY <2>3, TellingEnvelopes
  <2> QED BY <2>1, <2>2, <2>3
<1> QED BY <1>1 DEF Silent, LastIs

(* A command that is handled. *)
LEMMA HandleAgrees ==
  ASSUME TypeOK, Unconnected, LetIn, Agreement, HandleCommand, alive', process' = "running",
         rstate' \in Playing, NEW c \in Controls, Heading(c)'
  PROVE  Expected(c)'
<1> DEFINE first == Head(commands)
           says == Handled(first).says
<1>1. /\ commands # <<>> /\ commands' = Tail(commands) /\ wire' = Sent(says)
      /\ rstate' = Handled(first).state /\ events' = events /\ control' = control
      /\ alive /\ process = "running" /\ phase = "loop"
  BY DEF HandleCommand, Pumps, Plays, editorSide, editorVars
<1>2. commands \in Seq(Commands) /\ wire \in Seq(Envelopes \cup {"eof"}) BY DEF TypeOK
<1>3. first \in Commands BY <1>1, <1>2, TailHas
<1>4. says \in Seq(Envelopes) BY <1>3, HandledType
<1>5. rlink BY <1>1 DEF Unconnected
<1>6. link = "connected" BY <1>1, <1>5 DEF LetIn
<1> HIDE DEF first
<1>7. says \in Seq(Envelopes \cup {"eof"})
  <2> HIDE DEF says
  <2>1. Len(says) \in Nat /\ says \in [1 .. Len(says) -> Envelopes] BY <1>4, LenProperties
  <2>2. says \in [1 .. Len(says) -> Envelopes \cup {"eof"}] BY <2>1
  <2> QED BY <2>1, <2>2
<1>8. wire' = wire \o says BY <1>1, <1>6 DEF Sent
<1>9. /\ Silent(wire') => Silent(wire) /\ Silent(says)
      /\ LastIs(wire', c) => LastIs(says, c) \/ (Silent(says) /\ LastIs(wire, c))
  BY <1>2, <1>7, <1>8, ConcatLast
<1>10. Heading(c)' <=> \/ LastIs(wire', c)
                       \/ Silent(wire') /\ LastIs(events, c)
                       \/ Silent(wire') /\ Silent(events) /\ control = c
  BY <1>1 DEF Heading, LastIs, Silent
<1>11. CASE \E x \in {"running", "paused", "stopping"} : rstate' = x /\ says \in {<<x>>, <<"ready", x>>}
  <2>1. PICK x \in {"running", "paused", "stopping"} : rstate' = x /\ says \in {<<x>>, <<"ready", x>>}
    BY <1>11
  <2>2. ~Silent(says) /\ (LastIs(says, c) => c = x) BY <2>1, SaidLast
  <2>3. c = x BY <1>9, <1>10, <2>2
  <2> QED BY <2>1, <2>3 DEF Expected
<1>12. CASE /\ says \in {<<>>, <<"pong">>, <<"error">>} /\ rstate' = rstate
            /\ first = "stop" => rstate = "stopping"
  <2>1. Silent(says) /\ ~LastIs(says, c) BY <1>12, QuietSaid
  <2>2. Heading(c) BY <1>9, <1>10, <2>1 DEF Heading
  <2>3. Expected(c) BY <1>1, <1>12, <2>2 DEF Agreement
  <2>4. Contains(commands, "stop") => Contains(commands', "stop") \/ first = "stop"
    <3>1. SUFFICES ASSUME Contains(commands, "stop"), first # "stop" PROVE Contains(commands', "stop")
      OBVIOUS
    <3>2. PICK i \in 1 .. Len(commands) : commands[i] = "stop" BY <3>1 DEF Contains
    <3>3. commands[1] = first BY <1>1, <1>2 DEF first
    <3>4. i - 1 \in 1 .. Len(commands) - 1 /\ i - 1 + 1 = i BY <1>2, <3>1, <3>2, <3>3
    <3>5. Len(commands') = Len(commands) - 1 /\ commands'[i - 1] = commands[i]
      BY <1>1, <1>2, <3>4, TailHas
    <3> QED BY <3>2, <3>4, <3>5 DEF Contains
  <2> QED BY <1>12, <2>3, <2>4 DEF Expected
<1> QED BY <1>1, <1>11, <1>12, HandledTells

(* An update of a session that goes on. *)
LEMMA UpdateAgrees ==
  ASSUME TypeOK, Plenty, Agreement, NEW due \in BOOLEAN, NEW late \in BOOLEAN, Update(due, late),
         process' = "running", rstate' \in Playing, NEW c \in Controls, Heading(c)'
  PROVE  Expected(c)'
<1>1. /\ alive /\ process = "running" /\ rstate' = rstate /\ wire' = wire /\ events' = Left
      /\ control' = IF Fails(due, late) THEN "failed" ELSE Applied
  BY DEF Update, GoOn, Finish, Running, gameVars
<1>2. /\ Len(Taken) \in 0 .. Len(events) /\ Len(Left) = Len(events) - Len(Taken)
      /\ Len(events) \in Nat
      /\ \A i \in 1 .. Len(Taken) : Taken[i] = events[i]
      /\ \A i \in 1 .. Len(Left) : Left[i] = events[Len(Taken) + i]
  BY TakenPlaces
<1>3. Heading(c)' <=> \/ LastIs(wire, c)
                      \/ Silent(wire) /\ LastIs(Left, c)
                      \/ Silent(wire) /\ Silent(Left) /\ control' = c
  BY <1>1 DEF Heading, LastIs, Silent
<1>4. ASSUME LastIs(Left, c) PROVE LastIs(events, c)
  <2>1. PICK k \in 1 .. Len(Left) :
          /\ Tells(Left[k]) /\ ShownAs(Left[k]) = c
          /\ \A j \in 1 .. Len(Left) : j > k => ~Tells(Left[j])
    BY <1>4 DEF LastIs
  <2>2. Len(Taken) + k \in 1 .. Len(events) /\ Left[k] = events[Len(Taken) + k] BY <1>2
  <2>3. ASSUME NEW j \in 1 .. Len(events), j > Len(Taken) + k PROVE ~Tells(events[j])
    <3>1. j - Len(Taken) \in 1 .. Len(Left) /\ j - Len(Taken) > k
          /\ Len(Taken) + (j - Len(Taken)) = j
      BY <1>2, <2>3
    <3> QED BY <1>2, <2>1, <3>1
  <2> QED BY <2>1, <2>2, <2>3 DEF LastIs
<1>5. \A i \in 1 .. Len(events) :
        i \in 1 .. Len(Taken) \/ (i - Len(Taken) \in 1 .. Len(Left) /\ Left[i - Len(Taken)] = events[i])
  <2>1. TAKE i \in 1 .. Len(events)
  <2>2. CASE i <= Len(Taken) BY <1>2, <2>2
  <2>3. CASE i > Len(Taken)
    <3>1. i - Len(Taken) \in 1 .. Len(Left) /\ Len(Taken) + (i - Len(Taken)) = i BY <1>2, <2>3
    <3> QED BY <1>2, <3>1
  <2> QED BY <1>2, <2>2, <2>3
\* What is not decoded tells nothing.
<1>6. ASSUME ~Fails(due, late), NEW i \in 1 .. Len(Taken), i \notin Decoded PROVE ~Tells(Taken[i])
  <2>1. ~Rejected BY <1>6 DEF Fails
  <2>2. CASE i \notin Received BY <2>2, TellingEnvelopes DEF Received
  <2>3. CASE i \in Received
    <3>1. Greeted /\ IsFirst(i) BY <1>6, <2>1, <2>3 DEF Decoded
    <3>2. Taken[i] = "hello" BY <2>1, <2>3, <3>1 DEF Rejected
    <3> QED BY <3>2, TellingEnvelopes
  <2> QED BY <2>2, <2>3
<1>7. ASSUME Silent(wire), Silent(Left), Applied = c, ~Fails(due, late) PROVE Heading(c)
  <2>1. \A i \in 1 .. Len(events) : i > Len(Taken) => ~Tells(events[i])
    <3>1. TAKE i \in 1 .. Len(events)
    <3>2. i > Len(Taken) => i - Len(Taken) \in 1 .. Len(Left) /\ Left[i - Len(Taken)] = events[i]
      BY <1>2, <1>5
    <3> QED BY <1>7, <3>2 DEF Silent
  <2>2. CASE Applied = control /\ \A i \in Decoded : ~Tells(Taken[i])
    <3>1. \A i \in 1 .. Len(events) : ~Tells(events[i])
      <4>1. TAKE i \in 1 .. Len(events)
      <4>2. CASE i > Len(Taken) BY <2>1, <4>2
      <4>3. CASE i <= Len(Taken)
        <5>1. i \in 1 .. Len(Taken) BY <1>2, <4>3
        <5> QED BY <1>2, <1>6, <1>7, <2>2, <5>1
      <4> QED BY <1>2, <4>2, <4>3
    <3>2. Silent(events) BY <3>1 DEF Silent
    <3> QED BY <1>7, <2>2, <3>2 DEF Heading
  <2>3. CASE \E m \in Decoded : /\ Tells(Taken[m]) /\ Applied = ShownAs(Taken[m])
                                /\ \A i \in Decoded : i > m => ~Tells(Taken[i])
    <3>1. PICK m \in Decoded : /\ Tells(Taken[m]) /\ Applied = ShownAs(Taken[m])
                               /\ \A i \in Decoded : i > m => ~Tells(Taken[i])
      BY <2>3
    <3>2. m \in 1 .. Len(Taken) BY DecodedPlaces
    <3>3. m \in 1 .. Len(events) /\ events[m] = Taken[m] BY <1>2, <3>2
    <3>4. ASSUME NEW j \in 1 .. Len(events), j > m PROVE ~Tells(events[j])
      <4>1. CASE j > Len(Taken) BY <2>1, <4>1
      <4>2. CASE j <= Len(Taken)
        <5>1. j \in 1 .. Len(Taken) /\ events[j] = Taken[j] BY <1>2, <4>2
        <5> QED BY <1>6, <1>7, <3>1, <3>4, <5>1
      <4> QED BY <1>2, <4>1, <4>2
    <3>5. LastIs(events, c) BY <1>7, <3>1, <3>3, <3>4 DEF LastIs
    <3> QED BY <1>7, <3>5 DEF Heading
  <2> QED BY <2>2, <2>3, AppliedIs
<1>8. Heading(c) \/ c = "failed"
  <2>1. CASE LastIs(wire, c) BY <2>1 DEF Heading
  <2>2. CASE Silent(wire) /\ LastIs(Left, c) BY <1>4, <2>2 DEF Heading
  <2>3. CASE Silent(wire) /\ Silent(Left) /\ control' = c BY <1>1, <1>7, <2>3
  <2> QED BY <1>3, <2>1, <2>2, <2>3
<1>9. Expected(c) BY <1>1, <1>8 DEF Agreement, Expected
<1>10. Contains(commands, "stop") => Contains(commands', "stop") BY UpdateCommands
<1> QED BY <1>1, <1>9, <1>10 DEF Expected

(* The editor's transport reads one more envelope. *)
LEMMA ArriveAgrees ==
  ASSUME TypeOK, Agreement, Arrive, alive', process' = "running", rstate' \in Playing,
         NEW c \in Controls, Heading(c)'
  PROVE  Expected(c)'
<1> DEFINE x == IF Head(wire) = "eof" THEN "disconnected" ELSE Head(wire)
<1>1. /\ alive /\ process = "running" /\ rstate' = rstate /\ control' = control
      /\ commands' = commands /\ wire # <<>> /\ wire' = Tail(wire) /\ events' = Append(events, x)
  BY DEF Arrive, editorVars, gameVars
<1>2. wire \in Seq(Envelopes \cup {"eof"}) /\ events \in Seq(Envelopes \cup {"disconnected"})
  BY DEF TypeOK
<1>3. Head(wire) \in Envelopes \cup {"eof"} BY <1>1, <1>2, TailHas
<1>4. x \in Envelopes \cup {"disconnected"} BY <1>3
<1>5. Tells(x) => x = Head(wire) BY TellingEnvelopes
<1>6. ~Tells(x) => ~Tells(Head(wire)) BY TellingEnvelopes
<1> HIDE DEF x
<1>7. /\ Silent(Append(events, x)) => Silent(events) /\ ~Tells(x)
      /\ LastIs(Append(events, x), c) => IF Tells(x) THEN c = ShownAs(x) ELSE LastIs(events, c)
  BY <1>2, <1>4, AppendLast
<1>8. /\ Silent(Tail(wire)) /\ ~Tells(Head(wire)) => Silent(wire)
      /\ LastIs(Tail(wire), c) => LastIs(wire, c)
      /\ Silent(Tail(wire)) /\ Tells(Head(wire)) => LastIs(wire, ShownAs(Head(wire)))
  BY <1>1, <1>2, TailLast
<1>9. Heading(c)' <=> \/ LastIs(Tail(wire), c)
                      \/ Silent(Tail(wire)) /\ LastIs(Append(events, x), c)
                      \/ Silent(Tail(wire)) /\ Silent(Append(events, x)) /\ control = c
  BY <1>1 DEF Heading, LastIs, Silent
<1>10. Heading(c) BY <1>5, <1>6, <1>7, <1>8, <1>9 DEF Heading
<1>11. Expected(c) BY <1>1, <1>10 DEF Agreement
<1> QED BY <1>1, <1>11 DEF Expected

LEMMA StepAgreement ==
  ASSUME TypeOK, Plenty, Unconnected, LetIn, Agreement, [Next]_vars
  PROVE  Agreement'
<1> SUFFICES ASSUME alive', process' = "running", rstate' \in Playing, NEW c \in Controls, Heading(c)'
             PROVE  Expected(c)'
  BY DEF Agreement, Controls
<1>1. ~Start /\ ~EditorCrash /\ ~Crash /\ ~Exit /\ ~Timeout /\ ~LeaveLoop
  BY DEF Start, EditorCrash, Crash, Exit, Timeout, LeaveLoop, Playing
<1>2. ~Connect
  <2>1. ASSUME Connect PROVE rstate' \in Before
    <3>1. rstate \in Before BY <2>1 DEF Connect, Unconnected
    <3> QED BY <2>1, <3>1 DEF Connect, Before
  <2> QED BY <2>1 DEF Before, Playing
<1>3. CASE Arrive BY <1>3, ArriveAgrees
<1>4. CASE HandleCommand BY <1>4, HandleAgrees
<1>5. CASE Updates
  <2>1. PICK due \in BOOLEAN, late \in BOOLEAN : Update(due, late) BY <1>5, UpdatesAre
  <2> QED BY <2>1, UpdateAgrees
<1>6. alive /\ process = "running" BY <1>1, StepLives
<1>7. ASSUME UNCHANGED <<events, wire, control, rstate>>,
             Contains(commands, "stop") => Contains(commands', "stop")
      PROVE  Expected(c)'
  <2>1. Heading(c) BY <1>7 DEF Heading, LastIs, Silent
  <2>2. Expected(c) BY <1>6, <1>7, <2>1 DEF Agreement
  <2> QED BY <1>7, <2>2 DEF Expected
<1>8. commands \in Seq(Commands) BY DEF TypeOK
<1>9. CASE RequestStop
  <2>1. UNCHANGED <<events, wire, rstate>> BY <1>9 DEF RequestStop, gameVars
  <2>2. CASE commands' = commands /\ control' = control BY <1>7, <2>1, <2>2
  <2>3. CASE commands' = Append(commands, "stop") /\ control' = "stopping"
    <3>1. "stop" \in Commands BY DEF Commands
    <3>2. Contains(commands', "stop") BY <1>8, <2>3, <3>1, AppendPlaces
    <3>3. CASE LastIs(wire, c) \/ (Silent(wire) /\ LastIs(events, c))
      <4>1. Heading(c) BY <3>3 DEF Heading
      <4>2. Expected(c) BY <1>6, <2>1, <4>1 DEF Agreement
      <4> QED BY <2>1, <3>2, <4>2 DEF Expected
    <3>4. CASE control' = c BY <2>3, <3>2, <3>4 DEF Expected
    <3> QED BY <2>1, <3>3, <3>4 DEF Heading, LastIs, Silent
  <2> QED BY <1>9, <2>2, <2>3 DEF RequestStop
<1>10. CASE RequestPause("pause", "running") \/ RequestPause("resume", "paused")
  <2>1. UNCHANGED <<events, wire, control, rstate>> BY <1>10 DEF RequestPause, gameVars, editorVars
  <2>2. PICK d \in Commands : commands' = Append(commands, d)
    BY <1>10 DEF RequestPause, Commands
  <2>3. Contains(commands, "stop") => Contains(commands', "stop") BY <1>8, <2>2, AppendPlaces
  <2> QED BY <1>7, <2>1, <2>3
<1>11. CASE DeadlinePasses \/ AskExit \/ Hang \/ UNCHANGED vars
  <2>1. UNCHANGED <<events, wire, control, rstate, commands>>
    BY <1>11 DEF DeadlinePasses, AskExit, Hang, vars, gameVars, editorVars, editorSide
  <2> QED BY <1>7, <2>1
<1> QED BY <1>1, <1>2, <1>3, <1>4, <1>5, <1>9, <1>10, <1>11 DEF Next, Player, Game, Faults

(***************************************************************************)
(* The theorems                                                            *)
(***************************************************************************)
LEMMA InitInv == Init => IpcInv
<1> SUFFICES ASSUME Init PROVE IpcInv OBVIOUS
<1>1. commands = <<>> /\ Len(commands) = 0 /\ events = <<>> /\ wire = <<>> BY DEF Init
<1>2. TypeOK
  <2>1. 0 \in 0 .. MaxSessions /\ 0 <= MaxCommands + 2 BY BoundsAssumption
  <2>2. events \in Seq(Envelopes \cup {"disconnected"}) /\ wire \in Seq(Envelopes \cup {"eof"})
        /\ commands \in Seq(Commands)
    BY <1>1
  <2> QED BY <1>1, <2>1, <2>2 DEF Init, TypeOK
<1>3. Farewell BY <1>1, NothingInEmpty DEF Init, Farewell
<1>4. Unconnected BY <1>1, NothingInEmpty DEF Init, Unconnected, Before
<1>5. Connecting /\ Answered BY <1>1 DEF Init, Connecting, Answered
<1>6. Plenty BY <1>1, BoundsAssumption DEF Init, Plenty
<1>7. LetIn BY DEF Init, LetIn
<1>8. Agreement BY DEF Init, Agreement, Playing
<1> QED BY <1>2, <1>3, <1>4, <1>5, <1>6, <1>7, <1>8 DEF IpcInv

LEMMA SessionInv == Spec => []IpcInv
<1>1. IpcInv /\ [Next]_vars => IpcInv'
  BY StepType, StepFarewell, StepUnconnected, StepConnecting, StepAnswered, StepPlenty, StepLetIn,
     StepAgreement
  DEF IpcInv
<1> QED BY <1>1, InitInv, PTL DEF Spec

(* The editor never takes a shutdown for complete while the game still runs its loop: the     *)
(* farewell of runtime_application.cpp leaves the loop first, and a new session forgets what  *)
(* the one before has said.                                                                   *)
THEOREM TruthfulCorrect == Spec => []ShutdownTruthful
<1>1. IpcInv => ShutdownTruthful BY DEF IpcInv, Farewell, ShutdownTruthful
<1> QED BY <1>1, SessionInv, PTL

(* Once both sides have heard everything, the editor shows the state the game is in, however  *)
(* pauses, resumes and stops crossed the states reported; and no command overtakes the        *)
(* answer to the game's hello.                                                                *)
THEOREM ControlCorrect == Spec => []ControlAgrees
<1>1. ASSUME IpcInv PROVE ControlAgrees
  <2>1. TypeOK /\ Answered /\ Agreement BY <1>1 DEF IpcInv
  <2>2. ASSUME alive, authenticated, control # "failed", process = "running", events = <<>>,
               wire = <<>>, commands = <<>>, rstate \in {"running", "paused", "stopping"}
        PROVE  control = rstate
    <3>1. Silent(wire) /\ Silent(events) BY <2>2 DEF Silent
    <3>2. Heading(control) BY <3>1 DEF Heading
    <3>3. control \in Controls BY <2>1 DEF TypeOK, Controls
    <3>4. Expected(control) BY <2>1, <2>2, <3>2, <3>3 DEF Agreement, Playing
    <3> QED BY <2>2, <3>4, NothingInEmpty DEF Expected
  <2> QED BY <2>1, <2>2 DEF ControlAgrees, Answered
<1> QED BY <1>1, SessionInv, PTL
=============================================================================
