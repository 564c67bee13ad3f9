----------------------------- MODULE ConProofs -----------------------------
(***************************************************************************)
(* Proofs about the main process of greyd: its types, the dialogue of its  *)
(* connections and its counters, for any number of slots and any length of *)
(* times and replies.                                                      *)
(*                                                                         *)
(* Every step that touches one slot is first reduced to SlotStep: the slot *)
(* keeps a connection that fits, or it is closed.  The invariants are then *)
(* proved of SlotStep and of the steps that touch all slots or none.       *)
(***************************************************************************)
EXTENDS Con, FiniteSetTheorems, TLAPS

StatesFit == \A i \in Open : StateFits(cons[i])
OutsFit == \A i \in Open : OutFits(cons[i])

\* No event is left over when the loop starts anew.
NoEvents == pc \in {"top", "poll"} => \A i \in Slots : ev[i] = "none"

BaseInv == TypeOK /\ EventsFit /\ NoEvents /\ StatesFit /\ (~MsgNl => OutsFit)

\* The connection of slot i becomes c and stays open.
Kept(i, c) ==
    /\ c \in Con
    /\ StateFits(c)
    /\ ~MsgNl => OutFits(c)
    /\ c.black = cons[i].black
    /\ cons' = [cons EXCEPT ![i] = c]
    /\ UNCHANGED <<clients, blackClients, slow>>

\* All a step may do to the one slot it serves.
SlotStep(i) ==
    \/ \E c : Kept(i, c)
    \/ Closed(i, 1)
    \/ MsgNl /\ Closed(i, 2)

----------------------------------------------------------------------------
(* The operators of the dialogue. *)

\* Waiting for input gives a connection whose state is one that reads.
LEMMA ReadingFits ==
    ASSUME NEW c \in Con, NEW st \in InStates, loopAge \in Nat, c.out = 0,
           c.state \in OutStates \ {"CLOSE"}
    PROVE  /\ Reading(c, st) \in Con
           /\ StateFits(Reading(c, st))
           /\ OutFits(Reading(c, st))
           /\ Reading(c, st).black = c.black
  <1> DEFINE d == Reading(c, st)
  <1>0. st \in States /\ loopAge \in Int
    BY DEF States
  <1>1. d \in Con
    BY <1>0 DEF Reading, Con
  <1>2. d.dir = "in" /\ d.state = st /\ d.last = c.state /\ d.out = 0
    BY DEF Reading, Con
  <1>3. d.black = c.black
    BY DEF Reading, Con
  <1> HIDE DEF d
  <1>4. StateFits(d)
    BY <1>2 DEF StateFits
  <1>5. OutFits(d)
    BY <1>2 DEF OutFits
  <1> QED
    BY <1>1, <1>3, <1>4, <1>5 DEF d

\* Writing what is in the buffer gives a connection in a state that writes.
LEMMA WritingFits ==
    ASSUME NEW c \in Con, NEW st \in OutStates, loopAge \in Nat
    PROVE  /\ Writing(c, st) \in Con
           /\ StateFits(Writing(c, st))
           /\ Writing(c, st).out = c.out
           /\ Writing(c, st).dir = "out"
           /\ Writing(c, st).black = c.black
  <1> DEFINE d == Writing(c, st)
  <1>0. st \in States /\ loopAge - c.stutter \in Int
    BY DEF States, Con
  <1>1. d \in Con
    BY <1>0 DEF Writing, Con
  <1>2. d.dir = "out" /\ d.state = st /\ d.out = c.out /\ d.black = c.black
    BY DEF Writing, Con
  <1> HIDE DEF d
  <1>3. StateFits(d)
    BY <1>2 DEF StateFits, OutStates, InDialogue
  <1> QED
    BY <1>1, <1>2, <1>3 DEF d

\* A reply is a connection that writes ReplyLen bytes.
LEMMA ReplyFits ==
    ASSUME NEW c \in Con, NEW st \in OutStates, loopAge \in Nat
    PROVE  /\ Reply(c, st) \in Con
           /\ StateFits(Reply(c, st))
           /\ OutFits(Reply(c, st))
           /\ Reply(c, st).black = c.black
  <1> DEFINE d == [c EXCEPT !.last = c.state, !.out = ReplyLen]
  <1>0. ReplyLen \in Int /\ ReplyLen > 0
    BY ConAssumption
  <1>1. d \in Con
    BY <1>0 DEF Con
  <1>2. d.out = ReplyLen /\ d.black = c.black
    BY DEF Con
  <1>3. Reply(c, st) = Writing(d, st)
    BY DEF Reply
  <1> HIDE DEF d
  <1> QED
    BY <1>0, <1>1, <1>2, <1>3, WritingFits DEF OutFits

\* After a refused command the reply goes with the state before.
LEMMA AgainFits ==
    ASSUME NEW c \in Con, loopAge \in Nat, c.last \in OutStates
    PROVE  /\ Again(c) \in Con
           /\ StateFits(Again(c))
           /\ OutFits(Again(c))
           /\ Again(c).black = c.black
  <1> DEFINE d == [c EXCEPT !.out = ReplyLen]
  <1>0. ReplyLen \in Int /\ ReplyLen > 0
    BY ConAssumption
  <1>1. d \in Con
    BY <1>0 DEF Con
  <1>2. d.out = ReplyLen /\ d.black = c.black
    BY DEF Con
  <1>3. Again(c) = Writing(d, c.last)
    BY DEF Again
  <1> HIDE DEF d
  <1> QED
    BY <1>0, <1>1, <1>2, <1>3, WritingFits DEF OutFits

\* A rejection is there to be written, unless its message ends in a newline.
LEMMA DoneFits ==
    ASSUME NEW c \in Con, loopAge \in Nat
    PROVE  /\ Done(c) \in Con
           /\ StateFits(Done(c))
           /\ ~MsgNl => OutFits(Done(c))
           /\ Done(c).black = c.black
  <1> DEFINE b == BuildReply(c)
             d == [b EXCEPT !.last = c.state]
  <1>0. ReplyLen \in Int /\ ReplyLen > 0
    BY ConAssumption
  <1>1. b \in Con /\ b.black = c.black
    BY <1>0 DEF Con, BuildReply
  <1>2. ~MsgNl => b.out = ReplyLen
    BY DEF Con, BuildReply
  <1> HIDE DEF b
  <1>3. d \in Con
    BY <1>1 DEF Con
  <1>4. d.black = c.black /\ d.out = b.out
    BY <1>1 DEF Con
  <1>5. Done(c) = Writing(d, "CLOSE")
    BY DEF Done, b
  <1>6. "CLOSE" \in OutStates
    BY DEF OutStates
  <1> HIDE DEF d
  <1> QED
    BY <1>0, <1>2, <1>3, <1>4, <1>5, <1>6, WritingFits DEF OutFits

----------------------------------------------------------------------------
(* Steps that serve one slot. *)

\* What is known of an open slot.
LEMMA OpenSlot ==
    ASSUME BaseInv, NEW i \in Open
    PROVE  /\ i \in Slots
           /\ loopAge \in Nat
           /\ cons[i] \in Con
           /\ StateFits(cons[i])
           /\ ~MsgNl => OutFits(cons[i])
  <1>1. i \in Slots /\ cons[i] # NoCon
    BY DEF Open
  <1>2. cons[i] \in Con
    BY <1>1 DEF BaseInv, TypeOK, TypeCons
  <1>3. loopAge \in Nat
    BY ConAssumption DEF BaseInv, TypeOK, TypeLoop
  <1> QED
    BY <1>1, <1>2, <1>3 DEF BaseInv, StatesFit, OutsFit

\* A slot that is served waits in the direction of its event.
LEMMA ServedSlot ==
    ASSUME BaseInv, NEW i \in Open, NEW e \in {"in", "out"}, Serving(i, e)
    PROVE  cons[i].dir = e
  BY OpenSlot DEF BaseInv, EventsFit, Serving

\* A line that leaves a fitting connection behind is a step of its slot.
LEMMA PlainStep ==
    ASSUME BaseInv, NEW i \in Open, NEW c, ReadLine(i, c),
           c \in Con, StateFits(c), ~MsgNl => OutFits(c), c.black = cons[i].black
    PROVE  SlotStep(i)
  BY DEF ReadLine, SlotStep, Kept

\* Changing the sender, the recipient or the count of bad commands leaves the
\* rest of a connection alone.
LEMMA FieldsKept ==
    ASSUME NEW c \in Con, NEW n \in Nat,
           NEW d \in {[c EXCEPT !.mail = n], [c EXCEPT !.rcpt = n],
                      [c EXCEPT !.bad = n]}
    PROVE  /\ d \in Con
           /\ d.black = c.black
           /\ d.last = c.last
           /\ StateFits(c) => StateFits(d)
           /\ OutFits(c) => OutFits(d)
  <1>1. d \in Con
    BY DEF Con
  <1>2. d.black = c.black /\ d.last = c.last /\ d.state = c.state
        /\ d.dir = c.dir /\ d.out = c.out
    BY DEF Con
  <1> QED
    BY <1>1, <1>2 DEF StateFits, OutFits, InDialogue

\* Every line a client may send.
LEMMA ReadStep ==
    ASSUME BaseInv, NEW i \in Open, ServeRead(i)
    PROVE  SlotStep(i)
  <1> DEFINE c == cons[i]
  <1>a. /\ i \in Slots /\ loopAge \in Nat /\ c \in Con /\ StateFits(c)
        /\ ~MsgNl => OutFits(c)
    BY OpenSlot
  <1>b. c.id \in Nat /\ c.bad \in Nat /\ c.black \in BOOLEAN
    BY <1>a DEF Con
  <1>c. {"CLOSE", "HELO_OUT", "BANNER_OUT", "MAIL_OUT", "RCPT_OUT", "DATA_OUT"}
           \subseteq OutStates
    BY DEF OutStates
  <1>d. InDialogue(c) => c.last \in OutStates
    BY <1>a DEF StateFits
  <1>e. \A st \in OutStates :
           /\ Reply(c, st) \in Con
           /\ StateFits(Reply(c, st))
           /\ OutFits(Reply(c, st))
           /\ Reply(c, st).black = c.black
    BY <1>a, ReplyFits
  <1> DEFINE q == [c EXCEPT !.state = "REPLY"]
  <1>f. q \in Con /\ q.black = c.black
    BY <1>a DEF Con, States
  <1>1. CASE ReadEof(i)
    BY <1>1 DEF ReadEof, SlotStep
  <1>2. CASE ReadPart(i)
    <2>1. UNCHANGED <<cons, clients, blackClients, slow>>
      BY <1>2 DEF ReadPart
    <2>2. cons' = [cons EXCEPT ![i] = c]
      BY <2>1 DEF BaseInv, TypeOK, TypeCons
    <2> QED
      BY <2>1, <2>2, <1>a DEF SlotStep, Kept
  <1>3. CASE ReadQuit(i)
    BY <1>3, <1>c, <1>e, PlainStep DEF ReadQuit, ReadPlain
  <1>4. CASE ReadRset(i)
    BY <1>4, <1>c, <1>e, PlainStep DEF ReadRset, ReadPlain
  <1>5. CASE ReadProxy(i)
    <2>1. CASE ReadPlain(i, Reply(c, "BANNER_OUT"))
      BY <2>1, <1>c, <1>e, PlainStep DEF ReadPlain
    <2>2. CASE ReadPlain(i, Done(c))
      BY <2>2, <1>a, DoneFits, PlainStep DEF ReadPlain
    <2> QED
      BY <1>5, <2>1, <2>2 DEF ReadProxy
  <1>6. CASE ReadHelo(i)
    <2>1. CASE ReadPlain(i, Reply(c, "BANNER_OUT"))
      BY <2>1, <1>c, <1>e, PlainStep DEF ReadPlain
    <2>2. CASE ReadPlain(i, Reply(c, "HELO_OUT"))
      BY <2>2, <1>c, <1>e, PlainStep DEF ReadPlain
    <2> QED
      BY <1>6, <2>1, <2>2 DEF ReadHelo
  <1>7. CASE ReadMail(i)
    <2>1. PICK m \in {0, c.id} :
             ReadPlain(i, [Reply(c, "MAIL_OUT") EXCEPT !.mail = m])
      BY <1>7 DEF ReadMail
    <2> DEFINE r == Reply(c, "MAIL_OUT")
               d == [r EXCEPT !.mail = m]
    <2>2. r \in Con /\ StateFits(r) /\ OutFits(r) /\ r.black = c.black
      BY <1>c, <1>e
    <2>3. ReadLine(i, d)
      BY <2>1 DEF ReadPlain
    <2> HIDE DEF r
    <2>4. m \in Nat
      BY <1>b
    <2>5. d \in Con /\ StateFits(d) /\ OutFits(d) /\ d.black = c.black
      BY <2>2, <2>4, FieldsKept
    <2> QED
      BY <2>3, <2>5, PlainStep
  <1>8. CASE ReadRcpt(i)
    <2>1. PICK m \in {0, c.id} :
             ReadLine(i, [Reply(c, "RCPT_OUT") EXCEPT !.rcpt = m])
      BY <1>8 DEF ReadRcpt
    <2> DEFINE r == Reply(c, "RCPT_OUT")
               d == [r EXCEPT !.rcpt = m]
    <2>2. r \in Con /\ StateFits(r) /\ OutFits(r) /\ r.black = c.black
      BY <1>c, <1>e
    <2>3. ReadLine(i, d)
      BY <2>1
    <2> HIDE DEF r
    <2>4. m \in Nat
      BY <1>b
    <2>5. d \in Con /\ StateFits(d) /\ OutFits(d) /\ d.black = c.black
      BY <2>2, <2>4, FieldsKept
    <2> QED
      BY <2>3, <2>5, PlainStep
  <1>9. CASE ReadData(i)
    <2> DEFINE w == [c EXCEPT !.out = ReplyLen]
               v == [c EXCEPT !.state = "REPLY", !.out = ReplyLen]
    <2>1. ReplyLen \in Int /\ ReplyLen > 0
      BY ConAssumption
    <2>2. w \in Con /\ w.out = ReplyLen /\ w.black = c.black
      BY <2>1, <1>a DEF Con
    <2>3. v \in Con /\ v.black = c.black
      BY <2>1, <1>a DEF Con, States
    <2>4. ReadLine(i, Done(v)) \/ ReadLine(i, Writing(w, "DATA_OUT"))
      BY <1>9 DEF ReadData, ReadPlain
    <2> HIDE DEF w, v
    <2>5. CASE ReadLine(i, Done(v))
      BY <2>3, <2>5, <1>a, DoneFits, PlainStep
    <2>6. CASE ReadLine(i, Writing(w, "DATA_OUT"))
      <3>1. OutFits(Writing(w, "DATA_OUT"))
        BY <2>1, <2>2, <1>a, <1>c, WritingFits DEF OutFits
      <3> QED
        BY <3>1, <2>2, <2>6, <1>a, <1>c, WritingFits, PlainStep
    <2> QED
      BY <2>4, <2>5, <2>6
  <1>10. CASE ReadNoop(i)
    BY <1>10, <1>a, <1>d, AgainFits, PlainStep DEF ReadNoop, ReadPlain
  <1>11. CASE ReadBad(i)
    <2> DEFINE d == [c EXCEPT !.bad = @ + 1]
               f == [d EXCEPT !.state = "REPLY"]
    <2>1. d \in Con /\ d.black = c.black /\ d.last = c.last
      BY <1>a, <1>b DEF Con
    <2>2. InDialogue(c) /\ (ReadLine(i, Again(d)) \/ ReadLine(i, Done(f)))
      BY <1>11 DEF ReadBad, ReadPlain
    <2> HIDE DEF d
    <2>3. f \in Con /\ f.black = c.black
      BY <2>1 DEF Con, States
    <2> HIDE DEF f
    <2>4. CASE ReadLine(i, Again(d))
      BY <2>1, <2>2, <2>4, <1>a, <1>d, AgainFits, PlainStep
    <2>5. CASE ReadLine(i, Done(f))
      BY <2>3, <2>5, <1>a, DoneFits, PlainStep
    <2> QED
      BY <2>2, <2>4, <2>5
  <1>12. CASE ReadMessage(i)
    <2> DEFINE d == [c EXCEPT !.age = loopAge]
    <2>1. ReadLine(i, Done(q)) \/ ReadLine(i, d)
      BY <1>12 DEF ReadMessage, ReadPlain
    <2>2. d \in Con
      BY <1>a DEF Con
    <2>3. d.black = c.black /\ d.state = c.state /\ d.dir = c.dir
          /\ d.last = c.last /\ d.out = c.out
      BY <1>a DEF Con
    <2> HIDE DEF d, q
    <2>4. StateFits(d) /\ (~MsgNl => OutFits(d))
      BY <2>3, <1>a DEF StateFits, OutFits, InDialogue
    <2>5. CASE ReadLine(i, Done(q))
      BY <2>5, <1>a, <1>f, DoneFits, PlainStep
    <2>6. CASE ReadLine(i, d)
      BY <2>2, <2>3, <2>4, <2>6, PlainStep
    <2> QED
      BY <2>1, <2>5, <2>6
  <1> QED
    BY <1>1, <1>2, <1>3, <1>4, <1>5, <1>6, <1>7, <1>8, <1>9, <1>10, <1>11, <1>12
       DEF ServeRead

\* write() fails or takes some bytes.
LEMMA WriteStep ==
    ASSUME BaseInv, NEW i \in Open, ServeWrite(i)
    PROVE  SlotStep(i)
  <1>a. /\ i \in Slots /\ loopAge \in Nat /\ cons[i] \in Con
        /\ StateFits(cons[i]) /\ (~MsgNl => OutFits(cons[i]))
    BY OpenSlot
  <1>b. cons[i].dir = "out"
    BY ServedSlot DEF ServeWrite, WriteFail, WriteSome
  <1>1. CASE WriteFail(i)
    <2>1. ~MsgNl => cons[i].out # 0
      BY <1>a, <1>b DEF OutFits
    <2> QED
      BY <1>1, <2>1, ConAssumption DEF WriteFail, SlotStep
  <1>2. CASE WriteSome(i)
    <2> DEFINE c == Hurried(cons[i])
    <2>1. c \in Con
      BY <1>a DEF Hurried, Con
    <2>2. /\ c.state = cons[i].state /\ c.last = cons[i].last /\ c.dir = "out"
          /\ c.out = cons[i].out /\ c.black = cons[i].black
      BY <1>a, <1>b DEF Hurried, Con
    <2>3. PICK n \in 1 .. ToBeWritten(c) :
             \/ /\ n # c.out
                /\ cons' = [cons EXCEPT ![i] = Written(c, n)]
                /\ UNCHANGED <<clients, blackClients, slow>>
             \/ Closed(i, 1)
             \/ /\ n = c.out
                /\ c.state # "CLOSE"
                /\ cons' = [cons EXCEPT ![i] =
                       Reading([c EXCEPT !.out = 0], Awaiting[c.state])]
                /\ UNCHANGED <<clients, blackClients, slow>>
      BY <1>2 DEF WriteSome
    <2> HIDE DEF c
    <2>4. StateFits(c) /\ (~MsgNl => c.out > 0)
      BY <2>2, <1>a, <1>b DEF StateFits, OutFits, InDialogue
    <2>5. c.out \in Int /\ c.stutter \in Nat
      BY <2>1 DEF Con
    <2>6. n \in Nat \ {0} /\ (~MsgNl => n <= c.out)
      BY <2>3, <2>4, <2>5 DEF ToBeWritten
    <2>7. CASE /\ n # c.out
               /\ cons' = [cons EXCEPT ![i] = Written(c, n)]
               /\ UNCHANGED <<clients, blackClients, slow>>
      <3> DEFINE d == Written(c, n)
                 left == IF c.out > n THEN c.out - n ELSE -1
      <3>1. left \in Int /\ loopAge - c.stutter \in Int /\ (~MsgNl => left > 0)
        BY <2>5, <2>6, <2>7, <1>a
      <3>2. d = [c EXCEPT !.out = left, !.age = loopAge - c.stutter]
        BY <2>1 DEF Written, Con
      <3> HIDE DEF left, d
      <3>3. d \in Con
        BY <3>1, <3>2, <2>1 DEF Con
      <3>4. /\ d.state = c.state /\ d.last = c.last /\ d.dir = c.dir
            /\ d.out = left /\ d.black = c.black
        BY <3>2, <2>1 DEF Con
      <3>5. StateFits(d) /\ (~MsgNl => OutFits(d))
        BY <3>1, <3>4, <2>2, <2>4 DEF StateFits, OutFits, InDialogue
      <3>6. Kept(i, d)
        BY <3>3, <3>4, <3>5, <2>2, <2>7 DEF Kept, d
      <3> QED
        BY <3>6 DEF SlotStep
    <2>8. CASE Closed(i, 1)
      BY <2>8 DEF SlotStep
    <2>9. CASE /\ c.state # "CLOSE"
               /\ cons' = [cons EXCEPT ![i] =
                       Reading([c EXCEPT !.out = 0], Awaiting[c.state])]
               /\ UNCHANGED <<clients, blackClients, slow>>
      <3> DEFINE e == [c EXCEPT !.out = 0]
      <3>1. e \in Con
        BY <2>1 DEF Con
      <3>2. e.out = 0 /\ e.state = c.state /\ e.black = c.black
        BY <2>1 DEF Con
      <3>3. c.state \in OutStates \ {"CLOSE"}
        BY <2>2, <2>4, <2>9 DEF StateFits
      <3>4. Awaiting[c.state] \in InStates
        BY <3>3 DEF Awaiting, OutStates, InStates
      <3> HIDE DEF e
      <3>5. Kept(i, Reading(e, Awaiting[c.state]))
        BY <3>1, <3>2, <3>3, <3>4, <2>2, <2>9, <1>a, ReadingFits DEF Kept, e
      <3> QED
        BY <3>5 DEF SlotStep
    <2> QED
      BY <2>3, <2>7, <2>8, <2>9
  <1> QED
    BY <1>1, <1>2 DEF ServeWrite

----------------------------------------------------------------------------
(* What a step does to the slots keeps them in order. *)

\* The invariants of the slots follow from what holds of each slot.
LEMMA SlotsInOrder ==
    ASSUME cons' \in [Slots -> Con \cup {NoCon}],
           \A j \in Slots : cons'[j] # NoCon =>
               StateFits(cons'[j]) /\ (~MsgNl => OutFits(cons'[j]))
    PROVE  StatesFit' /\ (~MsgNl => OutsFit')
  <1>1. Open' = {j \in Slots : cons'[j] # NoCon}
    BY DEF Open
  <1>2. \A j \in Open' : StateFits(cons'[j]) /\ (~MsgNl => OutFits(cons'[j]))
    BY <1>1
  <1>3. StatesFit' <=> \A j \in Open' : StateFits(cons'[j])
    BY DEF StatesFit, StateFits, InDialogue
  <1>4. OutsFit' <=> \A j \in Open' : OutFits(cons'[j])
    BY DEF OutsFit, OutFits
  <1> QED
    BY <1>2, <1>3, <1>4

\* Serving a slot leaves the others alone and its own in order.
LEMMA SlotKept ==
    ASSUME BaseInv, NEW i \in Open, SlotStep(i), ev' = [ev EXCEPT ![i] = "none"]
    PROVE  TypeCons' /\ EventsFit' /\ StatesFit' /\ (~MsgNl => OutsFit')
  <1>a. /\ i \in Slots /\ cons \in [Slots -> Con \cup {NoCon}]
        /\ ev \in [Slots -> {"none", "hup", "in", "out"}]
        /\ clients \in Int /\ blackClients \in Int
        /\ slow \in {"no", "ahead", "past", "seen"}
    BY OpenSlot DEF BaseInv, TypeOK, TypeCons, TypeLoop
  <1>b. \A j \in Slots : cons[j] # NoCon =>
           StateFits(cons[j]) /\ (~MsgNl => OutFits(cons[j]))
    BY DEF BaseInv, StatesFit, OutsFit, Open
  <1>c. PICK c \in Con \cup {NoCon} :
           /\ cons' = [cons EXCEPT ![i] = c]
           /\ c # NoCon => StateFits(c) /\ (~MsgNl => OutFits(c))
           /\ clients' \in Int /\ blackClients' \in Int
           /\ slow' \in {"no", "ahead", "past", "seen"}
    BY <1>a DEF SlotStep, Kept, Closed
  <1>1. cons' \in [Slots -> Con \cup {NoCon}]
    BY <1>a, <1>c
  <1>2. cons'[i] = c /\ \A j \in Slots \ {i} : cons'[j] = cons[j]
    BY <1>a, <1>c
  <1>3. StatesFit' /\ (~MsgNl => OutsFit')
    BY <1>b, <1>c, <1>1, <1>2, SlotsInOrder
  <1>4. EventsFit'
    BY <1>a, <1>2 DEF BaseInv, EventsFit, Open
  <1> QED
    BY <1>c, <1>1, <1>3, <1>4 DEF TypeCons

\* A connection that is served keeps the invariant of the loop.
LEMMA ServeKeeps ==
    ASSUME BaseInv, NEW i \in Open,
           ServeHup(i) \/ ServeRead(i) \/ ServeWrite(i)
    PROVE  BaseInv'
  <1> USE DEF BaseInv, TypeOK
  <1>a. i \in Slots /\ cons[i] \in Con
    BY OpenSlot
  <1>1. SlotStep(i)
    BY ReadStep, WriteStep DEF ServeHup, SlotStep
  <1>2. PICK e : Serving(i, e)
    BY DEF ServeHup, ServeRead, ReadEof, ReadPart, ReadQuit, ReadRset, ReadProxy,
           ReadHelo, ReadMail, ReadRcpt, ReadData, ReadNoop, ReadBad,
           ReadMessage, ReadPlain, ReadLine, ServeWrite, WriteFail, WriteSome
  <1>3. /\ pc = "serve" /\ ev' = [ev EXCEPT ![i] = "none"]
        /\ UNCHANGED <<proxy, loopAge, pollOut, evMain, evCfg, cfg, accepts,
                       errors, cfgs>>
    BY <1>2 DEF Serving
  <1>4. inputs' \in Nat
    BY DEF TypeLoop, ServeHup, ServeRead, ReadEof, ReadPart, ReadQuit, ReadRset,
           ReadProxy, ReadHelo, ReadMail, ReadRcpt, ReadData, ReadNoop, ReadBad,
           ReadMessage, ReadPlain, ReadLine, ServeWrite, WriteFail, WriteSome
  <1>5. CASE ReadRcpt(i)
    <2>1. PICK m \in {0, cons[i].id} :
             LET d == [Reply(cons[i], "RCPT_OUT") EXCEPT !.rcpt = m] IN
             /\ ReadLine(i, d)
             /\ \/ pc' = "nat" /\ asking' = i /\ natPipe' = Append(natPipe, d.id)
                   /\ UNCHANGED <<natBuf, natAnswers>>
                \/ UNCHANGED <<pc, natPipe, natBuf, natAnswers>>
      BY <1>5 DEF ReadRcpt, natVars
    <2> DEFINE r == Reply(cons[i], "RCPT_OUT")
               d == [r EXCEPT !.rcpt = m]
    <2>2. r \in Con
      BY <1>a, OpenSlot, ReplyFits DEF OutStates
    <2>3. m \in Nat
      BY <1>a DEF Con
    <2> HIDE DEF r
    <2>4. d \in Con /\ d.id \in Nat
      BY <2>2, <2>3, FieldsKept DEF Con
    <2>5. cons' = [cons EXCEPT ![i] = d]
      BY <2>1 DEF ReadLine, r
    <2>6. i \in Open'
      BY <2>4, <2>5, <1>a, ConAssumption DEF Open, TypeCons
    <2>7. /\ \/ pc' = "nat" /\ asking' = i /\ natPipe' = Append(natPipe, d.id)
             \/ UNCHANGED <<pc, natPipe>>
          /\ UNCHANGED <<natBuf, natAnswers>>
      BY <2>1 DEF r
    <2> HIDE DEF d
    <2>a. natPipe \in Seq(Nat) /\ natBuf \in Seq(Nat) /\ natAnswers \in Seq(Nat)
      BY DEF TypeNat
    <2>b. Append(natPipe, d.id) \in Seq(Nat)
      BY <2>4, <2>a
    <2>c. natPipe' \in Seq(Nat)
      BY <2>7, <2>a, <2>b
    <2>d. pc' \in {"serve", "nat"} /\ (pc' = "nat" => asking' = i)
      BY <2>7, <1>3
    <2>8. TypeNat' /\ pc' \in {"serve", "nat"}
      BY <2>6, <2>7, <2>a, <2>c, <2>d DEF TypeNat
    <2>9. TypeLoop'
      BY <2>8, <1>3, <1>4 DEF TypeLoop
    <2> QED
      BY <2>8, <2>9, <1>1, <1>3, SlotKept DEF NoEvents
  <1>6. CASE ~ReadRcpt(i)
    <2>1. UNCHANGED <<pc, natPipe, natBuf, natAnswers>>
      BY <1>6 DEF ServeHup, ServeRead, ReadEof, ReadPart, ReadQuit, ReadRset,
             ReadProxy, ReadHelo, ReadMail, ReadData, ReadNoop, ReadBad,
             ReadMessage, ReadPlain, ServeWrite, WriteFail, WriteSome, natVars
    <2>2. TypeNat' /\ TypeLoop'
      BY <2>1, <1>3, <1>4 DEF TypeNat, TypeLoop
    <2> QED
      BY <2>1, <2>2, <1>1, <1>3, SlotKept DEF NoEvents
  <1> QED
    BY <1>5, <1>6

----------------------------------------------------------------------------
(* The steps that touch all slots, a free one, or none. *)

\* A connection that gets older stays what it is.
LEMMA OlderFits ==
    ASSUME NEW c \in Con
    PROVE  /\ Older(c) \in Con
           /\ Older(c).state = c.state /\ Older(c).last = c.last
           /\ Older(c).dir = c.dir /\ Older(c).out = c.out
           /\ Older(c).black = c.black
  <1> DEFINE a == Least(c.age + 1, MaxTime)
             l == IF c.black THEN 0 ELSE Least(c.life + 1, GreyStutter + 1)
  <1>1. c.age \in Int /\ c.life \in Nat
    BY DEF Con
  <1>2. MaxTime \in Int /\ GreyStutter \in Nat
    BY ConAssumption
  <1>3. a \in Int /\ l \in Nat
    BY <1>1, <1>2 DEF Least
  <1>4. c # NoCon
    BY ConAssumption
  <1>5. Older(c) = [c EXCEPT !.age = a, !.life = l]
    BY <1>4 DEF Older, Con
  <1> HIDE DEF a, l
  <1>6. Older(c) \in Con
    BY <1>3, <1>5 DEF Con
  <1>7. /\ Older(c).state = c.state /\ Older(c).last = c.last
        /\ Older(c).dir = c.dir /\ Older(c).out = c.out
        /\ Older(c).black = c.black
    BY <1>5 DEF Con
  <1> QED
    BY <1>6, <1>7

\* Time goes by.
LEMMA TickKeeps ==
    ASSUME BaseInv, Tick
    PROVE  BaseInv' /\ Open' = Open /\ OpenBlack' = OpenBlack
  <1> USE DEF BaseInv, TypeOK
  <1>1. cons' = [i \in Slots |-> Older(cons[i])]
    BY DEF Tick
  <1>2. cons \in [Slots -> Con \cup {NoCon}]
    BY DEF TypeCons
  <1>3. \A i \in Slots : cons[i] = NoCon => cons'[i] = NoCon
    BY <1>1 DEF Older
  <1>4. \A i \in Slots : cons[i] \in Con =>
           /\ cons'[i] \in Con
           /\ cons'[i].state = cons[i].state /\ cons'[i].last = cons[i].last
           /\ cons'[i].dir = cons[i].dir /\ cons'[i].out = cons[i].out
           /\ cons'[i].black = cons[i].black
    BY <1>1, OlderFits
  <1>5. cons' \in [Slots -> Con \cup {NoCon}]
    <2>1. \A i \in Slots : cons'[i] \in Con \cup {NoCon}
      BY <1>2, <1>3, <1>4
    <2> QED
      BY <1>1, <2>1
  <1>6. Open' = Open
    BY <1>2, <1>3, <1>4, ConAssumption DEF Open
  <1>7. OpenBlack' = OpenBlack
    BY <1>2, <1>4, <1>6 DEF OpenBlack, Open
  <1>8. EventsFit'
    BY <1>2, <1>4, <1>6 DEF EventsFit, Open, Tick
  <1>9. StatesFit' /\ (~MsgNl => OutsFit')
    <2>1. \A j \in Slots : cons'[j] # NoCon => cons[j] \in Con /\ j \in Open
      BY <1>2, <1>3 DEF Open
    <2>2. \A j \in Slots : cons'[j] # NoCon =>
             StateFits(cons'[j]) /\ (~MsgNl => OutFits(cons'[j]))
      BY <2>1, <1>4 DEF StatesFit, OutsFit, StateFits, OutFits, InDialogue
    <2> QED
      BY <2>2, <1>5, SlotsInOrder
  <1>10. TypeCons'
    BY <1>5 DEF TypeCons, Tick
  <1>11. TypeLoop'
    <2>1. loopAge' \in 0 .. MaxTime
      BY ConAssumption DEF TypeLoop, Tick, Least
    <2> QED
      BY <2>1 DEF TypeLoop, Tick, boundVars
  <1>12. TypeNat' /\ NoEvents'
    BY <1>6 DEF TypeNat, NoEvents, Tick, natVars
  <1> QED
    BY <1>6, <1>7, <1>8, <1>9, <1>10, <1>11, <1>12

\* Late clients are dropped, the others are as they were.
LEMMA LoopTopKeeps ==
    ASSUME BaseInv, LoopTop
    PROVE  /\ BaseInv'
           /\ Open' = Open \ Late
           /\ OpenBlack' = OpenBlack \ (Late \cap OpenBlack)
  <1> USE DEF BaseInv, TypeOK
  <1> DEFINE Looked(c) == [c EXCEPT !.old = (c.life > GreyStutter)]
  <1>1. /\ cons' = [i \in Slots |-> IF i \in Late \/ cons[i] = NoCon THEN NoCon
                                    ELSE Looked(cons[i])]
        /\ pc = "top" /\ pc' = "poll"
    BY DEF LoopTop
  <1>2. cons \in [Slots -> Con \cup {NoCon}] /\ Late \subseteq Open
        /\ Open \subseteq Slots
    BY DEF TypeCons, Late, Open
  <1>3. \A c \in Con :
           /\ Looked(c) \in Con
           /\ Looked(c).state = c.state /\ Looked(c).last = c.last
           /\ Looked(c).dir = c.dir /\ Looked(c).out = c.out
           /\ Looked(c).black = c.black
    <2> TAKE c \in Con
    <2> DEFINE b == c.life > GreyStutter
    <2>1. b \in BOOLEAN
      OBVIOUS
    <2>2. Looked(c) = [c EXCEPT !.old = b]
      OBVIOUS
    <2> HIDE DEF b, Looked
    <2>3. Looked(c) \in Con
      BY <2>1, <2>2 DEF Con
    <2>4. /\ Looked(c).state = c.state /\ Looked(c).last = c.last
          /\ Looked(c).dir = c.dir /\ Looked(c).out = c.out
          /\ Looked(c).black = c.black
      BY <2>2 DEF Con
    <2> QED
      BY <2>3, <2>4
  <1> HIDE DEF Looked
  <1>4. \A i \in Slots : i \notin Open \ Late => cons'[i] = NoCon
    BY <1>1 DEF Open
  <1>5. \A i \in Open \ Late :
           /\ cons[i] \in Con /\ cons'[i] \in Con
           /\ cons'[i].state = cons[i].state /\ cons'[i].last = cons[i].last
           /\ cons'[i].dir = cons[i].dir /\ cons'[i].out = cons[i].out
           /\ cons'[i].black = cons[i].black
    <2> TAKE i \in Open \ Late
    <2>1. i \in Slots /\ cons[i] \in Con /\ cons[i] # NoCon
      BY <1>2 DEF Open
    <2>2. cons'[i] = Looked(cons[i])
      BY <2>1, <1>1
    <2> QED
      BY <2>1, <2>2, <1>3
  <1>6. cons' \in [Slots -> Con \cup {NoCon}]
    <2>1. \A i \in Slots : cons'[i] \in Con \cup {NoCon}
      BY <1>4, <1>5
    <2> QED
      BY <1>1, <2>1
  <1>7. Open' = Open \ Late
    BY <1>2, <1>4, <1>5, ConAssumption DEF Open
  <1>8. OpenBlack' = OpenBlack \ (Late \cap OpenBlack)
    BY <1>5, <1>7 DEF OpenBlack
  <1>9. StatesFit' /\ (~MsgNl => OutsFit')
    <2>1. \A j \in Slots : cons'[j] # NoCon => j \in Open \ Late
      BY <1>4
    <2>2. \A j \in Slots : cons'[j] # NoCon =>
             StateFits(cons'[j]) /\ (~MsgNl => OutFits(cons'[j]))
      BY <2>1, <1>5 DEF StatesFit, OutsFit, StateFits, OutFits, InDialogue
    <2> QED
      BY <2>2, <1>6, SlotsInOrder
  <1>10. EventsFit' /\ NoEvents'
    BY <1>1 DEF EventsFit, NoEvents, LoopTop
  <1>11. TypeCons'
    <2>1. IsFiniteSet(Slots)
      BY FS_Interval, ConAssumption DEF Slots
    <2>2. IsFiniteSet(Late) /\ IsFiniteSet(Late \cap OpenBlack)
      BY <2>1, <1>2, FS_Subset
    <2>3. Cardinality(Late) \in Nat /\ Cardinality(Late \cap OpenBlack) \in Nat
      BY <2>2, FS_CardinalityType
    <2>4. clients' \in Int /\ blackClients' \in Int
      BY <2>3 DEF LoopTop, TypeCons
    <2> QED
      BY <2>4, <1>6 DEF TypeCons, LoopTop
  <1>12. TypeLoop'
    <2>1. pollOut' \subseteq Slots
      BY <1>2 DEF LoopTop
    <2>2. loopAge' \in 0 .. MaxTime
      BY ConAssumption DEF LoopTop
    <2> QED
      BY <2>1, <2>2 DEF LoopTop, TypeLoop, boundVars
  <1>13. TypeNat'
    BY <1>1 DEF TypeNat, LoopTop
  <1> QED
    BY <1>7, <1>8, <1>9, <1>10, <1>11, <1>12, <1>13

\* A new connection.
LEMMA FreshFits ==
    ASSUME proxy \in BOOLEAN, NEW id \in Nat, NEW black \in BOOLEAN
    PROVE  /\ Fresh(id, black) \in Con
           /\ StateFits(Fresh(id, black))
           /\ OutFits(Fresh(id, black))
           /\ Fresh(id, black).black = black
  <1> DEFINE s == StutterAt(black)
             f == Fresh(id, black)
  <1>1. s \in Nat
    BY ConAssumption DEF StutterAt
  <1>2. ReplyLen \in Int /\ ReplyLen > 0
    BY ConAssumption
  <1>3. /\ f.id = id /\ f.black = black /\ f.mail = 0 /\ f.rcpt = 0 /\ f.bad = 0
        /\ f.life = 0 /\ f.old = FALSE /\ f.stutter = s
        /\ f.state = (IF proxy THEN "PROXY_OUT" ELSE "BANNER_OUT")
        /\ f.last = (IF proxy THEN "PROXY_IN" ELSE "BANNER_IN")
        /\ f.dir = (IF proxy THEN "in" ELSE "out")
        /\ f.age = (IF proxy THEN 0 ELSE 0 - s)
        /\ f.out = (IF proxy THEN 0 ELSE ReplyLen)
    BY DEF Fresh
  <1>4. f \in Con
    <2>1. 0 - s \in Int
      BY <1>1
    <2> HIDE DEF s
    <2>2. f = [id |-> id, black |-> black, mail |-> 0, rcpt |-> 0, bad |-> 0,
               life |-> 0, old |-> FALSE, stutter |-> s,
               state |-> IF proxy THEN "PROXY_OUT" ELSE "BANNER_OUT",
               last |-> IF proxy THEN "PROXY_IN" ELSE "BANNER_IN",
               dir |-> IF proxy THEN "in" ELSE "out",
               age |-> IF proxy THEN 0 ELSE 0 - s,
               out |-> IF proxy THEN 0 ELSE ReplyLen]
      BY DEF Fresh, s
    <2> QED
      BY <1>1, <1>2, <2>1, <2>2 DEF Con, States, InStates, OutStates
  <1> HIDE DEF f, s
  <1>5. StateFits(f)
    BY <1>3 DEF StateFits, InStates, OutStates, InDialogue
  <1>6. OutFits(f)
    BY <1>2, <1>3 DEF OutFits
  <1> QED
    BY <1>3, <1>4, <1>5, <1>6 DEF f

\* A free slot is taken.
LEMMA AcceptKeeps ==
    ASSUME BaseInv, NEW i \in Slots, NEW black \in BOOLEAN, Accept(i, black)
    PROVE  /\ BaseInv'
           /\ Open' = Open \cup {i}
           /\ OpenBlack' = IF black THEN OpenBlack \cup {i} ELSE OpenBlack
  <1> USE DEF BaseInv, TypeOK
  <1> DEFINE f == Fresh(accepts + 1, black)
  <1>1. /\ f \in Con /\ StateFits(f) /\ OutFits(f) /\ f.black = black
        /\ accepts + 1 \in Nat
    BY FreshFits DEF TypeLoop
  <1>2. cons' = [cons EXCEPT ![i] = f] /\ i \notin Open
    BY DEF Accept
  <1> HIDE DEF f
  <1>3. cons \in [Slots -> Con \cup {NoCon}]
    BY DEF TypeCons
  <1>4. /\ cons' \in [Slots -> Con \cup {NoCon}]
        /\ cons'[i] = f
        /\ \A j \in Slots \ {i} : cons'[j] = cons[j]
    BY <1>1, <1>2, <1>3
  <1>5. f # NoCon
    BY <1>1, ConAssumption
  <1>6. Open' = Open \cup {i}
    BY <1>4, <1>5 DEF Open
  <1>7. OpenBlack' = IF black THEN OpenBlack \cup {i} ELSE OpenBlack
    BY <1>1, <1>2, <1>4, <1>6 DEF OpenBlack, Open
  <1>8. StatesFit' /\ (~MsgNl => OutsFit')
    <2>1. \A j \in Slots : cons'[j] # NoCon =>
             StateFits(cons'[j]) /\ (~MsgNl => OutFits(cons'[j]))
      BY <1>1, <1>4 DEF StatesFit, OutsFit, Open
    <2> QED
      BY <2>1, <1>4, SlotsInOrder
  <1>9. EventsFit' /\ NoEvents'
    BY <1>4, <1>6 DEF EventsFit, NoEvents, Open, Accept, Served
  <1>10. TypeCons'
    BY <1>4 DEF TypeCons, Accept
  <1>11. TypeLoop' /\ TypeNat'
    BY <1>1, <1>6 DEF TypeLoop, TypeNat, Accept, natVars
  <1> QED
    BY <1>6, <1>7, <1>8, <1>9, <1>10, <1>11

\* poll() returns.
LEMMA PollReturnKeeps ==
    ASSUME BaseInv, PollReturn
    PROVE  BaseInv'
  <1> USE DEF BaseInv, TypeOK
  <1>1. UNCHANGED cons /\ Open' = Open
    BY DEF PollReturn, Open
  <1>2. /\ ev' \in [Slots -> {"none", "hup", "in", "out"}]
        /\ \A i \in Slots : ev'[i] \in Events(i)
    BY DEF PollReturn
  <1>3. EventsFit'
    <2> SUFFICES ASSUME NEW i \in Slots, ev'[i] # "none"
                 PROVE  i \in Open' /\ (ev'[i] # "hup" => ev'[i] = cons'[i].dir)
      BY DEF EventsFit
    <2>1. i \in Open
      BY <1>2 DEF Events
    <2>2. cons[i].dir \in {"in", "out"}
      BY <2>1, OpenSlot DEF Con
    <2> QED
      BY <1>1, <1>2, <2>1, <2>2 DEF Events
  <1>4. StatesFit' /\ (~MsgNl => OutsFit')
    BY <1>1 DEF StatesFit, OutsFit
  <1>5. TypeCons'
    BY <1>1 DEF PollReturn, TypeCons
  <1>6. evMain' \in BOOLEAN /\ evCfg' \in BOOLEAN
    BY DEF PollReturn
  <1>7. TypeLoop'
    BY <1>2, <1>6 DEF PollReturn, TypeLoop, boundVars
  <1>8. TypeNat' /\ NoEvents'
    BY DEF PollReturn, TypeNat, NoEvents, natVars
  <1> QED
    BY <1>3, <1>4, <1>5, <1>7, <1>8

\* The questions about original destinations, and the answers.
LEMMA NatKeeps ==
    ASSUME BaseInv, NatAnswer \/ NatTimeout \/ FwLookup
    PROVE  BaseInv' /\ UNCHANGED <<cons, clients, blackClients>>
  <1> USE DEF BaseInv, TypeOK
  <1>1. UNCHANGED <<cons, clients, blackClients, slow, proxy, loopAge, pollOut,
                    ev, evMain, evCfg, cfg, boundVars>>
    BY DEF NatAnswer, NatTimeout, FwLookup, loopVars
  <1>2. Open' = Open
    BY <1>1 DEF Open
  <1>3. (pc' = pc /\ asking' = asking) \/ pc' = "serve"
    BY DEF NatAnswer, NatTimeout, FwLookup, loopVars
  <1>a. natPipe \in Seq(Nat) /\ natBuf \in Seq(Nat) /\ natAnswers \in Seq(Nat)
    BY DEF TypeNat
  <1>b. \A s \in Seq(Nat) : \A m, n \in Nat :
           m >= 1 /\ n <= Len(s) => SubSeq(s, m, n) \in Seq(Nat)
    OBVIOUS
  <1>4. /\ natPipe' \in Seq(Nat) /\ natBuf' \in Seq(Nat)
        /\ natAnswers' \in Seq(Nat)
    <2>1. CASE NatAnswer
      <3>1. PICK n \in 1 .. Len(natAnswers) :
               natAnswers' = SubSeq(natAnswers, n + 1, Len(natAnswers))
        BY <2>1 DEF NatAnswer
      <3>2. n + 1 \in Nat /\ n + 1 >= 1 /\ Len(natAnswers) \in Nat
        BY <1>a
      <3>3. natAnswers' \in Seq(Nat)
        BY <3>1, <3>2, <1>a, <1>b
      <3> QED
        BY <3>3, <2>1, <1>a DEF NatAnswer
    <2>2. CASE NatTimeout
      BY <2>2, <1>a DEF NatTimeout
    <2>3. CASE FwLookup
      <3> DEFINE q == IF natBuf # <<>> THEN Head(natBuf) ELSE Head(natPipe)
      <3>1. natPipe # <<>> /\ natAnswers' \in {natAnswers, Append(natAnswers, q)}
        BY <2>3 DEF FwLookup
      <3>2. q \in Nat
        BY <3>1, <1>a
      <3> HIDE DEF q
      <3>a. Append(natAnswers, q) \in Seq(Nat)
        BY <3>2, <1>a
      <3>3. natAnswers' \in Seq(Nat)
        BY <3>1, <3>a, <1>a
      <3>4. CASE natBuf # <<>>
        <4>1. natBuf' = Tail(natBuf) /\ natPipe' = natPipe
          BY <2>3, <3>4 DEF FwLookup
        <4>2. Tail(natBuf) \in Seq(Nat)
          BY <3>4, <1>a
        <4> QED
          BY <4>1, <4>2, <3>3, <1>a
      <3>5. CASE natBuf = <<>>
        <4>1. PICK n \in 1 .. Len(natPipe) :
                 /\ natBuf' = SubSeq(natPipe, 2, n)
                 /\ natPipe' = SubSeq(natPipe, n + 1, Len(natPipe))
          BY <2>3, <3>5 DEF FwLookup
        <4>2. n \in Nat /\ n + 1 \in Nat /\ n + 1 >= 1 /\ Len(natPipe) \in Nat
              /\ n <= Len(natPipe)
          BY <1>a
        <4>3. natBuf' \in Seq(Nat)
          BY <4>1, <4>2, <1>a, <1>b
        <4>4. natPipe' \in Seq(Nat)
          BY <4>1, <4>2, <1>a, <1>b
        <4> QED
          BY <4>3, <4>4, <3>3
      <3> QED
        BY <3>4, <3>5
    <2> QED
      BY <2>1, <2>2, <2>3
  <1>5. TypeNat'
    BY <1>2, <1>3, <1>4 DEF TypeNat
  <1>6. EventsFit' /\ NoEvents' /\ StatesFit' /\ (~MsgNl => OutsFit')
    BY <1>1, <1>2, <1>3 DEF EventsFit, NoEvents, StatesFit, OutsFit
  <1>7. TypeCons' /\ TypeLoop'
    BY <1>1, <1>3 DEF TypeCons, TypeLoop, boundVars
  <1> QED
    BY <1>1, <1>5, <1>6, <1>7

\* The other steps of the listening sockets and the end of a turn.
LEMMA SocketsKeep ==
    ASSUME BaseInv, AcceptFull \/ AcceptFail \/ ServeCfg \/ LoopEnd
    PROVE  BaseInv' /\ UNCHANGED <<cons, clients, blackClients>>
  <1> USE DEF BaseInv, TypeOK
  <1> USE DEF AcceptFull, AcceptFail, ServeCfg, LoopEnd, Served
  <1>1. UNCHANGED <<cons, clients, blackClients, ev, natVars>>
    OBVIOUS
  <1>2. Open' = Open
    BY <1>1 DEF Open
  <1>3. pc' \in {"serve", "top"} /\ \A i \in Slots : ev[i] = "none"
    OBVIOUS
  <1>4. TypeNat'
    BY <1>1, <1>3 DEF TypeNat, natVars
  <1>5. TypeCons'
    BY <1>1 DEF TypeCons
  <1>6. TypeLoop'
    <2>1. accepts' \in Nat /\ errors' \in Nat /\ cfgs' \in Nat /\ inputs' \in Nat
      BY DEF TypeLoop, boundVars
    <2>2. evMain' \in BOOLEAN /\ evCfg' \in BOOLEAN /\ cfg' \in BOOLEAN
      BY Zenon DEF TypeLoop, boundVars
    <2>3. UNCHANGED <<proxy, loopAge, pollOut>>
      OBVIOUS
    <2> QED
      BY <2>1, <2>2, <2>3, <1>1, <1>3 DEF TypeLoop
  <1>7. EventsFit' /\ NoEvents' /\ StatesFit' /\ (~MsgNl => OutsFit')
    BY <1>1, <1>2, <1>3 DEF EventsFit, NoEvents, StatesFit, OutsFit
  <1> QED
    BY <1>1, <1>4, <1>5, <1>6, <1>7

----------------------------------------------------------------------------
(* The counters. *)

\* There are finitely many slots.
LEMMA FiniteOpen ==
    /\ IsFiniteSet(Open) /\ Cardinality(Open) \in Nat
    /\ IsFiniteSet(OpenBlack) /\ Cardinality(OpenBlack) \in Nat
  <1>1. IsFiniteSet(Slots)
    BY FS_Interval, ConAssumption DEF Slots
  <1>2. Open \subseteq Slots /\ OpenBlack \subseteq Slots
    BY DEF Open, OpenBlack
  <1> QED
    BY <1>1, <1>2, FS_Subset, FS_CardinalityType

\* The counters follow the slot that is served.
LEMMA SlotCounted ==
    ASSUME BaseInv, CountersInv, ~MsgNl, NEW i \in Open, SlotStep(i)
    PROVE  CountersInv'
  <1>a. /\ i \in Slots /\ cons[i] \in Con /\ cons \in [Slots -> Con \cup {NoCon}]
        /\ clients \in Int /\ blackClients \in Int
    BY OpenSlot DEF BaseInv, TypeOK, TypeCons
  <1>b. cons[i].black \in BOOLEAN
    BY <1>a DEF Con
  <1>1. CASE \E c : Kept(i, c)
    <2>1. PICK c : Kept(i, c)
      BY <1>1
    <2>2. cons'[i] = c /\ \A j \in Slots \ {i} : cons'[j] = cons[j]
      BY <2>1, <1>a DEF Kept
    <2>3. c # NoCon /\ c.black = cons[i].black
      BY <2>1, ConAssumption DEF Kept
    <2>4. Open' = Open
      BY <2>2, <2>3 DEF Open
    <2>5. OpenBlack' = OpenBlack
      BY <2>2, <2>3, <2>4 DEF OpenBlack, Open
    <2> QED
      BY <2>1, <2>4, <2>5 DEF CountersInv, Kept
  <1>2. CASE Closed(i, 1)
    <2>1. cons'[i] = NoCon /\ \A j \in Slots \ {i} : cons'[j] = cons[j]
      BY <1>2, <1>a DEF Closed
    <2>2. Open' = Open \ {i}
      BY <2>1 DEF Open
    <2>3. OpenBlack' = OpenBlack \ {i}
      BY <2>1, <2>2 DEF OpenBlack, Open
    <2>4. Cardinality(Open') = Cardinality(Open) - 1
      BY <2>2, FiniteOpen, FS_RemoveElement
    <2>5. Cardinality(OpenBlack')
             = Cardinality(OpenBlack) - (IF cons[i].black THEN 1 ELSE 0)
      <3>1. CASE cons[i].black
        <4>1. i \in OpenBlack
          BY <3>1 DEF OpenBlack
        <4> QED
          BY <4>1, <3>1, <2>3, FiniteOpen, FS_RemoveElement
      <3>2. CASE ~cons[i].black
        <4>1. OpenBlack' = OpenBlack
          BY <3>2, <2>3 DEF OpenBlack
        <4> QED
          BY <4>1, <3>2, FiniteOpen
      <3> QED
        BY <3>1, <3>2, <1>b
    <2>6. clients' = clients - 1
          /\ blackClients' = blackClients - (IF cons[i].black THEN 1 ELSE 0)
      BY <1>2 DEF Closed
    <2> QED
      BY <2>4, <2>5, <2>6 DEF CountersInv
  <1> QED
    BY <1>1, <1>2 DEF SlotStep

\* Part of a finite set is taken out of it.
LEMMA TakenOut ==
    ASSUME NEW S, IsFiniteSet(S), NEW T \in SUBSET S
    PROVE  Cardinality(S \ T) = Cardinality(S) - Cardinality(T)
  <1>1. S \cap T = T
    OBVIOUS
  <1> QED
    BY <1>1, FS_Difference

----------------------------------------------------------------------------
(* The invariants. *)

\* The invariant of the loop holds at the start.
LEMMA BaseInit == Init => BaseInv
  <1> SUFFICES ASSUME Init PROVE BaseInv
    OBVIOUS
  <1> USE DEF Init
  <1>1. Open = {}
    BY DEF Open
  <1>2. TypeCons /\ TypeNat
    BY DEF TypeCons, TypeNat
  <1>3. TypeLoop
    <2>1. proxy \in BOOLEAN
      BY ConAssumption, Zenon
    <2>2. loopAge \in 0 .. MaxTime
      BY ConAssumption
    <2>3. ev \in [Slots -> {"none", "hup", "in", "out"}]
      OBVIOUS
    <2> QED
      BY <2>1, <2>2, <2>3 DEF TypeLoop
  <1>4. EventsFit /\ NoEvents /\ StatesFit /\ (~MsgNl => OutsFit)
    BY <1>1 DEF EventsFit, NoEvents, StatesFit, OutsFit
  <1> QED
    BY <1>2, <1>3, <1>4 DEF BaseInv, TypeOK

\* Nothing changes.
LEMMA BaseStutter ==
    ASSUME BaseInv, UNCHANGED vars
    PROVE  BaseInv'
  <1> USE DEF vars, loopVars, natVars, boundVars
  <1>1. Open' = Open
    BY DEF Open
  <1>2. TypeCons'
    BY DEF BaseInv, TypeOK, TypeCons
  <1>3. TypeLoop'
    BY DEF BaseInv, TypeOK, TypeLoop
  <1>4. TypeNat'
    BY <1>1 DEF BaseInv, TypeOK, TypeNat
  <1>5. EventsFit' /\ NoEvents' /\ StatesFit' /\ (~MsgNl => OutsFit')
    BY <1>1 DEF BaseInv, EventsFit, NoEvents, StatesFit, OutsFit
  <1> QED
    BY <1>2, <1>3, <1>4, <1>5 DEF BaseInv, TypeOK

\* Every step keeps the invariant of the loop.
LEMMA BaseStep ==
    ASSUME BaseInv, Next
    PROVE  BaseInv'
  <1>1. CASE Tick
    BY <1>1, TickKeeps
  <1>2. CASE LoopTop
    BY <1>2, LoopTopKeeps
  <1>3. CASE PollReturn
    BY <1>3, PollReturnKeeps
  <1>4. CASE NatAnswer \/ NatTimeout \/ FwLookup
    BY <1>4, NatKeeps
  <1>5. CASE AcceptFull \/ AcceptFail \/ ServeCfg \/ LoopEnd
    BY <1>5, SocketsKeep
  <1>6. CASE \E i \in Open : ServeHup(i) \/ ServeRead(i) \/ ServeWrite(i)
    BY <1>6, ServeKeeps
  <1>7. CASE \E i \in Slots, black \in BOOLEAN : Accept(i, black)
    BY <1>7, AcceptKeeps
  <1> QED
    BY <1>1, <1>2, <1>3, <1>4, <1>5, <1>6, <1>7 DEF Next, Main, Serve

\* Every step keeps the counters, as long as no connection is closed twice.
LEMMA CountersStep ==
    ASSUME BaseInv, CountersInv, ~MsgNl, Next
    PROVE  CountersInv'
  <1>1. CASE Tick
    BY <1>1, TickKeeps DEF CountersInv, Tick
  <1>2. CASE LoopTop
    <2>1. Late \in SUBSET Open
      BY DEF Late
    <2>2. Cardinality(Open') = Cardinality(Open) - Cardinality(Late)
      BY <1>2, <2>1, LoopTopKeeps, FiniteOpen, TakenOut
    <2>3. Cardinality(OpenBlack')
             = Cardinality(OpenBlack) - Cardinality(Late \cap OpenBlack)
      BY <1>2, LoopTopKeeps, FiniteOpen, TakenOut
    <2> QED
      BY <1>2, <2>2, <2>3 DEF CountersInv, LoopTop
  <1>3. CASE UNCHANGED <<cons, clients, blackClients>>
    <2>1. Open' = Open /\ OpenBlack' = OpenBlack
      BY <1>3 DEF Open, OpenBlack
    <2> QED
      BY <1>3, <2>1 DEF CountersInv
  <1>4. CASE \E i \in Open : ServeHup(i) \/ ServeRead(i) \/ ServeWrite(i)
    <2>1. PICK i \in Open : ServeHup(i) \/ ServeRead(i) \/ ServeWrite(i)
      BY <1>4
    <2>2. SlotStep(i)
      BY <2>1, ReadStep, WriteStep DEF ServeHup, SlotStep
    <2> QED
      BY <2>2, SlotCounted
  <1>5. CASE \E i \in Slots, black \in BOOLEAN : Accept(i, black)
    <2>1. PICK i \in Slots, black \in BOOLEAN : Accept(i, black)
      BY <1>5
    <2>2. /\ Open' = Open \cup {i}
          /\ OpenBlack' = IF black THEN OpenBlack \cup {i} ELSE OpenBlack
      BY <2>1, AcceptKeeps
    <2>3. i \notin Open /\ i \notin OpenBlack
      BY <2>1 DEF Accept, OpenBlack
    <2>4. Cardinality(Open') = Cardinality(Open) + 1
      BY <2>2, <2>3, FiniteOpen, FS_AddElement
    <2>5. Cardinality(OpenBlack')
             = Cardinality(OpenBlack) + (IF black THEN 1 ELSE 0)
      <3>1. CASE black
        BY <3>1, <2>2, <2>3, FiniteOpen, FS_AddElement
      <3>2. CASE ~black
        BY <3>2, <2>2, FiniteOpen
      <3> QED
        BY <3>1, <3>2
    <2> QED
      BY <2>1, <2>4, <2>5 DEF CountersInv, Accept
  <1>6. PollReturn => UNCHANGED <<cons, clients, blackClients>>
    BY DEF PollReturn
  <1> QED
    BY <1>1, <1>2, <1>3, <1>4, <1>5, <1>6, NatKeeps, SocketsKeep
       DEF Next, Main, Serve

\* The invariant of the loop is one of the specification.
LEMMA BaseInvariance == Spec => []BaseInv
  <1>1. BaseInv /\ [Next]_vars => BaseInv'
    BY BaseStep, BaseStutter
  <1> QED
    BY <1>1, BaseInit, PTL DEF Spec

\* For any number of slots, length of replies and times: every variable keeps
\* to its type, and the client whose destination is looked up stays connected
\* until Con_get_orig_dst returns.
THEOREM ConTypeInvariance == Spec => []TypeOK
  <1>1. BaseInv => TypeOK
    BY DEF BaseInv
  <1> QED
    BY <1>1, BaseInvariance, PTL

\* What poll() has reported still fits the slots when it is served.
THEOREM EventsAreFresh == Spec => []EventsFit
  <1>1. BaseInv => EventsFit
    BY DEF BaseInv
  <1> QED
    BY <1>1, BaseInvariance, PTL

\* If no message of a blacklist ends in a newline, Con_next_state is never
\* called in a state it does not know and no write starts without a reply.
THEOREM DialogueIsProper == ASSUME ~MsgNl PROVE Spec => []DialogueInv
  <1>1. BaseInv => DialogueInv
    BY DEF BaseInv, DialogueInv, StatesFit, OutsFit
  <1> QED
    BY <1>1, BaseInvariance, PTL

\* If no message of a blacklist ends in a newline, the counters of clients are
\* those of the slots, however connections end.
THEOREM CountersAreRight == ASSUME ~MsgNl PROVE Spec => []CountersInv
  <1>1. Init => CountersInv
    <2> SUFFICES ASSUME Init PROVE CountersInv
      OBVIOUS
    <2>1. Open = {} /\ OpenBlack = {}
      BY DEF Init, Open, OpenBlack
    <2> QED
      BY <2>1, FS_EmptySet DEF Init, CountersInv
  <1>2. BaseInv /\ CountersInv /\ [Next]_vars => CountersInv'
    <2>1. UNCHANGED vars /\ CountersInv => CountersInv'
      BY DEF vars, CountersInv, Open, OpenBlack
    <2> QED
      BY <2>1, CountersStep
  <1> QED
    BY <1>1, <1>2, BaseInvariance, PTL DEF Spec

----------------------------------------------------------------------------
(* What a connection keeps as long as it is open. *)

\* Sender and recipient were named on the connection itself.
Own(c) == c.mail \in {0, c.id} /\ c.rcpt \in {0, c.id}

\* d is a later state of the same connection as c.
Carries(c, d) ==
    /\ d.id = c.id
    /\ d.black = c.black
    /\ c.black => d.stutter = c.stutter
    /\ Own(c) => Own(d)

\* d differs from c in none of the fields that are carried.
SameFields(c, d) ==
    /\ d.id = c.id /\ d.black = c.black /\ d.stutter = c.stutter
    /\ d.mail = c.mail /\ d.rcpt = c.rcpt

LEMMA SameIsCarried ==
    ASSUME NEW c, NEW d, SameFields(c, d)
    PROVE  Carries(c, d)
  BY DEF SameFields, Carries, Own

LEMMA DialogueSame ==
    ASSUME NEW c \in Con, NEW st
    PROVE  /\ SameFields(c, Reading(c, st))
           /\ SameFields(c, Writing(c, st))
           /\ SameFields(c, Reply(c, st))
           /\ SameFields(c, Again(c))
           /\ SameFields(c, Done(c))
  <1>1. SameFields(c, Reading(c, st))
    BY DEF Reading, SameFields, Con
  <1>2. SameFields(c, Writing(c, st))
    BY DEF Writing, SameFields, Con
  <1>3. SameFields(c, Reply(c, st))
    BY DEF Reply, Writing, SameFields, Con
  <1>4. SameFields(c, Again(c))
    BY DEF Again, Writing, SameFields, Con
  <1>5. SameFields(c, Done(c))
    BY DEF Done, BuildReply, Writing, SameFields, Con
  <1> QED
    BY <1>1, <1>2, <1>3, <1>4, <1>5

\* What is read on slot i leaves a later state of its connection, or closes it.
LEMMA ReadCarries ==
    ASSUME BaseInv, NEW i \in Open, ServeRead(i)
    PROVE  \/ \E d : cons' = [cons EXCEPT ![i] = d] /\ Carries(cons[i], d)
           \/ cons' = [cons EXCEPT ![i] = NoCon]
  <1> DEFINE c == cons[i]
  <1>a. c \in Con /\ cons \in [Slots -> Con \cup {NoCon}] /\ c.id \in Nat /\ i \in Slots
    BY OpenSlot DEF BaseInv, TypeOK, TypeCons, Con
  <1>s. ASSUME NEW d, SameFields(c, d), ReadLine(i, d)
        PROVE  cons' = [cons EXCEPT ![i] = d] /\ Carries(c, d)
    BY <1>s, SameIsCarried DEF ReadLine
  <1>d. \A st : /\ SameFields(c, Reply(c, st)) /\ SameFields(c, Again(c))
                /\ SameFields(c, Done(c))
    BY <1>a, DialogueSame
  <1> DEFINE q == [c EXCEPT !.state = "REPLY"]
             v == [c EXCEPT !.state = "REPLY", !.out = ReplyLen]
             w == [c EXCEPT !.out = ReplyLen]
             b == [c EXCEPT !.bad = @ + 1]
             f == [b EXCEPT !.state = "REPLY"]
  <1>o. ReplyLen \in Int
    BY ConAssumption
  <1>e. /\ q \in Con /\ v \in Con /\ w \in Con
        /\ SameFields(c, q) /\ SameFields(c, v) /\ SameFields(c, w)
    <2>1. q \in Con /\ SameFields(c, q)
      BY <1>a DEF Con, States, SameFields
    <2>2. v \in Con /\ SameFields(c, v)
      BY <1>a, <1>o DEF Con, States, SameFields
    <2>3. w \in Con /\ SameFields(c, w)
      BY <1>a, <1>o DEF Con, SameFields
    <2> QED
      BY <2>1, <2>2, <2>3
  <1>f. b \in Con /\ SameFields(c, b) /\ f \in Con /\ SameFields(c, f)
    <2>1. c.bad + 1 \in Nat /\ b = [c EXCEPT !.bad = c.bad + 1]
      BY <1>a DEF Con
    <2>2. b \in Con /\ SameFields(c, b)
      BY <1>a, <2>1 DEF Con, SameFields
    <2> HIDE DEF b
    <2>3. f \in Con /\ SameFields(b, f)
      BY <2>2 DEF Con, States, SameFields
    <2> QED
      BY <2>2, <2>3 DEF SameFields
  <1>1. CASE ReadEof(i)
    BY <1>1 DEF ReadEof, Closed
  <1>2. CASE ReadPart(i)
    <2>1. cons' = [cons EXCEPT ![i] = c] /\ SameFields(c, c)
      BY <1>2, <1>a DEF ReadPart, SameFields
    <2> QED
      BY <2>1, SameIsCarried
  <1>3. CASE ReadQuit(i) \/ ReadRset(i) \/ ReadHelo(i)
    <2>1. \E st : ReadLine(i, Reply(c, st))
      BY <1>3 DEF ReadQuit, ReadRset, ReadHelo, ReadPlain
    <2> QED
      BY <2>1, <1>d, <1>s
  <1>4. CASE ReadProxy(i)
    <2>1. ReadLine(i, Reply(c, "BANNER_OUT")) \/ ReadLine(i, Done(c))
      BY <1>4 DEF ReadProxy, ReadPlain
    <2> QED
      BY <2>1, <1>d, <1>s
  <1>5. CASE ReadMail(i)
    <2>1. PICK m \in {0, c.id} : ReadLine(i, [Reply(c, "MAIL_OUT") EXCEPT !.mail = m])
      BY <1>5 DEF ReadMail, ReadPlain
    <2> DEFINE r == Reply(c, "MAIL_OUT")
               d == [r EXCEPT !.mail = m]
    <2>2. r \in Con /\ SameFields(c, r)
      BY <1>a, <1>d, ReplyFits, OpenSlot DEF OutStates
    <2> HIDE DEF r
    <2>3. d.id = r.id /\ d.black = r.black /\ d.stutter = r.stutter /\ d.mail = m
          /\ d.rcpt = r.rcpt
      BY <2>2 DEF Con
    <2>4. cons' = [cons EXCEPT ![i] = d]
      BY <2>1 DEF ReadLine, r
    <2> HIDE DEF d
    <2>5. Carries(c, d)
      BY <2>2, <2>3 DEF Carries, SameFields, Own
    <2> QED
      BY <2>4, <2>5
  <1>6. CASE ReadRcpt(i)
    <2>1. PICK m \in {0, c.id} : ReadLine(i, [Reply(c, "RCPT_OUT") EXCEPT !.rcpt = m])
      BY <1>6 DEF ReadRcpt
    <2> DEFINE r == Reply(c, "RCPT_OUT")
               d == [r EXCEPT !.rcpt = m]
    <2>2. r \in Con /\ SameFields(c, r)
      BY <1>a, <1>d, ReplyFits, OpenSlot DEF OutStates
    <2> HIDE DEF r
    <2>3. d.id = r.id /\ d.black = r.black /\ d.stutter = r.stutter /\ d.rcpt = m
          /\ d.mail = r.mail
      BY <2>2 DEF Con
    <2>4. cons' = [cons EXCEPT ![i] = d]
      BY <2>1 DEF ReadLine, r
    <2> HIDE DEF d
    <2>5. Carries(c, d)
      BY <2>2, <2>3 DEF Carries, SameFields, Own
    <2> QED
      BY <2>4, <2>5
  <1>7. CASE ReadData(i)
    <2>1. ReadLine(i, Done(v)) \/ ReadLine(i, Writing(w, "DATA_OUT"))
      BY <1>7 DEF ReadData, ReadPlain
    <2> HIDE DEF v, w
    <2>2. SameFields(c, Done(v)) /\ SameFields(c, Writing(w, "DATA_OUT"))
      BY <1>e, DialogueSame DEF SameFields
    <2> QED
      BY <2>1, <2>2, <1>s
  <1>8. CASE ReadNoop(i)
    BY <1>8, <1>d, <1>s DEF ReadNoop, ReadPlain
  <1>9. CASE ReadBad(i)
    <2>1. ReadLine(i, Again(b)) \/ ReadLine(i, Done(f))
      BY <1>9 DEF ReadBad, ReadPlain
    <2> HIDE DEF b, f
    <2>2. SameFields(c, Again(b)) /\ SameFields(c, Done(f))
      BY <1>f, DialogueSame DEF SameFields
    <2> QED
      BY <2>1, <2>2, <1>s
  <1>10. CASE ReadMessage(i)
    <2> DEFINE d == [c EXCEPT !.age = loopAge]
    <2>1. ReadLine(i, Done(q)) \/ ReadLine(i, d)
      BY <1>10 DEF ReadMessage, ReadPlain
    <2>2. SameFields(c, d)
      BY <1>a DEF Con, SameFields
    <2> HIDE DEF d, q
    <2>3. SameFields(c, Done(q))
      BY <1>e, DialogueSame DEF SameFields
    <2> QED
      BY <2>1, <2>2, <2>3, <1>s
  <1> QED
    BY <1>1, <1>2, <1>3, <1>4, <1>5, <1>6, <1>7, <1>8, <1>9, <1>10 DEF ServeRead

\* A blacklisted connection is not hurried.
LEMMA WriteCarries ==
    ASSUME BaseInv, NEW i \in Open, ServeWrite(i)
    PROVE  \/ \E d : cons' = [cons EXCEPT ![i] = d] /\ Carries(cons[i], d)
           \/ cons' = [cons EXCEPT ![i] = NoCon]
  <1>a. cons[i] \in Con
    BY OpenSlot
  <1>1. CASE WriteFail(i)
    BY <1>1 DEF WriteFail, Closed
  <1>2. CASE WriteSome(i)
    <2> DEFINE c == Hurried(cons[i])
    <2>1. c \in Con /\ Carries(cons[i], c)
      BY <1>a DEF Hurried, IsGrey, Con, Carries, Own
    <2>2. PICK n \in 1 .. ToBeWritten(c) :
             \/ cons' = [cons EXCEPT ![i] = Written(c, n)]
             \/ Closed(i, 1)
             \/ cons' = [cons EXCEPT ![i] =
                            Reading([c EXCEPT !.out = 0], Awaiting[c.state])]
      BY <1>2 DEF WriteSome
    <2> HIDE DEF c
    <2>3. SameFields(c, Written(c, n))
      BY <2>1 DEF Written, SameFields, Con
    <2>4. SameFields(c, Reading([c EXCEPT !.out = 0], Awaiting[c.state]))
      <3> DEFINE z == [c EXCEPT !.out = 0]
      <3>1. z \in Con /\ SameFields(c, z)
        BY <2>1 DEF Con, SameFields
      <3> HIDE DEF z
      <3>2. SameFields(z, Reading(z, Awaiting[c.state]))
        BY <3>1, DialogueSame
      <3>3. SameFields(c, Reading(z, Awaiting[c.state]))
        BY <3>1, <3>2 DEF SameFields
      <3> QED
        BY <3>3 DEF z
    <2>5. \A d : SameFields(c, d) => Carries(cons[i], d)
      BY <2>1 DEF Carries, SameFields, Own
    <2> QED
      BY <2>2, <2>3, <2>4, <2>5 DEF Closed
  <1> QED
    BY <1>1, <1>2 DEF ServeWrite

\* The slots after a step: slot i is empty, has a later state of what it had,
\* or a connection that is new.
Later(i) ==
    \/ cons'[i] = NoCon
    \/ cons[i] # NoCon /\ cons'[i] \in Con /\ Carries(cons[i], cons'[i])

\* Time, and the start of a turn, leave what is carried alone.
LEMMA AgesCarry ==
    ASSUME BaseInv, Tick \/ LoopTop, NEW i \in Slots
    PROVE  /\ Later(i)
           /\ Tick => (cons'[i] = NoCon <=> cons[i] = NoCon)
           /\ cons[i] # NoCon /\ cons'[i] # NoCon => SameFields(cons[i], cons'[i])
  <1>a. cons[i] \in Con \cup {NoCon} /\ NoCon \notin Con
    BY ConAssumption DEF BaseInv, TypeOK, TypeCons
  <1>b. cons'[i] \in Con \cup {NoCon}
    BY TickKeeps, LoopTopKeeps DEF BaseInv, TypeOK, TypeCons
  <1>1. CASE cons[i] = NoCon
    BY <1>1 DEF Tick, LoopTop, Older, Later
  <1>2. CASE cons[i] # NoCon
    <2>1. CASE Tick
      <3> DEFINE c == cons[i]
                 y == IF c.black THEN 0 ELSE Least(c.life + 1, GreyStutter + 1)
                 d == [c EXCEPT !.age = Least(@ + 1, MaxTime), !.life = y]
      <3>1. cons'[i] = d
        BY <2>1, <1>a, <1>2 DEF Tick, Older, Con
      <3>2. SameFields(c, d)
        BY <1>a, <1>2 DEF Con, SameFields
      <3>3. i \in Open
        BY <1>2 DEF Open
      <3>4. cons'[i] # NoCon
        BY <2>1, <3>3, TickKeeps DEF Open
      <3> HIDE DEF d
      <3> QED
        BY <3>1, <3>2, <3>4, <1>2, <1>b, SameIsCarried DEF Later
    <2>2. CASE LoopTop
      <3> DEFINE d == [cons[i] EXCEPT !.old = (cons[i].life > GreyStutter)]
      <3>1. cons'[i] = NoCon \/ cons'[i] = d
        BY <2>2 DEF LoopTop
      <3>2. SameFields(cons[i], d)
        BY <1>a, <1>2 DEF Con, SameFields
      <3>3. ~Tick
        BY <2>2 DEF Tick, LoopTop
      <3> HIDE DEF d
      <3> QED
        BY <3>1, <3>2, <3>3, <1>2, <1>b, SameIsCarried DEF Later
    <2> QED
      BY <2>1, <2>2
  <1> QED
    BY <1>1, <1>2

\* Every step but the accept of a connection.
LEMMA StepCarries ==
    ASSUME BaseInv, Next, ~\E i \in Slots, black \in BOOLEAN : Accept(i, black)
    PROVE  \A j \in Slots : Later(j)
  <1>a. cons \in [Slots -> Con \cup {NoCon}] /\ cons' \in [Slots -> Con \cup {NoCon}]
    BY BaseStep DEF BaseInv, TypeOK, TypeCons
  <1>b. ASSUME NEW j \in Slots, cons'[j] = cons[j]
        PROVE  Later(j)
    BY <1>a, <1>b, SameIsCarried DEF Later, SameFields
  <1>1. CASE \E i \in Open : ServeHup(i) \/ ServeRead(i) \/ ServeWrite(i)
    <2>1. PICK i \in Open : ServeHup(i) \/ ServeRead(i) \/ ServeWrite(i)
      BY <1>1
    <2>2. \/ \E d : cons' = [cons EXCEPT ![i] = d] /\ Carries(cons[i], d)
          \/ cons' = [cons EXCEPT ![i] = NoCon]
      BY <2>1, ReadCarries, WriteCarries DEF ServeHup, Closed
    <2>3. i \in Slots /\ cons[i] # NoCon
      BY DEF Open
    <2>4. Later(i)
      BY <1>a, <2>2, <2>3 DEF Later
    <2>5. \A j \in Slots \ {i} : cons'[j] = cons[j]
      BY <1>a, <2>2, <2>3
    <2> QED
      BY <1>b, <2>4, <2>5
  <1>2. CASE Tick \/ LoopTop
    BY <1>2, AgesCarry
  <1>3. CASE UNCHANGED cons
    BY <1>3, <1>b
  <1>4. PollReturn => UNCHANGED cons
    BY DEF PollReturn
  <1> QED
    BY <1>1, <1>2, <1>3, <1>4, NatKeeps, SocketsKeep DEF Next, Main, Serve

LEMMA FreshFields ==
    ASSUME NEW id, NEW black
    PROVE  LET f == Fresh(id, black) IN
           f.id = id /\ f.black = black /\ f.mail = 0 /\ f.rcpt = 0
           /\ f.stutter = StutterAt(black)
  BY DEF Fresh

\* If grey.stutter is not 0, a client that is on a blacklist when there are at
\* most max_cons_black of them is stuttered at until it is gone, however long
\* that takes.
THEOREM BlackIsStuttered == ASSUME GreyStutter # 0 PROVE Spec => BlackStuttered
  <1> DEFINE A == \A i \in Slots :
                     (i \in Open' /\ cons'[i].black) =>
                        IF i \in Open /\ cons[i].id = cons'[i].id
                        THEN cons'[i].stutter = cons[i].stutter
                        ELSE blackClients' <= MaxBlack => cons'[i].stutter = Stutter
  <1>1. ASSUME BaseInv, Next
        PROVE  A
    <2>a. cons \in [Slots -> Con \cup {NoCon}] /\ blackClients \in Int /\ NoCon \notin Con
      BY <1>1, ConAssumption DEF BaseInv, TypeOK, TypeCons
    <2>1. CASE \E i \in Slots, black \in BOOLEAN : Accept(i, black)
      <3>1. PICK i \in Slots, black \in BOOLEAN : Accept(i, black)
        BY <2>1
      <3>2. /\ cons' = [cons EXCEPT ![i] = Fresh(accepts + 1, black)]
            /\ i \notin Open
            /\ blackClients' = blackClients + (IF black THEN 1 ELSE 0)
        BY <3>1 DEF Accept
      <3>3. /\ cons'[i] = Fresh(accepts + 1, black)
            /\ \A j \in Slots \ {i} : cons'[j] = cons[j]
        BY <2>a, <3>2
      <3>4. cons'[i].black = black /\ cons'[i].stutter = StutterAt(black)
        BY <3>3, FreshFields
      <3>5. black /\ blackClients' <= MaxBlack => StutterAt(black) = Stutter
        BY <2>a, <3>2, ConAssumption DEF StutterAt
      <3>6. \A j \in Slots \ {i} : j \in Open' => j \in Open
        BY <3>3 DEF Open
      <3> QED
        BY <3>2, <3>3, <3>4, <3>5, <3>6
    <2>2. CASE ~\E i \in Slots, black \in BOOLEAN : Accept(i, black)
      <3>1. \A j \in Slots : Later(j)
        BY <1>1, <2>2, StepCarries
      <3>2. \A j \in Slots : j \in Open' =>
               /\ j \in Open /\ Carries(cons[j], cons'[j])
        BY <3>1 DEF Later, Open
      <3> QED
        BY <3>2 DEF Carries
    <2> QED
      BY <2>1, <2>2
  <1>2. BaseInv /\ [Next]_vars => [A]_vars
    BY <1>1
  <1>3. Spec => [][A]_vars
    BY <1>2, BaseInvariance, PTL DEF Spec
  <1> QED
    BY <1>3 DEF BlackStuttered

----------------------------------------------------------------------------
(* What the greylister is told. *)

OwnInv == \A i \in Open : Own(cons[i])

\* The connection whose destination is looked up has a complete envelope.
Asked == pc = "nat" => Complete(cons[asking]) /\ ~cons[asking].black

EnvInv == OwnInv /\ Asked /\ EnvelopeOwn

LEMMA OwnStep ==
    ASSUME BaseInv, OwnInv, Next
    PROVE  OwnInv'
  <1>a. cons \in [Slots -> Con \cup {NoCon}]
    BY DEF BaseInv, TypeOK, TypeCons
  <1>1. CASE \E i \in Slots, black \in BOOLEAN : Accept(i, black)
    <2>1. PICK i \in Slots, black \in BOOLEAN : Accept(i, black)
      BY <1>1
    <2>2. /\ cons'[i] = Fresh(accepts + 1, black)
          /\ \A j \in Slots \ {i} : cons'[j] = cons[j]
      BY <1>a, <2>1 DEF Accept
    <2>3. Own(cons'[i])
      BY <2>2, FreshFields DEF Own
    <2>4. \A j \in Slots : cons'[j] # NoCon => Own(cons'[j])
      BY <2>2, <2>3 DEF OwnInv, Open
    <2> QED
      BY <2>4 DEF OwnInv, Open, Own
  <1>2. CASE ~\E i \in Slots, black \in BOOLEAN : Accept(i, black)
    <2>1. \A j \in Slots : Later(j)
      BY <1>2, StepCarries
    <2>2. \A j \in Slots : cons'[j] # NoCon => Own(cons'[j])
      BY <2>1 DEF Later, Carries, OwnInv, Open
    <2> QED
      BY <2>2 DEF OwnInv, Open, Own
  <1> QED
    BY <1>1, <1>2

\* A recipient that completes an envelope: it goes out at once, or waits for
\* the answer of the firewall process.
LEMMA RcptStep ==
    ASSUME BaseInv, EnvInv, NEW i \in Open, ReadRcpt(i)
    PROVE  Asked' /\ EnvelopeOwn'
  <1>1. PICK m \in {0, cons[i].id} :
          LET c == [Reply(cons[i], "RCPT_OUT") EXCEPT !.rcpt = m] IN
          /\ ReadLine(i, c)
          /\ \/ /\ Complete(c) /\ IsGrey(c) /\ ~proxy
                /\ pc' = "nat"
                /\ asking' = i
                /\ natPipe' = Append(natPipe, c.id)
                /\ UNCHANGED <<natBuf, natAnswers, report>>
             \/ /\ Complete(c) /\ IsGrey(c) /\ proxy
                /\ report' = Envelope(c, c.id)
                /\ UNCHANGED <<pc, asking, natPipe, natBuf, natAnswers>>
             \/ /\ ~(Complete(c) /\ IsGrey(c))
                /\ UNCHANGED <<pc, natVars>>
    BY DEF ReadRcpt
  <1> DEFINE c == [Reply(cons[i], "RCPT_OUT") EXCEPT !.rcpt = m]
  <1>2. pc = "serve" /\ cons' = [cons EXCEPT ![i] = c]
    BY <1>1 DEF ReadLine, Serving
  <1>3. cons'[i] = c
    BY <1>2, OpenSlot DEF BaseInv, TypeOK, TypeCons
  <1>4. Own(cons'[i]) /\ i \in Slots
    <2>1. cons[i] \in Con /\ i \in Slots /\ loopAge \in Nat
      BY OpenSlot
    <2> DEFINE r == Reply(cons[i], "RCPT_OUT")
    <2>2. r \in Con /\ SameFields(cons[i], r)
      BY <2>1, DialogueSame, ReplyFits DEF OutStates
    <2>3. c.id = r.id /\ c.mail = r.mail /\ c.rcpt = m
      BY <2>2 DEF Con
    <2> HIDE DEF r, c
    <2> QED
      BY <1>3, <2>1, <2>2, <2>3 DEF EnvInv, OwnInv, Own, SameFields
  <1>5. \/ /\ Complete(c) /\ IsGrey(c) /\ pc' = "nat" /\ asking' = i
           /\ report' = report
        \/ /\ Complete(c) /\ IsGrey(c) /\ report' = Envelope(c, c.id) /\ pc' = pc
        \/ pc' = pc /\ report' = report
    BY <1>1 DEF natVars
  <1> HIDE DEF c
  <1>6. CASE /\ Complete(c) /\ IsGrey(c) /\ pc' = "nat" /\ asking' = i
             /\ report' = report
    BY <1>3, <1>6 DEF Asked, EnvInv, EnvelopeOwn, Complete, IsGrey
  <1>7. CASE /\ Complete(c) /\ IsGrey(c) /\ report' = Envelope(c, c.id) /\ pc' = pc
    BY <1>2, <1>3, <1>4, <1>7 DEF Asked, EnvelopeOwn, Envelope, Complete, IsGrey, Own
  <1>8. CASE pc' = pc /\ report' = report
    BY <1>2, <1>8 DEF Asked, EnvInv, EnvelopeOwn
  <1> QED
    BY <1>5, <1>6, <1>7, <1>8

LEMMA EnvStep ==
    ASSUME BaseInv, EnvInv, Next
    PROVE  EnvInv'
  <1>1. OwnInv'
    BY OwnStep DEF EnvInv
  <1>2. CASE \E i \in Open : ReadRcpt(i)
    BY <1>1, <1>2, RcptStep DEF EnvInv
  <1>3. CASE NatAnswer \/ NatTimeout
    <2>1. pc = "nat" /\ pc' = "serve" /\ \E dst : report' = Envelope(cons[asking], dst)
      BY <1>3 DEF NatAnswer, NatTimeout
    <2>2. asking \in Open
      BY <2>1 DEF BaseInv, TypeOK, TypeNat
    <2>3. Complete(cons[asking]) /\ ~cons[asking].black /\ Own(cons[asking])
      BY <2>1, <2>2 DEF EnvInv, Asked, OwnInv
    <2>4. EnvelopeOwn'
      BY <2>1, <2>3 DEF EnvelopeOwn, Envelope, Complete, Own
    <2> QED
      BY <1>1, <2>1, <2>4 DEF EnvInv, Asked
  <1>4. CASE Tick
    <2>1. pc' = pc /\ asking' = asking /\ report' = report
      BY <1>4 DEF Tick, natVars
    <2>2. Asked'
      <3> SUFFICES ASSUME pc = "nat"
                   PROVE  Complete(cons'[asking]) /\ ~cons'[asking].black
        BY <2>1 DEF Asked
      <3>1. asking \in Slots /\ cons[asking] # NoCon
        BY DEF BaseInv, TypeOK, TypeNat, Open
      <3>2. SameFields(cons[asking], cons'[asking])
        BY <1>4, <3>1, AgesCarry
      <3> QED
        BY <3>2 DEF SameFields, EnvInv, Asked, Complete
    <2> QED
      BY <1>1, <2>1, <2>2 DEF EnvInv, EnvelopeOwn
  <1>5. CASE FwLookup
    BY <1>1, <1>5 DEF FwLookup, loopVars, EnvInv, Asked, EnvelopeOwn, Complete
  <1>6. CASE pc' # "nat" /\ (report' = report \/ report' = NoCon)
    BY <1>1, <1>6 DEF EnvInv, Asked, EnvelopeOwn
  <1>7. LoopTop \/ PollReturn \/ LoopEnd \/ AcceptFull \/ AcceptFail \/ ServeCfg
           \/ (\E i \in Slots, black \in BOOLEAN : Accept(i, black))
        => pc' # "nat" /\ (report' = report \/ report' = NoCon)
    BY DEF LoopTop, PollReturn, LoopEnd, AcceptFull, AcceptFail, ServeCfg, Accept, Served,
           natVars
  <1>8. ASSUME NEW i \in Open, ServeHup(i) \/ ServeRead(i) \/ ServeWrite(i), ~ReadRcpt(i)
        PROVE  pc' # "nat" /\ report' = report
    BY <1>8 DEF ServeHup, ServeRead, ServeWrite, WriteFail, WriteSome, ReadEof, ReadPart,
           ReadQuit, ReadRset, ReadProxy, ReadHelo, ReadMail, ReadData, ReadNoop,
           ReadBad, ReadMessage, ReadPlain, ReadLine, Serving, natVars
  <1> QED
    BY <1>2, <1>3, <1>4, <1>5, <1>6, <1>7, <1>8 DEF Next, Main, Serve

\* Whatever slots are used again for whom, an envelope the greylister is told
\* names a sender and a recipient that its own client has named, and never
\* those of a blacklisted client.
THEOREM EnvelopeIsOwn == Spec => []EnvelopeOwn
  <1>1. Init => EnvInv
    BY DEF Init, EnvInv, OwnInv, Asked, EnvelopeOwn, Open
  <1>2. BaseInv /\ EnvInv /\ [Next]_vars => EnvInv'
    <2>1. EnvInv /\ UNCHANGED vars => EnvInv'
      BY DEF vars, loopVars, natVars, EnvInv, OwnInv, Asked, EnvelopeOwn, Open, Own,
             Complete
    <2> QED
      BY <2>1, EnvStep
  <1>3. Spec => []EnvInv
    BY <1>1, <1>2, BaseInvariance, PTL DEF Spec
  <1>4. EnvInv => EnvelopeOwn
    BY DEF EnvInv
  <1> QED
    BY <1>3, <1>4, PTL
=============================================================================
