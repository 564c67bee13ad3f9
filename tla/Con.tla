-------------------------------- MODULE Con --------------------------------
(***************************************************************************)
(* The main process of greyd: its event loop, the slots of the clients     *)
(* that are connected, the SMTP dialogue with each of them, and the        *)
(* questions it puts to the firewall process about the address a client    *)
(* wanted to reach.                                                        *)
(*                                                                         *)
(* Abstraction.  Of what a client says the model keeps the command, and of *)
(* sender and recipient which connection named them.  A reply is ReplyLen  *)
(* bytes.  A connection is either reading (r is set) or writing (w is      *)
(* set), `dir'.  Times are kept as ages: `age' is how long ago r or w was, *)
(* negative while a stuttered byte has to wait.  Ages stop growing where   *)
(* no comparison in the code tells them apart.                             *)
(***************************************************************************)
EXTENDS Integers, Sequences, FiniteSets

CONSTANTS
    MaxCons,      \* max_cons
    MaxBlack,     \* max_cons_black
    Tolerance,    \* CON_CLIENT_TOLERENCE
    MaxTime,      \* MAX_TIME: seconds a client may be silent
    Stutter,      \* stutter: seconds between two bytes
    GreyStutter,  \* grey.stutter: a grey connection is stuttered at so long
    MaxBad,       \* CON_MAX_BAD_CMD
    Greylist,     \* grey.enable
    Proxies,      \* the values of proxy_protocol_enable that are looked at
    MsgNl,        \* do the rejection messages of blacklists end in a newline?
    ReplyLen,     \* length of a reply
    MaxAccepts,   \* bound on the connections that come in
    MaxInputs,    \* bound on the commands sent
    MaxErrors,    \* bound on failures of accept()
    MaxCfgs,      \* bound on config connections
    NoCon         \* a free slot

Slots == 1 .. MaxCons

InStates == {"PROXY_OUT", "HELO_IN", "MAIL_IN", "RCPT_IN", "MESSAGE"}
OutStates == {"BANNER_OUT", "HELO_OUT", "MAIL_OUT", "RCPT_OUT", "DATA_OUT",
              "CLOSE"}
States == InStates \cup OutStates \cup {"PROXY_IN", "BANNER_IN", "REPLY"}

\* `mail' and `rcpt' are the connection that named a sender or recipient,
\* and 0 if they are empty.  `old' says that a grey connection has been
\* stuttered at for long enough when the loop read the clock.
Con == [id : Nat, black : BOOLEAN, state : States, last : States,
        mail : Nat, rcpt : Nat, dir : {"in", "out"}, age : Int, life : Nat,
        old : BOOLEAN, out : Int, bad : Nat, stutter : Nat]

ASSUME ConAssumption ==
    /\ MaxCons \in Nat \ {0}
    /\ {MaxBlack, Tolerance, Stutter, GreyStutter, MaxBad} \subseteq Nat
    /\ MaxTime \in Nat \ {0}
    /\ {Greylist, MsgNl} \subseteq BOOLEAN
    /\ Proxies \subseteq BOOLEAN
    /\ ReplyLen \in Nat \ {0}
    /\ {MaxAccepts, MaxInputs, MaxErrors, MaxCfgs} \subseteq Nat
    /\ NoCon \notin Con

VARIABLES
    proxy,        \* configuration: is the proxy protocol enabled?
    pc,           \* where the event loop is
    cons,         \* the slots
    clients, blackClients,   \* the counters of struct Greyd_state
    slow,         \* slow_until: "no" (0), "ahead", "past" or, when the loop
                  \* has read a clock that is past it, "seen"
    loopAge,      \* how old the time the loop has read is
    pollOut,      \* the slots polled for POLLOUT
    ev,           \* what poll() has reported for each slot,
    evMain, evCfg,           \* for the main and for the config sockets
    cfg,          \* cfg_fd: is a config connection open?
    asking,       \* the slot whose original destination is looked up
    natPipe,      \* main process -> firewall process, the questions
    natBuf,       \* questions in the stdio buffer of the firewall process
    natAnswers,   \* firewall process -> main process
    report,       \* the last envelope sent in this turn of the loop
    accepts, inputs, errors, cfgs  \* how much of the bounds is used

loopVars == <<pc, loopAge, pollOut, ev, evMain, evCfg>>
natVars  == <<asking, natPipe, natBuf, natAnswers, report>>
boundVars == <<accepts, inputs, errors, cfgs>>
vars == <<proxy, loopVars, cons, clients, blackClients, slow, cfg, natVars,
          boundVars>>

Open == {i \in Slots : cons[i] # NoCon}
OpenBlack == {i \in Open : cons[i].black}

Least(x, y) == IF x < y THEN x ELSE y

Init ==
    /\ proxy \in Proxies
    /\ pc = "top"
    /\ cons = [i \in Slots |-> NoCon]
    /\ clients = 0
    /\ blackClients = 0
    /\ slow = "no"
    /\ loopAge = 0
    /\ pollOut = {}
    /\ ev = [i \in Slots |-> "none"]
    /\ evMain = FALSE
    /\ evCfg = FALSE
    /\ cfg = FALSE
    /\ asking = 0
    /\ natPipe = <<>>
    /\ natBuf = <<>>
    /\ natAnswers = <<>>
    /\ report = NoCon
    /\ accepts = 0 /\ inputs = 0 /\ errors = 0 /\ cfgs = 0

\* The age of a blacklisted connection is never looked at.
Older(c) ==
    IF c = NoCon THEN NoCon
    ELSE [c EXCEPT !.age = Least(@ + 1, MaxTime),
                   !.life = IF c.black THEN 0 ELSE Least(@ + 1, GreyStutter + 1)]

\* Time goes by while the process waits; what it does in between takes none.
Tick ==
    /\ pc \in {"poll", "nat"}
    /\ cons' = [i \in Slots |-> Older(cons[i])]
    /\ loopAge' = Least(loopAge + 1, MaxTime)
    /\ slow' = IF slow = "ahead" THEN "past" ELSE slow
    /\ UNCHANGED <<proxy, pc, pollOut, ev, evMain, evCfg, clients, blackClients,
                   cfg, natVars, boundVars>>
----------------------------------------------------------------------------
(* The SMTP dialogue: Con_next_state.  The time it is given is the one the  *)
(* loop has read.                                                           *)

\* Wait for input.
Reading(c, state) ==
    [c EXCEPT !.last = c.state, !.state = state, !.dir = "in", !.age = loopAge]

\* Write what is in the buffer.
Writing(c, state) ==
    [c EXCEPT !.state = state, !.dir = "out", !.age = loopAge - c.stutter]

\* Put a reply into the buffer and write it.
Reply(c, state) ==
    Writing([c EXCEPT !.last = c.state, !.out = ReplyLen], state)

\* Con_build_reply points at the reply of a blacklisted connection only after
\* it has added the newline of its last message.
BuildReply(c) == IF c.black /\ MsgNl THEN c ELSE [c EXCEPT !.out = ReplyLen]

\* The rejection, after which the connection is closed.
Done(c) == Writing([BuildReply(c) EXCEPT !.last = c.state], "CLOSE")

\* Mutant: DATA_OUT leads to DATA_IN.
AwaitingData == [BANNER_OUT |-> "HELO_IN", HELO_OUT |-> "MAIL_IN",
                 MAIL_OUT |-> "RCPT_IN", RCPT_OUT |-> "RCPT_IN",
                 DATA_OUT |-> "DATA_IN"]

\* The state that waits for the input a reply asks for.
Awaiting == [BANNER_OUT |-> "HELO_IN", HELO_OUT |-> "MAIL_IN",
             MAIL_OUT |-> "RCPT_IN", RCPT_OUT |-> "RCPT_IN",
             DATA_OUT |-> "MESSAGE"]

\* Mutant: the state is left as it is after NOOP or an unknown command.
AgainStay(c) == Writing([c EXCEPT !.out = ReplyLen], c.state)

\* After NOOP or an unknown command: back to the state the input came from.
Again(c) == Writing([c EXCEPT !.out = ReplyLen], c.last)

IsGrey(c) == Greylist /\ ~c.black

\* Mutant: the blacklisted connections are not counted down.
ClosedUncounted(i, n) ==
    /\ cons' = [cons EXCEPT ![i] = NoCon]
    /\ clients' = clients - n
    /\ slow' = "no"
    /\ UNCHANGED blackClients

\* Con_close, called n times for the same slot; the list of blacklists is
\* empty after the first time.
Closed(i, n) ==
    /\ cons' = [cons EXCEPT ![i] = NoCon]
    /\ clients' = clients - n
    /\ blackClients' = blackClients - (IF cons[i].black THEN 1 ELSE 0)
    /\ slow' = "no"

----------------------------------------------------------------------------
(* The event loop up to poll(). *)

\* Mutant: only connections that are read from can be late.
LateReaders == {i \in Open : cons[i].dir = "in" /\ cons[i].age >= MaxTime}

Late == {i \in Open : cons[i].age >= MaxTime}

\* The clock is read, clients that were silent for too long are dropped, and
\* the others are polled.
LoopTop ==
    /\ pc = "top"
    /\ pc' = "poll"
    /\ loopAge' = 0
    /\ cons' = [i \in Slots |->
                   IF i \in Late \/ cons[i] = NoCon THEN NoCon
                   ELSE [cons[i] EXCEPT !.old = (cons[i].life > GreyStutter)]]
    /\ clients' = clients - Cardinality(Late)
    /\ blackClients' = blackClients - Cardinality(Late \cap OpenBlack)
    /\ slow' = IF Late # {} THEN "no" ELSE IF slow = "past" THEN "seen" ELSE slow
    /\ pollOut' = {i \in Open \ Late : cons[i].dir = "out" /\ cons[i].age >= 0}
    /\ report' = NoCon
    /\ UNCHANGED <<proxy, ev, evMain, evCfg, cfg, asking, natPipe, natBuf,
                   natAnswers, boundVars>>

Writers == {i \in Open : cons[i].dir = "out"}

\* Mutant: every connection is polled for input and for output.
EventsBoth(i) == IF i \in Open THEN {"none", "hup", "in", "out"} ELSE {"none"}

\* What poll() may report for slot i.
Events(i) ==
    IF i \notin Open THEN {"none"}
    ELSE IF cons[i].dir = "in" THEN {"none", "hup", "in"}
    ELSE IF i \in pollOut THEN {"none", "hup", "out"}
    ELSE {"none"}

\* Mutant: the loop sleeps until something arrives even while it throttles.
TimeOutWriters == loopAge > 0 /\ Writers # {}

\* poll() comes back after a second if there are writers or if new connections
\* are held off; otherwise it waits for something to happen.
TimeOut == loopAge > 0 /\ (Writers # {} \/ slow # "no")

\* poll() returns.  Then throttling may end.
PollReturn ==
    /\ pc = "poll"
    /\ pc' = "serve"
    /\ ev' \in {e \in [Slots -> {"none", "hup", "in", "out"}] :
                   \A i \in Slots : e[i] \in Events(i)}
    /\ evMain' \in (IF slow = "no" /\ accepts < MaxAccepts THEN BOOLEAN ELSE {FALSE})
    /\ evCfg' \in (IF slow = "no" /\ (cfg \/ cfgs < MaxCfgs) THEN BOOLEAN ELSE {FALSE})
    /\ TimeOut \/ evMain' \/ evCfg' \/ \E i \in Slots : ev'[i] # "none"
    /\ slow' = IF slow = "seen" THEN "no" ELSE slow
    /\ pollOut' = {}
    /\ UNCHANGED <<proxy, loopAge, cons, clients, blackClients, cfg,
                   natVars, boundVars>>

----------------------------------------------------------------------------
(* The clients, in the order of their slots. *)

Serving(i, e) ==
    /\ pc = "serve"
    /\ ev[i] = e
    /\ \A j \in Slots : j < i => ev[j] = "none"
    /\ ev' = [ev EXCEPT ![i] = "none"]
    /\ UNCHANGED <<proxy, loopAge, pollOut, evMain, evCfg, cfg, accepts, errors,
                   cfgs>>

\* POLLERR or POLLHUP.
ServeHup(i) ==
    /\ Serving(i, "hup")
    /\ Closed(i, 1)
    /\ UNCHANGED <<pc, natVars, inputs>>

\* Con_handle_read: read() fails or there is nothing left to read.
ReadEof(i) ==
    /\ Serving(i, "in")
    /\ Closed(i, 1)
    /\ UNCHANGED <<pc, natVars, inputs>>

\* A line that is not complete yet; the time it may take goes on.
ReadPart(i) ==
    /\ Serving(i, "in")
    /\ inputs < MaxInputs
    /\ inputs' = inputs + 1
    /\ UNCHANGED <<pc, cons, clients, blackClients, slow, natVars>>

\* A line has been read, and the connection becomes c.
ReadLine(i, c) ==
    /\ Serving(i, "in")
    /\ inputs < MaxInputs
    /\ inputs' = inputs + 1
    /\ cons' = [cons EXCEPT ![i] = c]
    /\ UNCHANGED <<clients, blackClients, slow>>

ReadPlain(i, c) == ReadLine(i, c) /\ UNCHANGED <<pc, natVars>>

ReadQuit(i) == ReadPlain(i, Reply(cons[i], "CLOSE"))

ReadRset(i) ==
    /\ cons[i].state \in {"MAIL_IN", "RCPT_IN"}
    /\ ReadPlain(i, Reply(cons[i], "HELO_OUT"))

\* The proxy is permitted and its header makes sense, or not.
ReadProxy(i) ==
    /\ cons[i].state = "PROXY_OUT"
    /\ \/ ReadPlain(i, Reply(cons[i], "BANNER_OUT"))
       \/ ReadPlain(i, Done(cons[i]))

\* HELO or EHLO, with a name or without.
ReadHelo(i) ==
    /\ cons[i].state = "HELO_IN"
    /\ \/ ReadPlain(i, Reply(cons[i], "HELO_OUT"))
       \/ ReadPlain(i, Reply(cons[i], "BANNER_OUT"))

\* MAIL, with a sender or without.
ReadMail(i) ==
    /\ cons[i].state \in {"HELO_IN", "MAIL_IN"}
    /\ \E m \in {0, cons[i].id} :
          ReadPlain(i, [Reply(cons[i], "MAIL_OUT") EXCEPT !.mail = m])

\* What the greylister is told of a connection.
Envelope(c, dst) == [id |-> c.id, black |-> c.black, mail |-> c.mail,
                     rcpt |-> c.rcpt, dst |-> dst]

\* Mutant: the recipient may be missing.
CompleteSender(c) == c.mail # 0

Complete(c) == c.mail # 0 /\ c.rcpt # 0

InDialogue(c) == c.state \in {"HELO_IN", "MAIL_IN", "RCPT_IN"}

\* RCPT, with a recipient or without.  For the envelope of a grey connection
\* the firewall process is asked where the client wanted to go, unless the
\* proxy has said so.
ReadRcpt(i) ==
    /\ InDialogue(cons[i])
    /\ \E m \in {0, cons[i].id} :
          LET c == [Reply(cons[i], "RCPT_OUT") EXCEPT !.rcpt = m] IN
          /\ ReadLine(i, c)
          /\ \/ /\ Complete(c) /\ IsGrey(c) /\ ~proxy
                /\ pc' = "nat"
                /\ asking' = i
                /\ natPipe' = Append(natPipe, c.id)
                /\ UNCHANGED <<natBuf, natAnswers, report>>
             \/ /\ Complete(c) /\ IsGrey(c) /\ proxy
                /\ report' = Envelope(c, c.id)
                /\ UNCHANGED <<pc, asking, natPipe, natBuf, natAnswers>>
             \/ /\ ~(Complete(c) /\ IsGrey(c))
                /\ UNCHANGED <<pc, natVars>>

\* DATA: a grey connection is rejected at once.
ReadData(i) ==
    /\ InDialogue(cons[i])
    /\ LET c == cons[i] IN
          \/ IsGrey(c) /\ ReadPlain(i, Done([c EXCEPT !.state = "REPLY",
                                                      !.out = ReplyLen]))
          \/ ~IsGrey(c) /\ ReadPlain(i, Writing([c EXCEPT !.out = ReplyLen],
                                                "DATA_OUT"))

ReadNoop(i) ==
    /\ InDialogue(cons[i])
    /\ ReadPlain(i, Again(cons[i]))

\* Anything else, a known command at the wrong place included.
ReadBad(i) ==
    /\ InDialogue(cons[i])
    /\ LET c == [cons[i] EXCEPT !.bad = @ + 1] IN
          \/ c.bad <= MaxBad /\ ReadPlain(i, Again(c))
          \/ c.bad > MaxBad /\ ReadPlain(i, Done([c EXCEPT !.state = "REPLY"]))

\* A part of the message: with its end (a dot, or ten lines of the body), or
\* without.
ReadMessage(i) ==
    /\ cons[i].state = "MESSAGE"
    /\ \/ ReadPlain(i, Done([cons[i] EXCEPT !.state = "REPLY"]))
       \/ ReadPlain(i, [cons[i] EXCEPT !.age = loopAge])

ServeRead(i) ==
    \/ ReadEof(i) \/ ReadPart(i) \/ ReadQuit(i) \/ ReadRset(i) \/ ReadProxy(i)
    \/ ReadHelo(i) \/ ReadMail(i) \/ ReadRcpt(i) \/ ReadData(i) \/ ReadNoop(i)
    \/ ReadBad(i) \/ ReadMessage(i)

(* Con_handle_write *)

\* A grey connection is no longer stuttered at after the initial delay.
Hurried(c) == IF IsGrey(c) /\ c.old THEN [c EXCEPT !.stutter = 0] ELSE c

\* One byte, or all that is left.
ToBeWritten(c) ==
    IF clients + Tolerance < MaxCons /\ c.stutter # 0 THEN 1 ELSE c.out

\* n bytes were written and some are left.  A count below zero never gets back
\* to it; all of them are alike.
Written(c, n) ==
    [c EXCEPT !.out = IF @ > n THEN @ - n ELSE -1, !.age = loopAge - c.stutter]

\* write() fails, as it does when there is nothing to write.  With nothing left
\* in the buffer the code then goes on to the next state, and closes again.
WriteFail(i) ==
    /\ Serving(i, "out")
    /\ Closed(i, IF cons[i].out = 0 THEN 2 ELSE 1)
    /\ UNCHANGED <<pc, natVars, inputs>>

\* write() takes some or all of the bytes.
WriteSome(i) ==
    /\ Serving(i, "out")
    /\ LET c == Hurried(cons[i]) IN
          \E n \in 1 .. ToBeWritten(c) :
             \/ /\ n # c.out
                /\ cons' = [cons EXCEPT ![i] = Written(c, n)]
                /\ UNCHANGED <<clients, blackClients, slow>>
             \/ /\ n = c.out
                /\ c.state = "CLOSE"
                /\ Closed(i, 1)
             \/ /\ n = c.out
                /\ c.state # "CLOSE"
                /\ cons' = [cons EXCEPT ![i] =
                       Reading([c EXCEPT !.out = 0], Awaiting[c.state])]
                /\ UNCHANGED <<clients, blackClients, slow>>
    /\ UNCHANGED <<pc, natVars, inputs>>

ServeWrite(i) == WriteFail(i) \/ WriteSome(i)

----------------------------------------------------------------------------
(* Con_get_orig_dst.  The loop waits for the answer, but not for long.      *)

\* The answer is read through a stdio buffer that is thrown away, with what
\* else has arrived in it.
NatAnswer ==
    /\ pc = "nat"
    /\ natAnswers # <<>>
    /\ report' = Envelope(cons[asking], Head(natAnswers))
    /\ \E n \in 1 .. Len(natAnswers) :
          natAnswers' = SubSeq(natAnswers, n + 1, Len(natAnswers))
    /\ pc' = "serve"
    /\ asking' = 0
    /\ UNCHANGED <<proxy, loopAge, pollOut, ev, evMain, evCfg, cons, clients,
                   blackClients, slow, cfg, natPipe, natBuf, boundVars>>

NatTimeout ==
    /\ pc = "nat"
    /\ natAnswers = <<>>
    /\ report' = Envelope(cons[asking], 0)
    /\ pc' = "serve"
    /\ asking' = 0
    /\ UNCHANGED <<proxy, loopAge, pollOut, ev, evMain, evCfg, cons, clients,
                   blackClients, slow, cfg, natPipe, natBuf, natAnswers,
                   boundVars>>

\* The firewall process answers a question, or does not if its lookup fails.
\* It reads when poll() has seen input, through a stdio buffer it keeps.
FwLookup ==
    /\ natPipe # <<>>
    /\ IF natBuf # <<>>
       THEN natBuf' = Tail(natBuf) /\ UNCHANGED natPipe
       ELSE \E n \in 1 .. Len(natPipe) :
               /\ natBuf' = SubSeq(natPipe, 2, n)
               /\ natPipe' = SubSeq(natPipe, n + 1, Len(natPipe))
    /\ LET q == IF natBuf # <<>> THEN Head(natBuf) ELSE Head(natPipe) IN
          natAnswers' \in {natAnswers, Append(natAnswers, q)}
    /\ UNCHANGED <<proxy, loopVars, cons, clients, blackClients, slow, cfg,
                   asking, report, boundVars>>

----------------------------------------------------------------------------
(* The listening sockets. *)

Served == pc = "serve" /\ \A i \in Slots : ev[i] = "none"

\* Mutant: one blacklisted connection less is stuttered at.
StutterAtLess(black) ==
    IF Greylist /\ black /\ blackClients + 1 >= MaxBlack THEN 0 ELSE Stutter

\* The test for blacklisted connections is made before the blacklists are
\* looked at, so it says nothing.
StutterAt(black) ==
    IF Greylist /\ GreyStutter = 0 THEN 0
    ELSE IF Greylist /\ black /\ blackClients + 1 > MaxBlack THEN 0
    ELSE Stutter

\* Con_init, with the time read anew.
Fresh(id, black) ==
    LET s == StutterAt(black) IN
    [id |-> id, black |-> black, mail |-> 0, rcpt |-> 0, bad |-> 0,
     life |-> 0, old |-> FALSE, stutter |-> s,
     state |-> IF proxy THEN "PROXY_OUT" ELSE "BANNER_OUT",
     last |-> IF proxy THEN "PROXY_IN" ELSE "BANNER_IN",
     dir |-> IF proxy THEN "in" ELSE "out",
     age |-> IF proxy THEN 0 ELSE 0 - s,
     out |-> IF proxy THEN 0 ELSE ReplyLen]

\* Con_accept: the first free slot is taken.
Accept(i, black) ==
    /\ Served
    /\ evMain
    /\ i \notin Open
    /\ \A j \in Slots : j < i => j \in Open
    /\ evMain' = FALSE
    /\ accepts' = accepts + 1
    /\ cons' = [cons EXCEPT ![i] = Fresh(accepts + 1, black)]
    /\ clients' = clients + 1
    /\ blackClients' = blackClients + (IF black THEN 1 ELSE 0)
    /\ UNCHANGED <<proxy, pc, loopAge, pollOut, ev, evCfg, slow, cfg, natVars,
                   inputs, errors, cfgs>>

\* No slot is free, and the client is sent away.
AcceptFull ==
    /\ Served
    /\ evMain
    /\ Open = Slots
    /\ evMain' = FALSE
    /\ accepts' = accepts + 1
    /\ slow' = "no"
    /\ UNCHANGED <<proxy, pc, loopAge, pollOut, ev, evCfg, cons, clients,
                   blackClients, cfg, natVars, inputs, errors, cfgs>>

\* accept() fails, for the lack of descriptors or for another reason.
AcceptFail ==
    /\ Served
    /\ evMain
    /\ errors < MaxErrors
    /\ errors' = errors + 1
    /\ evMain' = FALSE
    /\ slow' \in {slow, "ahead"}
    /\ UNCHANGED <<proxy, pc, loopAge, pollOut, ev, evCfg, cons, clients,
                   blackClients, cfg, natVars, accepts, inputs, cfgs>>

\* A config connection is accepted, refused because of its port, or fails; or
\* the open one is processed and closed.
ServeCfg ==
    /\ Served
    /\ ~evMain
    /\ evCfg
    /\ evCfg' = FALSE
    /\ cfgs' = IF cfg THEN cfgs ELSE cfgs + 1
    /\ \/ ~cfg /\ cfg' = TRUE /\ UNCHANGED <<slow, errors>>
       \/ ~cfg /\ cfg' = FALSE /\ slow' = "no" /\ UNCHANGED errors
       \/ ~cfg /\ cfg' = FALSE /\ slow' \in {slow, "ahead"}
          /\ errors < MaxErrors /\ errors' = errors + 1
       \/ cfg /\ cfg' = FALSE /\ slow' = "no" /\ UNCHANGED errors
    /\ UNCHANGED <<proxy, pc, loopAge, pollOut, ev, evMain, cons, clients,
                   blackClients, natVars, accepts, inputs>>

LoopEnd ==
    /\ Served
    /\ ~evMain
    /\ ~evCfg
    /\ pc' = "top"
    /\ UNCHANGED <<proxy, loopAge, pollOut, ev, evMain, evCfg, cons, clients,
                   blackClients, slow, cfg, natVars, boundVars>>

----------------------------------------------------------------------------

Serve ==
    \/ \E i \in Open : ServeHup(i) \/ ServeRead(i) \/ ServeWrite(i)
    \/ \E i \in Slots, black \in BOOLEAN : Accept(i, black)
    \/ AcceptFull \/ AcceptFail \/ ServeCfg

Main == LoopTop \/ PollReturn \/ Serve \/ NatAnswer \/ NatTimeout \/ LoopEnd

Next == Tick \/ Main \/ FwLookup

Spec == Init /\ [][Next]_vars

\* poll() comes back when it has a timeout, and may sleep for ever when it has
\* none; the clients and the firewall process need not do anything.
Fairness ==
    /\ WF_vars(Tick)
    /\ WF_vars(LoopTop \/ Serve \/ NatAnswer \/ NatTimeout \/ LoopEnd)
    /\ WF_vars(TimeOut /\ PollReturn)

FairSpec == Spec /\ Fairness

----------------------------------------------------------------------------
(* Properties. *)

TypeCons ==
    /\ cons \in [Slots -> Con \cup {NoCon}]
    /\ clients \in Int
    /\ blackClients \in Int
    /\ slow \in {"no", "ahead", "past", "seen"}

TypeLoop ==
    /\ proxy \in BOOLEAN
    /\ pc \in {"top", "poll", "serve", "nat"}
    /\ loopAge \in 0 .. MaxTime
    /\ pollOut \subseteq Slots
    /\ ev \in [Slots -> {"none", "hup", "in", "out"}]
    /\ evMain \in BOOLEAN
    /\ evCfg \in BOOLEAN
    /\ cfg \in BOOLEAN
    /\ accepts \in Nat
    /\ inputs \in Nat
    /\ errors \in Nat
    /\ cfgs \in Nat

TypeNat ==
    /\ pc = "nat" => asking \in Open
    /\ natPipe \in Seq(Nat)
    /\ natBuf \in Seq(Nat)
    /\ natAnswers \in Seq(Nat)

\* Every variable keeps to the values the code can give it, and the connection
\* whose destination is looked up is still there when the answer comes.
TypeOK == TypeCons /\ TypeLoop /\ TypeNat

\* An event that poll() reported and that has not been served yet still fits
\* its slot: the slot is open, and waits in that direction.
EventsFit ==
    \A i \in Slots : ev[i] # "none" =>
        /\ i \in Open
        /\ ev[i] # "hup" => ev[i] = cons[i].dir

\* What a connection waits for agrees with the state of its dialogue, so that
\* Con_next_state is never called in an illegal state; and where a command may
\* be refused the reply to fall back to is known.
StateFits(c) ==
    /\ c.state \in (IF c.dir = "in" THEN InStates ELSE OutStates)
    /\ InDialogue(c) => c.last \in OutStates \ {"CLOSE"}

\* Something is left of the reply as long as it is written, and nothing after.
OutFits(c) == IF c.dir = "in" THEN c.out = 0 ELSE c.out > 0

\* greyd(8), "greyd will reject mail by displaying all the messages": every
\* connection is in a proper state of its dialogue, and a rejection that has
\* been decided on is there to be written.
DialogueInv == \A i \in Open : StateFits(cons[i]) /\ OutFits(cons[i])

\* The counters that decide on stuttering and that are logged agree with the
\* slots, however connections end: timeouts, hangups, failed writes, replies.
CountersInv ==
    /\ clients = Cardinality(Open)
    /\ blackClients = Cardinality(OpenBlack)

\* What the greylister is told was said by one client on one connection that
\* no blacklist knew: nothing is left over from the last user of the slot.
EnvelopeOwn ==
    report # NoCon =>
        /\ ~report.black
        /\ report.mail = report.id
        /\ report.rcpt = report.id

\* Con_get_orig_dst "find[s] and set[s] the address the client originally
\* connected to": the destination in an envelope is that of its own client, or
\* there is none.
DestinationOwn == report # NoCon => report.dst \in {0, report.id}

\* greyd(8), "For blacklisted hosts, the entire dialogue is stuttered", up to
\* maxblack of them.
BlackStuttered ==
    [][\A i \in Slots :
          (i \in Open' /\ cons'[i].black) =>
             IF i \in Open /\ cons[i].id = cons'[i].id
             THEN cons'[i].stutter = cons[i].stutter
             ELSE blackClients' <= MaxBlack => cons'[i].stutter = Stutter]_vars

\* Nobody holds a slot by not reading: a connection that is written to gets its
\* reply or ends.
WriterMovesOn ==
    \A i \in Slots :
        (i \in Open /\ cons[i].dir = "out") ~> (i \notin Open \/ cons[i].dir = "in")

\* Throttling after a lack of descriptors ends.
ThrottlingEnds == (slow # "no") ~> (slow = "no")
=============================================================================
