-------------------------- MODULE GreylisterProofs --------------------------
(* Theorems about the greylisting engine and their proofs. *)
EXTENDS Greylister, GreyEntriesProofs, SequenceTheorems, TLAPS

LEMMA PromotedType ==
    ASSUME NEW e \in Entry, sNow \in Nat
    PROVE  Promoted(e) \in Entry
BY TimesAreNaturals DEF Promoted, Entry

----------------------------------------------------------------------------
(* A part of the state that an action leaves alone keeps its type. *)

LEMMA DbStutter ==
    ASSUME TypeDb, UNCHANGED <<driver, dbVars>>
    PROVE  TypeDb'
BY DEF TypeDb, dbVars

LEMMA ReaderStutter ==
    ASSUME TypeReader, UNCHANGED readerVars
    PROVE  TypeReader'
BY DEF TypeReader, readerVars

LEMMA ToolStutter ==
    ASSUME TypeTool, UNCHANGED toolVars
    PROVE  TypeTool'
BY DEF TypeTool, toolVars

LEMMA ScanStutter ==
    ASSUME TypeScan, UNCHANGED scanVars
    PROVE  TypeScan'
BY DEF TypeScan, scanVars

LEMMA PipesStutter ==
    ASSUME TypePipes, UNCHANGED <<greyPipe, trapPipe, blacklist, fwPipe, fwVars>>
    PROVE  TypePipes'
BY DEF TypePipes, fwVars

LEMMA HistoryStutter ==
    ASSUME TypeHistory, UNCHANGED <<now, historyVars, boundVars>>
    PROVE  TypeHistory'
BY DEF TypeHistory, historyVars, boundVars

----------------------------------------------------------------------------
(* The main daemon and the clock. *)

LEMMA MainKeepsTypes ==
    ASSUME TypeOK,
           \/ Tick
           \/ \E i \in Ips, r \in Rcpts, low \in BOOLEAN : MainGrey(i, r, low)
           \/ SyncRecv
           \/ MainReadTraps
    PROVE  TypeOK'
<1>1. CASE Tick
  <2>1. TypeHistory'
    BY <1>1 DEF Tick, TypeOK, TypeHistory, historyVars, boundVars
  <2>2. TypeDb' /\ TypeReader' /\ TypeTool' /\ TypeScan' /\ TypePipes'
    BY <1>1, DbStutter, ReaderStutter, ToolStutter, ScanStutter, PipesStutter
       DEF Tick, TypeOK
  <2>. QED  BY <2>1, <2>2 DEF TypeOK
<1>2. ASSUME NEW i \in Ips, NEW r \in Rcpts, NEW low \in BOOLEAN,
             MainGrey(i, r, low)
      PROVE  TypeOK'
  <2>. DEFINE m == [type |-> "grey", ip |-> i, to |-> r, low |-> low, sync |-> TRUE]
  <2>1. m \in Message
    BY DEF Message, GreyMsg
  <2>2. TypePipes'
    <3>1. greyPipe' = Append(greyPipe, m)
      BY <1>2 DEF MainGrey
    <3>. HIDE DEF m
    <3>. QED  BY <1>2, <2>1, <3>1 DEF MainGrey, TypeOK, TypePipes, fwVars
  <2>3. TypeHistory'
    BY <1>2 DEF MainGrey, TypeOK, TypeHistory, historyVars
  <2>4. TypeDb' /\ TypeReader' /\ TypeTool' /\ TypeScan'
    BY <1>2, DbStutter, ReaderStutter, ToolStutter, ScanStutter
       DEF MainGrey, TypeOK
  <2>. QED  BY <2>2, <2>3, <2>4 DEF TypeOK
<1>3. CASE SyncRecv
  <2>1. \E m \in Message : greyPipe' = Append(greyPipe, m)
    <3>1. CASE \E i \in Ips, r \in Rcpts :
                  greyPipe' = Append(greyPipe,
                      [type |-> "grey", ip |-> i, to |-> r,
                       low |-> FALSE, sync |-> FALSE])
      BY <3>1 DEF Message, GreyMsg
    <3>2. CASE \E i \in Ips, type \in {"white", "trap"}, x \in PeerExpires,
                  del \in BOOLEAN :
                  greyPipe' = Append(greyPipe,
                      [type |-> type, ip |-> i, expires |-> x, delete |-> del])
      BY <3>2, GreylisterAssumption DEF Message, PeerMsg
    <3>. QED  BY <1>3, <3>1, <3>2 DEF SyncRecv
  <2>2. TypePipes'
    BY <1>3, <2>1 DEF SyncRecv, TypeOK, TypePipes, fwVars
  <2>3. TypeHistory'
    BY <1>3 DEF SyncRecv, TypeOK, TypeHistory, historyVars
  <2>4. TypeDb' /\ TypeReader' /\ TypeTool' /\ TypeScan'
    BY <1>3, DbStutter, ReaderStutter, ToolStutter, ScanStutter
       DEF SyncRecv, TypeOK
  <2>. QED  BY <2>2, <2>3, <2>4 DEF TypeOK
<1>4. CASE MainReadTraps
  <2>1. TypePipes'
    BY <1>4, HeadTailProperties, SubSeqProperties
       DEF MainReadTraps, TypeOK, TypePipes, fwVars
  <2>2. TypeDb' /\ TypeReader' /\ TypeTool' /\ TypeScan' /\ TypeHistory'
    BY <1>4, DbStutter, ReaderStutter, ToolStutter, ScanStutter, HistoryStutter
       DEF MainReadTraps, TypeOK
  <2>. QED  BY <2>1, <2>2 DEF TypeOK
<1>. QED  BY <1>1, <1>2, <1>3, <1>4

----------------------------------------------------------------------------
(* The reader. *)

LEMMA VerdictsType ==
    ASSUME NEW m, NEW v \in Verdicts(m)
    PROVE  /\ v \in {"grey", "trap", "peer", "spfpass"}
           /\ v = "peer" <=> m.type # "grey"
BY DEF Verdicts

LEMMA MessageKind ==
    ASSUME NEW m \in Message
    PROVE  IF m.type = "grey" THEN m \in GreyMsg ELSE m \in PeerMsg
BY DEF Message, GreyMsg, PeerMsg

LEMMA ReaderDoneType ==
    ASSUME ReaderDone
    PROVE  TypeReader'
BY DEF ReaderDone, TypeReader, MaybeEntry

LEMMA ReaderKeepsTypes ==
    ASSUME TypeOK, ReaderStep \/ ReaderFault
    PROVE  TypeOK'
<1>1. CASE ReaderCheck
  <2>. DEFINE m == Head(greyPipe)
  <2>1. m \in Message /\ Tail(greyPipe) \in Seq(Message)
    BY <1>1, HeadTailProperties DEF ReaderCheck, TypeOK, TypePipes
  <2>2. TypeReader'
    <3>1. CASE UNCHANGED readerVars
      BY <3>1, ReaderStutter DEF TypeOK
    <3>2. CASE /\ rPc' = "checked"
               /\ rMsg' = m
               /\ rNow' = now
               /\ rVerdict' \in Verdicts(m)
               /\ UNCHANGED rVal
      <4>. HIDE DEF m
      <4>1. rMsg' \in (IF rVerdict' = "peer" THEN PeerMsg ELSE GreyMsg)
        BY <2>1, <3>2, VerdictsType, MessageKind
      <4>2. rVerdict' \in {"grey", "trap", "peer", "spfpass"}
        BY <3>2, VerdictsType
      <4>. QED  BY <3>2, <4>1, <4>2 DEF TypeOK, TypeReader, TypeHistory
    <3>. QED  BY <1>1, <3>1, <3>2 DEF ReaderCheck
  <2>3. TypePipes'
    BY <1>1, <2>1 DEF ReaderCheck, TypeOK, TypePipes, fwVars
  <2>4. TypeDb' /\ TypeTool' /\ TypeScan' /\ TypeHistory'
    BY <1>1, DbStutter, ToolStutter, ScanStutter, HistoryStutter
       DEF ReaderCheck, TypeOK
  <2>. QED  BY <2>2, <2>3, <2>4 DEF TypeOK
<1>2. CASE ReaderGet
  <2>1. TypeDb'
    BY <1>2 DEF ReaderGet, Begin, TypeOK, TypeDb
  <2>2. /\ rMsg.ip \in Ips
        /\ rVerdict = "grey" => <<rMsg.ip, rMsg.to>> \in Tuples
    BY <1>2 DEF ReaderGet, TypeOK, TypeReader, GreyMsg, PeerMsg, Tuples
  <2>3. TypeReader'
    BY <1>2, <2>2 DEF ReaderGet, TypeOK, TypeReader, TypeDb
  <2>4. TypeTool' /\ TypeScan' /\ TypePipes' /\ TypeHistory'
    BY <1>2, ToolStutter, ScanStutter, PipesStutter, HistoryStutter
       DEF ReaderGet, TypeOK
  <2>. QED  BY <2>1, <2>3, <2>4 DEF TypeOK
<1>3. CASE ReaderPutGrey
  <2>1. /\ rMsg.ip \in Ips
        /\ <<rMsg.ip, rMsg.to>> \in Tuples
    BY <1>3 DEF ReaderPutGrey, TypeOK, TypeReader, GreyMsg, Tuples
  <2>2. /\ NewGreyEntry(rNow, TrapExp, Trapped) \in Entry
        /\ GreyUpdate(rVal, rNow, GreyExp, Passing) \in Entry
    <3>1. NewGreyEntry(rNow, TrapExp, Trapped) = GreyUpdate(None, rNow, TrapExp, Trapped)
      BY DEF GreyUpdate
    <3>. QED
      BY <3>1, GreyUpdateType, TimesAreNaturals DEF TypeOK, TypeReader, MaybeEntry
  <2>3. TypeDb'
    BY <1>3, <2>1, <2>2 DEF ReaderPutGrey, End, TypeOK, TypeDb, MaybeEntry
  <2>4. TypeHistory'
    <3>1. attempts' \in [Tuples -> SUBSET Nat]
      BY <1>3, <2>1 DEF ReaderPutGrey, TypeOK, TypeReader, TypeHistory
    <3>. QED  BY <1>3, <3>1 DEF ReaderPutGrey, TypeOK, TypeHistory, boundVars
  <2>5. TypeReader' /\ TypeTool' /\ TypeScan' /\ TypePipes'
    BY <1>3, ReaderDoneType, ToolStutter, ScanStutter, PipesStutter
       DEF ReaderPutGrey, TypeOK
  <2>. QED  BY <2>3, <2>4, <2>5 DEF TypeOK
<1>4. CASE ReaderPutTrap
  <2>1. rMsg.ip \in Ips /\ GreyUpdate(rVal, rNow, TrapExp, Trapped) \in MaybeEntry
    BY <1>4, GreyUpdateType, TimesAreNaturals
       DEF ReaderPutTrap, TypeOK, TypeReader, GreyMsg, MaybeEntry
  <2>2. TypeDb'
    BY <1>4, <2>1 DEF ReaderPutTrap, End, TypeOK, TypeDb
  <2>3. TypeReader' /\ TypeTool' /\ TypeScan' /\ TypePipes' /\ TypeHistory'
    BY <1>4, ReaderDoneType, ToolStutter, ScanStutter, PipesStutter, HistoryStutter
       DEF ReaderPutTrap, TypeOK
  <2>. QED  BY <2>2, <2>3 DEF TypeOK
<1>5. CASE ReaderPutPeer
  <2>. DEFINE new == NonGreyUpdate(rVal, rNow, rMsg.type = "trap", rMsg.expires, rMsg.delete)
  <2>1. rMsg \in PeerMsg
    BY <1>5 DEF ReaderPutPeer, TypeOK, TypeReader
  <2>2. rMsg.ip \in Ips /\ new \in MaybeEntry
    BY <2>1, NonGreyUpdateType DEF TypeOK, TypeReader, PeerMsg
  <2>3. TypeDb'
    <3>. HIDE DEF new
    <3>. QED  BY <1>5, <2>2 DEF ReaderPutPeer, new, End, TypeOK, TypeDb
  <2>4. TypeHistory'
    BY <1>5, <2>2 DEF ReaderPutPeer, TypeOK, TypeHistory, boundVars
  <2>5. TypeReader' /\ TypeTool' /\ TypeScan' /\ TypePipes'
    BY <1>5, ReaderDoneType, ToolStutter, ScanStutter, PipesStutter
       DEF ReaderPutPeer, TypeOK
  <2>. QED  BY <2>3, <2>4, <2>5 DEF TypeOK
<1>6. CASE ReaderPutSpf
  <2>1. rMsg.ip \in Ips /\ SpfPassEntry(rNow) \in MaybeEntry
    BY <1>6, SpfPassEntryType
       DEF ReaderPutSpf, TypeOK, TypeReader, GreyMsg, MaybeEntry
  <2>2. TypeDb'
    BY <1>6, <2>1 DEF ReaderPutSpf, TypeOK, TypeDb
  <2>3. TypeHistory'
    BY <1>6, <2>1 DEF ReaderPutSpf, TypeOK, TypeHistory, boundVars
  <2>4. TypeReader' /\ TypeTool' /\ TypeScan' /\ TypePipes'
    BY <1>6, ReaderDoneType, ToolStutter, ScanStutter, PipesStutter
       DEF ReaderPutSpf, TypeOK
  <2>. QED  BY <2>2, <2>3, <2>4 DEF TypeOK
<1>7. CASE ReaderFault
  <2>1. TypeDb'
    BY <1>7 DEF ReaderFault, Rollback, TypeOK, TypeDb
  <2>2. TypeHistory'
    BY <1>7 DEF ReaderFault, TypeOK, TypeHistory, historyVars
  <2>3. TypeReader' /\ TypeTool' /\ TypeScan' /\ TypePipes'
    BY <1>7, ReaderDoneType, ToolStutter, ScanStutter, PipesStutter
       DEF ReaderFault, TypeOK
  <2>. QED  BY <2>1, <2>2, <2>3 DEF TypeOK
<1>. QED
  BY <1>1, <1>2, <1>3, <1>4, <1>5, <1>6, <1>7 DEF ReaderStep

----------------------------------------------------------------------------
(* greylogd and greydb. *)

LEMMA ToolDoneType ==
    ASSUME ToolDone
    PROVE  TypeTool'
BY DEF ToolDone, TypeTool, ToolOps, MaybeEntry

LEMMA ToolKeepsTypes ==
    ASSUME TypeOK,
           \/ ToolStep
           \/ ToolFault
           \/ \E op \in ToolOps, i \in Ips : ToolStart(op, i)
           \/ \E r \in Rcpts : GreydbList(r)
    PROVE  TypeOK'
<1>1. ASSUME NEW op \in ToolOps, NEW i \in Ips, ToolStart(op, i)
      PROVE  TypeOK'
  <2>1. TypeTool'
    BY <1>1 DEF ToolStart, TypeOK, TypeTool, TypeHistory
  <2>2. TypeHistory'
    BY <1>1 DEF ToolStart, TypeOK, TypeHistory, historyVars
  <2>3. TypeDb' /\ TypeReader' /\ TypeScan' /\ TypePipes'
    BY <1>1, DbStutter, ReaderStutter, ScanStutter, PipesStutter
       DEF ToolStart, TypeOK
  <2>. QED  BY <2>1, <2>2, <2>3 DEF TypeOK
<1>2. CASE ToolGet
  <2>1. TypeDb'
    BY <1>2 DEF ToolGet, Begin, TypeOK, TypeDb
  <2>2. TypeTool'
    BY <1>2 DEF ToolGet, TypeOK, TypeTool, TypeDb
  <2>3. TypeReader' /\ TypeScan' /\ TypePipes' /\ TypeHistory'
    BY <1>2, ReaderStutter, ScanStutter, PipesStutter, HistoryStutter
       DEF ToolGet, TypeOK
  <2>. QED  BY <2>1, <2>2, <2>3 DEF TypeOK
<1>3. CASE GreylogdPut
  <2>1. tIp \in Ips /\ GreylogdUpdate(tVal, tNow) \in MaybeEntry
    BY <1>3, GreylogdUpdateType DEF GreylogdPut, TypeOK, TypeTool, MaybeEntry
  <2>2. TypeDb'
    BY <1>3, <2>1 DEF GreylogdPut, End, TypeOK, TypeDb
  <2>3. TypeHistory'
    BY <1>3, <2>1 DEF GreylogdPut, TypeOK, TypeHistory, boundVars
  <2>4. TypeReader' /\ TypeTool' /\ TypeScan' /\ TypePipes'
    BY <1>3, ToolDoneType, ReaderStutter, ScanStutter, PipesStutter
       DEF GreylogdPut, TypeOK
  <2>. QED  BY <2>2, <2>3, <2>4 DEF TypeOK
<1>4. CASE GreydbPut
  <2>1. tIp \in Ips /\ GreydbUpdate(tVal, tNow, tOp = "traphit") \in MaybeEntry
    BY <1>4, GreydbUpdateType DEF GreydbPut, TypeOK, TypeTool, MaybeEntry
  <2>2. TypeDb'
    BY <1>4, <2>1 DEF GreydbPut, End, TypeOK, TypeDb, MaybeEntry
  <2>3. TypeHistory'
    BY <1>4, <2>1 DEF GreydbPut, TypeOK, TypeHistory, boundVars
  <2>4. TypeReader' /\ TypeTool' /\ TypeScan' /\ TypePipes'
    BY <1>4, ToolDoneType, ReaderStutter, ScanStutter, PipesStutter
       DEF GreydbPut, TypeOK
  <2>. QED  BY <2>2, <2>3, <2>4 DEF TypeOK
<1>5. ASSUME NEW r \in Rcpts, GreydbList(r)
      PROVE  TypeOK'
  <2>1. TypeDb'
    BY <1>5 DEF GreydbList, TypeOK, TypeDb
  <2>2. TypeHistory'
    BY <1>5 DEF GreydbList, TypeOK, TypeHistory, historyVars
  <2>3. TypeReader' /\ TypeTool' /\ TypeScan' /\ TypePipes'
    BY <1>5, ReaderStutter, ToolStutter, ScanStutter, PipesStutter
       DEF GreydbList, TypeOK
  <2>. QED  BY <2>1, <2>2, <2>3 DEF TypeOK
<1>6. CASE ToolFault
  <2>1. TypeDb'
    BY <1>6 DEF ToolFault, Rollback, TypeOK, TypeDb
  <2>2. TypeHistory'
    BY <1>6 DEF ToolFault, TypeOK, TypeHistory, historyVars
  <2>3. TypeReader' /\ TypeTool' /\ TypeScan' /\ TypePipes'
    BY <1>6, ToolDoneType, ReaderStutter, ScanStutter, PipesStutter
       DEF ToolFault, TypeOK
  <2>. QED  BY <2>1, <2>2, <2>3 DEF TypeOK
<1>. QED  BY <1>1, <1>2, <1>3, <1>4, <1>5, <1>6 DEF ToolStep

----------------------------------------------------------------------------
(* The scanner. *)

LEMMA NoEntriesType ==
    NoAddr \in [Ips -> MaybeEntry] /\ NoGrey \in [Tuples -> MaybeEntry]
BY DEF NoAddr, NoGrey, MaybeEntry

LEMMA ScanIdleType ==
    ASSUME ScanIdle, sPc' \in {"sleep", "publish"},
           white' \subseteq Ips, trapped' \subseteq Ips
    PROVE  TypeScan'
BY NoEntriesType DEF ScanIdle, TypeScan

LEMMA SweptType ==
    ASSUME NEW S, NEW f \in [S -> MaybeEntry], NEW d
    PROVE  Swept(f, d) \in [S -> MaybeEntry]
BY DEF Swept, MaybeEntry

LEMMA SqlWriteType ==
    ASSUME TypeDb, sNow \in Nat, NEW d, NEW t, NEW w \in Winners(d, t),
           NEW losersGo \in BOOLEAN, SqlWrite(d, t, w, losersGo)
    PROVE  addr' \in [Ips -> MaybeEntry] /\ grey' \in [Tuples -> MaybeEntry]
<1>1. /\ Swept(addr, d) \in [Ips -> MaybeEntry]
      /\ Swept(grey, d) \in [Tuples -> MaybeEntry]
  BY SweptType DEF TypeDb
<1>2. ASSUME NEW i \in Ips, w[i] # None
      PROVE  Promoted(grey[<<i, w[i]>>]) \in MaybeEntry
  <2>1. w[i] \in Rcpts /\ IsDue(Swept(grey, d)[<<i, w[i]>>], t)
    BY <1>2 DEF Winners, DueRcpts
  <2>2. <<i, w[i]>> \in Tuples
    BY <2>1 DEF Tuples
  <2>3. grey[<<i, w[i]>>] \in Entry
    BY <2>1, <2>2 DEF IsDue, IsPassing, Swept, TypeDb, MaybeEntry
  <2>. QED  BY <2>3, PromotedType DEF MaybeEntry
<1>3. addr' \in [Ips -> MaybeEntry]
  BY <1>1, <1>2 DEF SqlWrite
<1>4. grey' \in [Tuples -> MaybeEntry]
  BY <1>1 DEF SqlWrite, MaybeEntry
<1>. QED  BY <1>3, <1>4

LEMMA BdbScanKeepsTypes ==
    ASSUME TypeOK, ScanClock \/ BdbScanStep
    PROVE  TypeOK'
<1>1. CASE ScanClock
  <2>1. TypeScan'
    BY <1>1 DEF ScanClock, TypeOK, TypeScan, TypeHistory
  <2>2. TypeDb' /\ TypeReader' /\ TypeTool' /\ TypePipes' /\ TypeHistory'
    BY <1>1, DbStutter, ReaderStutter, ToolStutter, PipesStutter, HistoryStutter
       DEF ScanClock, TypeOK
  <2>. QED  BY <2>1, <2>2 DEF TypeOK
<1>2. CASE ScanOpen
  <2>1. TypeDb'
    BY <1>2 DEF ScanOpen, Begin, TypeOK, TypeDb
  <2>2. TypeScan'
    BY <1>2 DEF ScanOpen, TypeOK, TypeScan, TypeDb
  <2>3. TypeReader' /\ TypeTool' /\ TypePipes' /\ TypeHistory'
    BY <1>2, ReaderStutter, ToolStutter, PipesStutter, HistoryStutter
       DEF ScanOpen, TypeOK
  <2>. QED  BY <2>1, <2>2, <2>3 DEF TypeOK
<1>3. ASSUME NEW i \in Ips, VisitAddr(i)
      PROVE  TypeOK'
  <2>1. wAddr' \in [Ips -> MaybeEntry]
    BY <1>3 DEF VisitAddr, TypeOK, TypeScan, MaybeEntry
  <2>2. todoAddr' \subseteq {j \in Ips : wAddr'[j] # None}
    BY <1>3 DEF VisitAddr, TypeOK, TypeScan
  <2>3. white' \subseteq Ips /\ trapped' \subseteq Ips
    BY <1>3 DEF VisitAddr, TypeOK, TypeScan
  <2>4. TypeScan'
    BY <1>3, <2>1, <2>2, <2>3 DEF VisitAddr, TypeOK, TypeScan
  <2>5. TypeDb' /\ TypeReader' /\ TypeTool' /\ TypePipes' /\ TypeHistory'
    BY <1>3, DbStutter, ReaderStutter, ToolStutter, PipesStutter, HistoryStutter
       DEF VisitAddr, TypeOK
  <2>. QED  BY <2>4, <2>5 DEF TypeOK
<1>4. ASSUME NEW k \in Tuples, VisitTuple(k)
      PROVE  TypeOK'
  <2>1. k[1] \in Ips /\ wGrey[k] \in Entry
    BY <1>4 DEF VisitTuple, TypeOK, TypeScan, Tuples, MaybeEntry
  <2>2. Promoted(wGrey[k]) \in Entry /\ Promoted(wGrey[k]) # None
    BY <2>1, PromotedType, ConstantsAssumption DEF TypeOK, TypeScan
  <2>3. wAddr' \in [Ips -> MaybeEntry] /\ wGrey' \in [Tuples -> MaybeEntry]
    BY <1>4, <2>1, <2>2 DEF VisitTuple, TypeOK, TypeScan, MaybeEntry
  <2>4. todoAddr' \subseteq {j \in Ips : wAddr'[j] # None}
    BY <1>4, <2>1, <2>2 DEF VisitTuple, TypeOK, TypeScan
  <2>5. todoGrey' \subseteq {j \in Tuples : wGrey'[j] # None}
    BY <1>4 DEF VisitTuple, TypeOK, TypeScan
  <2>6. white' \subseteq Ips
    BY <1>4, <2>1 DEF VisitTuple, TypeOK, TypeScan
  <2>7. TypeScan'
    BY <1>4, <2>3, <2>4, <2>5, <2>6 DEF VisitTuple, TypeOK, TypeScan
  <2>8. TypeDb' /\ TypeReader' /\ TypeTool' /\ TypePipes' /\ TypeHistory'
    BY <1>4, DbStutter, ReaderStutter, ToolStutter, PipesStutter, HistoryStutter
       DEF VisitTuple, TypeOK
  <2>. QED  BY <2>7, <2>8 DEF TypeOK
<1>5. CASE ScanCommit
  <2>1. TypeDb'
    BY <1>5 DEF ScanCommit, End, TypeOK, TypeDb, TypeScan
  <2>2. TypeScan'
    BY <1>5, ScanIdleType DEF ScanCommit, TypeOK, TypeScan
  <2>3. TypeReader' /\ TypeTool' /\ TypePipes' /\ TypeHistory'
    BY <1>5, ReaderStutter, ToolStutter, PipesStutter, HistoryStutter
       DEF ScanCommit, TypeOK
  <2>. QED  BY <2>1, <2>2, <2>3 DEF TypeOK
<1>. QED  BY <1>1, <1>2, <1>3, <1>4, <1>5 DEF BdbScanStep

LEMMA SqlScanKeepsTypes ==
    ASSUME TypeOK, SqlScanStep \/ ScanFault
    PROVE  TypeOK'
<1>. sNow \in Nat
  BY DEF TypeOK, TypeScan
<1>1. ASSUME SqlUnchanged,
             addr' \in [Ips -> MaybeEntry], grey' \in [Tuples -> MaybeEntry],
             TypeScan'
      PROVE  TypeOK'
  <2>1. TypeDb'
    BY <1>1 DEF SqlUnchanged, TypeOK, TypeDb
  <2>2. TypeReader' /\ TypeTool' /\ TypePipes' /\ TypeHistory'
    BY <1>1, ReaderStutter, ToolStutter, PipesStutter, HistoryStutter
       DEF SqlUnchanged, TypeOK
  <2>. QED  BY <1>1, <2>1, <2>2 DEF TypeOK
<1>2. CASE ScanSqlite
  <2>1. addr' \in [Ips -> MaybeEntry] /\ grey' \in [Tuples -> MaybeEntry]
    BY <1>2, SqlWriteType DEF ScanSqlite, TypeOK
  <2>2. TypeScan'
    BY <1>2, ScanIdleType DEF ScanSqlite, SqlLists
  <2>. QED  BY <1>1, <1>2, <2>1, <2>2 DEF ScanSqlite
<1>3. CASE ScanPostgresql
  <2>1. addr' \in [Ips -> MaybeEntry] /\ grey' \in [Tuples -> MaybeEntry]
    BY <1>3, SqlWriteType DEF ScanPostgresql, TypeOK, TypeDb
  <2>2. TypeScan'
    BY <1>3, ScanIdleType DEF ScanPostgresql, SqlLists, TypeOK, TypeScan
  <2>. QED  BY <1>1, <1>3, <2>1, <2>2 DEF ScanPostgresql
<1>4. CASE ScanMysqlDelete
  <2>1. TypeScan'
    BY <1>4 DEF ScanMysqlDelete, TypeOK, TypeScan, TypeHistory
  <2>. QED  BY <1>1, <1>4, <2>1 DEF ScanMysqlDelete, TypeOK, TypeDb
<1>5. CASE ScanMysqlUpdate
  <2>1. addr' \in [Ips -> MaybeEntry] /\ grey' \in [Tuples -> MaybeEntry]
    BY <1>5, SqlWriteType DEF ScanMysqlUpdate, TypeOK
  <2>2. TypeScan'
    BY <1>5, ScanIdleType DEF ScanMysqlUpdate, SqlLists
  <2>. QED  BY <1>1, <1>5, <2>1, <2>2 DEF ScanMysqlUpdate
<1>6. CASE ScanFault
  <2>1. addr' \in [Ips -> MaybeEntry] /\ grey' \in [Tuples -> MaybeEntry]
    <3>1. CASE UNCHANGED <<addr, grey>>
      BY <3>1 DEF TypeOK, TypeDb
    <3>2. CASE addr' = Swept(addr, sSwept) /\ grey' = Swept(grey, sSwept)
      BY <3>2, SweptType DEF TypeOK, TypeDb
    <3>3. CASE \E w \in Winners(sSwept, now) : SqlWrite(sSwept, now, w, FALSE)
      BY <3>3, SqlWriteType DEF TypeOK
    <3>. QED  BY <1>6, <3>1, <3>2, <3>3 DEF ScanFault
  <2>2. TypeDb'
    BY <1>6, <2>1 DEF ScanFault, Rollback, TypeOK, TypeDb
  <2>3. TypeScan'
    BY <1>6, ScanIdleType DEF ScanFault
  <2>4. TypeHistory'
    BY <1>6 DEF ScanFault, TypeOK, TypeHistory, historyVars
  <2>5. TypeReader' /\ TypeTool' /\ TypePipes'
    BY <1>6, ReaderStutter, ToolStutter, PipesStutter DEF ScanFault, TypeOK
  <2>. QED  BY <2>2, <2>3, <2>4, <2>5 DEF TypeOK
<1>. QED  BY <1>2, <1>3, <1>4, <1>5, <1>6 DEF SqlScanStep

----------------------------------------------------------------------------
(* The lists on their way out, the firewall process, and a restart. *)

LEMMA FwUpdateType ==
    ASSUME NEW af \in Families, white \subseteq Ips
    PROVE  FwUpdate(af) \in Seq(FwMsg)
<1>. DEFINE ips == white \cap OfFamily(af)
            m   == [af |-> af, ips |-> ips]
<1>1. m \in FwMsg
  BY DEF FwMsg
<1>2. FwUpdate(af) \in {<<m>>, <<>>}
  BY DEF FwUpdate
<1>. HIDE DEF m
<1>3. <<m>> \in Seq(FwMsg) /\ <<>> \in Seq(FwMsg)
  BY <1>1
<1>. QED  BY <1>2, <1>3

LEMMA DeliveryKeepsTypes ==
    ASSUME TypeOK, ScanPublish \/ FwRead \/ Restart
    PROVE  TypeOK'
<1>1. CASE ScanPublish
  <2>1. fwPipe' \in Seq(FwMsg)
    <3>1. /\ FwUpdate("inet") \in Seq(FwMsg)
          /\ FwUpdate("inet6") \in Seq(FwMsg)
      BY FwUpdateType DEF TypeOK, TypeScan, Families
    <3>2. fwPipe \in Seq(FwMsg)
      BY DEF TypeOK, TypePipes
    <3>3. fwPipe \o FwUpdate("inet") \in Seq(FwMsg)
      BY <3>1, <3>2, ConcatProperties
    <3>4. (fwPipe \o FwUpdate("inet")) \o FwUpdate("inet6") \in Seq(FwMsg)
      BY <3>1, <3>3, ConcatProperties
    <3>. QED  BY <1>1, <3>4 DEF ScanPublish
  <2>2. trapPipe' \in Seq(SUBSET Ips)
    BY <1>1 DEF ScanPublish, TypeOK, TypePipes, TypeScan
  <2>3. TypePipes'
    BY <1>1, <2>1, <2>2 DEF ScanPublish, TypeOK, TypePipes, fwVars
  <2>4. TypeScan'
    BY <1>1 DEF ScanPublish, TypeOK, TypeScan
  <2>5. TypeDb' /\ TypeReader' /\ TypeTool' /\ TypeHistory'
    BY <1>1, DbStutter, ReaderStutter, ToolStutter, HistoryStutter
       DEF ScanPublish, TypeOK
  <2>. QED  BY <2>3, <2>4, <2>5 DEF TypeOK
<1>2. CASE FwRead
  <2>. DEFINE m == IF fwBuf # <<>> THEN Head(fwBuf) ELSE Head(fwPipe)
  <2>1. m \in FwMsg
    BY <1>2, HeadTailProperties DEF FwRead, TypeOK, TypePipes
  <2>2. fwWhite' \subseteq Ips
    <3>1. fwWhite' \in {Installed(m), fwWhite}
      BY <1>2 DEF FwRead
    <3>. HIDE DEF m
    <3>. QED  BY <2>1, <3>1 DEF Installed, FwMsg, TypeOK, TypePipes
  <2>3. fwBuf' \in Seq(FwMsg) /\ fwPipe' \in Seq(FwMsg)
    <3>1. CASE fwBuf # <<>>
      BY <1>2, <3>1, HeadTailProperties DEF FwRead, TypeOK, TypePipes
    <3>2. CASE fwBuf = <<>>
      <4>1. PICK n \in 1 .. Len(fwPipe) :
                /\ fwBuf' = SubSeq(fwPipe, 2, n)
                /\ fwPipe' = SubSeq(fwPipe, n + 1, Len(fwPipe))
        BY <1>2, <3>2 DEF FwRead
      <4>2. fwPipe \in Seq(FwMsg) /\ Len(fwPipe) \in Nat /\ n \in Nat
        BY DEF TypeOK, TypePipes
      <4>3. \A j \in 1 .. Len(fwPipe) : fwPipe[j] \in FwMsg
        BY <4>2
      <4>4. /\ \A j \in 2 .. n : fwPipe[j] \in FwMsg
            /\ \A j \in n + 1 .. Len(fwPipe) : fwPipe[j] \in FwMsg
        BY <4>2, <4>3
      <4>. QED  BY <4>1, <4>2, <4>4, SubSeqProperties
    <3>. QED  BY <3>1, <3>2
  <2>4. TypePipes'
    BY <1>2, <2>2, <2>3 DEF FwRead, TypeOK, TypePipes
  <2>5. TypeHistory'
    BY <1>2 DEF FwRead, TypeOK, TypeHistory, historyVars
  <2>6. TypeDb' /\ TypeReader' /\ TypeTool' /\ TypeScan'
    BY <1>2, DbStutter, ReaderStutter, ToolStutter, ScanStutter
       DEF FwRead, TypeOK
  <2>. QED  BY <2>4, <2>5, <2>6 DEF TypeOK
<1>3. CASE Restart
  <2>1. TypeDb'
    BY <1>3 DEF Restart, TypeOK, TypeDb
  <2>2. TypeScan'
    BY <1>3, ScanIdleType DEF Restart
  <2>3. TypePipes'
    BY <1>3 DEF Restart, TypeOK, TypePipes
  <2>4. TypeHistory'
    BY <1>3 DEF Restart, TypeOK, TypeHistory, historyVars
  <2>5. TypeReader' /\ TypeTool'
    BY <1>3, ReaderDoneType, ToolStutter DEF Restart, TypeOK
  <2>. QED  BY <2>1, <2>2, <2>3, <2>4, <2>5 DEF TypeOK
<1>. QED  BY <1>1, <1>2, <1>3

----------------------------------------------------------------------------

LEMMA InitTypes ==
    ASSUME Init
    PROVE  TypeOK
<1>1. TypeDb /\ TypeScan
  BY NoEntriesType, GreylisterAssumption DEF Init, TypeDb, TypeScan
<1>2. TypeReader /\ TypeTool
  BY DEF Init, TypeReader, TypeTool, ToolOps, MaybeEntry
<1>3. TypePipes /\ TypeHistory
  BY DEF Init, TypePipes, TypeHistory
<1>. QED  BY <1>1, <1>2, <1>3 DEF TypeOK

LEMMA NextKeepsTypes ==
    ASSUME TypeOK, [Next]_vars
    PROVE  TypeOK'
<1>1. CASE Next
  BY <1>1, MainKeepsTypes, ReaderKeepsTypes, ToolKeepsTypes, BdbScanKeepsTypes,
     SqlScanKeepsTypes, DeliveryKeepsTypes
     DEF Next, Environment, ScanStep, Fault
<1>2. CASE UNCHANGED vars
  BY <1>2, DbStutter, ReaderStutter, ToolStutter, ScanStutter, PipesStutter,
     HistoryStutter DEF vars, TypeOK
<1>. QED  BY <1>1, <1>2

\* Every variable keeps to its type, whatever the driver, the configuration and
\* the bounds, and the cursor of the scanner never points at a deleted key.
THEOREM TypeInvariance == Spec => []TypeOK
<1>1. Init => TypeOK
  BY InitTypes
<1>2. TypeOK /\ [Next]_vars => TypeOK'
  BY NextKeepsTypes
<1>. QED  BY <1>1, <1>2, PTL DEF Spec

----------------------------------------------------------------------------
(* The whitelist is earned.  The history of attempts and of vouched         *)
(* addresses only grows, so what it backs stays backed.                     *)

HistoryGrows ==
    /\ \A k \in Tuples : attempts[k] \subseteq attempts'[k]
    /\ vouched \subseteq vouched'

LEMMA NextGrowsHistory ==
    ASSUME TypeOK, [Next]_vars
    PROVE  HistoryGrows
<1>1. CASE UNCHANGED historyVars
  BY <1>1 DEF historyVars, HistoryGrows
<1>2. CASE ReaderPutGrey
  BY <1>2 DEF ReaderPutGrey, HistoryGrows, TypeOK, TypeHistory
<1>3. CASE ReaderPutPeer \/ ReaderPutSpf \/ GreylogdPut \/ GreydbPut
  BY <1>3 DEF ReaderPutPeer, ReaderPutSpf, GreylogdPut, GreydbPut, HistoryGrows
<1>4. CASE Environment \/ MainReadTraps \/ FwRead \/ Fault \/ ScanStep
  <2>1. UNCHANGED historyVars
    BY <1>4 DEF Environment, Tick, MainGrey, SyncRecv, ToolStart, GreydbList,
       MainReadTraps, FwRead, Fault, ReaderFault, ToolFault, ScanFault, Restart, ScanStep,
       ScanClock, BdbScanStep, ScanOpen, ScanCommit, VisitAddr, VisitTuple,
       SqlScanStep, ScanSqlite, ScanPostgresql, ScanMysqlDelete,
       ScanMysqlUpdate, SqlUnchanged, ScanPublish
  <2>. QED  BY <1>1, <2>1
<1>5. CASE ReaderCheck \/ ReaderGet \/ ReaderPutTrap \/ ToolGet \/ UNCHANGED vars
  <2>1. UNCHANGED historyVars
    BY <1>5 DEF ReaderCheck, ReaderGet, ReaderPutTrap, ToolGet, vars
  <2>. QED  BY <1>1, <2>1
<1>. QED  BY <1>2, <1>3, <1>4, <1>5 DEF Next, ReaderStep, ToolStep

LEMMA GoodGrows ==
    ASSUME HistoryGrows, NEW i \in Ips, Good(i)
    PROVE  Good(i)'
<1>1. CASE i \in vouched
  BY <1>1 DEF HistoryGrows, Good
<1>2. CASE Earned(i)
  <2>1. \A r \in Rcpts : attempts[<<i, r>>] \subseteq attempts'[<<i, r>>]
    BY DEF HistoryGrows, Tuples
  <2>2. Earned(i)'
    BY <1>2, <2>1 DEF Earned
  <2>. QED  BY <2>2 DEF Good
<1>. QED  BY <1>1, <1>2 DEF Good

LEMMA GreyBackedGrows ==
    ASSUME HistoryGrows, NEW k \in Tuples, NEW e, GreyBacked(k, e)
    PROVE  GreyBacked(k, e)'
BY DEF HistoryGrows, GreyBacked

LEMMA GoodMsgGrows ==
    ASSUME HistoryGrows, NEW q \in Seq(GoodMsg)
    PROVE  q \in Seq(GoodMsg')
<1>1. {i \in Ips : Good(i)} \subseteq {i \in Ips : Good(i)'}
  BY GoodGrows
<1>2. GoodMsg \subseteq GoodMsg'
  BY <1>1 DEF GoodMsg
<1>. QED  BY <1>2, SeqMonotonic

\* What makes a due entry worth a place in the whitelist: its pass time lies
\* before its expiry, so a retry has set it.
LEMMA DueIsEarned ==
    ASSUME TypeHistory, NEW k \in Tuples, NEW e \in Entry, NEW t \in Nat,
           GreyBacked(k, e), e.pass <= t, ~(e.expire <= t), e # None
    PROVE  Good(k[1])
<1>1. k[1] \in Ips /\ k[2] \in Rcpts /\ k = <<k[1], k[2]>>
  BY DEF Tuples
<1>2. /\ e.first \in Nat /\ e.pass \in Nat /\ e.expire \in Nat
      /\ GreyExp \in Nat /\ PassTime \in Nat
  BY TimesAreNaturals DEF Entry
<1>3. e.pass # e.expire
  BY <1>2
<1>4. /\ e.first \in attempts[k] /\ e.pass \in attempts[k]
      /\ e.first + PassTime < e.pass
      /\ e.expire = e.first + GreyExp
  BY <1>3 DEF GreyBacked
<1>5. e.pass < e.first + GreyExp
  BY <1>2, <1>4
<1>. QED  BY <1>1, <1>4, <1>5 DEF Good, Earned

----------------------------------------------------------------------------
(* A part that an action leaves alone stays backed. *)

LEMMA BackedDbStutter ==
    ASSUME HistoryGrows, BackedDb, UNCHANGED <<addr, grey>>
    PROVE  BackedDb'
BY GoodGrows, GreyBackedGrows DEF BackedDb

LEMMA BackedReaderStutter ==
    ASSUME HistoryGrows, TypeReader, BackedReader, UNCHANGED readerVars
    PROVE  BackedReader'
<1>1. CASE rPc = "got" /\ rVerdict = "grey"
  <2>1. <<rMsg.ip, rMsg.to>> \in Tuples
    BY <1>1 DEF TypeReader, GreyMsg, Tuples
  <2>. QED  BY <1>1, <2>1, GreyBackedGrows DEF BackedReader, readerVars
<1>2. CASE ~(rPc = "got" /\ rVerdict = "grey")
  BY <1>2 DEF BackedReader, readerVars
<1>. QED  BY <1>1, <1>2

LEMMA BackedScanStutter ==
    ASSUME HistoryGrows, TypeScan, BackedScan, UNCHANGED scanVars
    PROVE  BackedScan'
BY GoodGrows, GreyBackedGrows DEF BackedScan, scanVars, TypeScan

LEMMA BackedFwStutter ==
    ASSUME HistoryGrows, TypePipes, BackedFw, UNCHANGED <<fwPipe, fwVars>>
    PROVE  BackedFw'
BY GoodGrows, GoodMsgGrows DEF BackedFw, fwVars, TypePipes

\* The update of one address entry.
LEMMA BackedAddrUpdate ==
    ASSUME HistoryGrows, TypeDb, BackedDb, NEW i \in Ips, NEW e,
           addr' = [addr EXCEPT ![i] = e], UNCHANGED grey,
           IsPassing(e) => Good(i)'
    PROVE  BackedDb'
BY GoodGrows, GreyBackedGrows DEF BackedDb, TypeDb

LEMMA VouchedIsGood ==
    ASSUME NEW i \in vouched'
    PROVE  Good(i)'
BY DEF Good

LEMMA TrapIsNotPassing ==
    ASSUME NEW e, e.pcount = Trapped
    PROVE  ~IsPassing(e)
BY DEF IsPassing, Trapped, Passing

----------------------------------------------------------------------------
(* The reader. *)

LEMMA ReaderDoneBacked ==
    ASSUME ReaderDone
    PROVE  BackedReader'
BY DEF ReaderDone, BackedReader

LEMMA TrapUpdateTraps ==
    ASSUME NEW e \in MaybeEntry, NEW t, NEW life
    PROVE  GreyUpdate(e, t, life, Trapped).pcount = Trapped
BY DEF GreyUpdate, NewGreyEntry, SeenGreyEntry, MaybeEntry, Entry

LEMMA GreyUpdateBacked ==
    ASSUME HistoryGrows, NEW k \in Tuples, NEW e \in MaybeEntry, NEW t \in Nat,
           GreyBacked(k, e), t \in attempts'[k]
    PROVE  GreyBacked(k, GreyUpdate(e, t, GreyExp, Passing))'
<1>1. CASE e = None
  <2>1. GreyUpdate(e, t, GreyExp, Passing) = NewGreyEntry(t, GreyExp, Passing)
    BY <1>1 DEF GreyUpdate
  <2>. QED  BY <2>1 DEF GreyBacked, NewGreyEntry
<1>2. CASE e # None
  <2>. DEFINE f == SeenGreyEntry(e, t, Passing)
  <2>1. e \in Entry
    BY <1>2 DEF MaybeEntry
  <2>2. /\ f.first = e.first
        /\ f.expire = e.expire
        /\ f.pass = IF e.first + PassTime < t THEN t ELSE e.pass
    BY <2>1 DEF SeenGreyEntry, Entry
  <2>3. /\ e.first \in attempts'[k]
        /\ e.expire = e.first + GreyExp
        /\ e.pass = e.expire \/ (e.pass \in attempts'[k] /\ e.first + PassTime < e.pass)
    BY <1>2 DEF GreyBacked, HistoryGrows
  <2>4. GreyUpdate(e, t, GreyExp, Passing) = f
    BY <1>2 DEF GreyUpdate
  <2>. HIDE DEF f
  <2>. QED  BY <2>2, <2>3, <2>4 DEF GreyBacked
<1>. QED  BY <1>1, <1>2

LEMMA ReaderKeepsBacked ==
    ASSUME TypeOK, AllBacked, HistoryGrows, ReaderStep \/ ReaderFault
    PROVE  BackedDb' /\ BackedReader'
<1>. TypeDb /\ TypeReader /\ BackedDb /\ BackedReader
  BY DEF TypeOK, AllBacked
<1>1. CASE ReaderCheck
  <2>1. BackedReader'
    BY <1>1, BackedReaderStutter DEF ReaderCheck, BackedReader
  <2>. QED  BY <1>1, <2>1, BackedDbStutter DEF ReaderCheck, dbVars
<1>2. CASE ReaderGet
  <2>1. CASE rVerdict = "grey"
    <3>1. <<rMsg.ip, rMsg.to>> \in Tuples
      BY <1>2, <2>1 DEF ReaderGet, TypeReader, GreyMsg, Tuples
    <3>2. GreyBacked(<<rMsg.ip, rMsg.to>>, grey[<<rMsg.ip, rMsg.to>>])'
      BY <1>2, <3>1, GreyBackedGrows DEF BackedDb, ReaderGet
    <3>3. BackedReader'
      BY <1>2, <2>1, <3>2 DEF ReaderGet, BackedReader
    <3>. QED  BY <1>2, <3>3, BackedDbStutter DEF ReaderGet
  <2>2. CASE rVerdict # "grey"
    BY <1>2, <2>2, BackedDbStutter DEF ReaderGet, BackedReader
  <2>. QED  BY <2>1, <2>2
<1>3. CASE ReaderPutGrey
  <2>1. <<rMsg.ip, rMsg.to>> \in Tuples /\ rMsg.ip \in Ips
    BY <1>3 DEF ReaderPutGrey, TypeReader, GreyMsg, Tuples
  <2>2. BackedDb'
    <3>1. CASE LowPrioHit
      <4>1. ~IsPassing(NewGreyEntry(rNow, TrapExp, Trapped))
        BY TrapIsNotPassing DEF NewGreyEntry
      <4>. QED  BY <1>3, <2>1, <3>1, <4>1, BackedAddrUpdate DEF ReaderPutGrey
    <3>2. CASE ~LowPrioHit
      <4>k. PICK k \in Tuples : k = <<rMsg.ip, rMsg.to>>
        BY <2>1
      <4>e. PICK e \in Entry : e = GreyUpdate(rVal, rNow, GreyExp, Passing)
        BY GreyUpdateType, TimesAreNaturals DEF TypeReader
      <4>1. /\ grey' = [grey EXCEPT ![k] = e]
            /\ attempts' = [attempts EXCEPT ![k] = @ \cup {rNow}]
            /\ UNCHANGED addr
        BY <1>3, <3>2, <4>k, <4>e DEF ReaderPutGrey
      <4>2. rNow \in attempts'[k]
        BY <4>1 DEF TypeOK, TypeHistory
      <4>3. GreyBacked(k, rVal)
        BY <1>3, <4>k DEF ReaderPutGrey, BackedReader
      <4>4. GreyBacked(k, e)'
        BY <4>e, <4>2, <4>3, GreyUpdateBacked DEF TypeReader
      <4>5. \A j \in Tuples : GreyBacked(j, grey[j])'
        BY <4>1, <4>4, GreyBackedGrows DEF BackedDb, TypeDb
      <4>6. \A i \in Ips : IsPassing(addr'[i]) => Good(i)'
        BY <4>1, GoodGrows DEF BackedDb
      <4>. QED  BY <4>5, <4>6 DEF BackedDb
    <3>. QED  BY <3>1, <3>2
  <2>. QED  BY <1>3, <2>2, ReaderDoneBacked DEF ReaderPutGrey
<1>4. CASE ReaderPutTrap
  <2>1. rMsg.ip \in Ips
    BY <1>4 DEF ReaderPutTrap, TypeReader, GreyMsg
  <2>2. ~IsPassing(GreyUpdate(rVal, rNow, TrapExp, Trapped))
    BY TrapIsNotPassing, TrapUpdateTraps DEF TypeReader
  <2>. QED
    BY <1>4, <2>1, <2>2, BackedAddrUpdate, ReaderDoneBacked DEF ReaderPutTrap
<1>5. CASE ReaderPutPeer
  <2>. DEFINE e == NonGreyUpdate(rVal, rNow, rMsg.type = "trap",
                                 rMsg.expires, rMsg.delete)
  <2>1. rMsg \in PeerMsg /\ rMsg.ip \in Ips
    BY <1>5 DEF ReaderPutPeer, TypeReader, PeerMsg
  <2>2. CASE rMsg.type = "white" /\ ~rMsg.delete
    <3>1. PICK i \in Ips : i = rMsg.ip
      BY <2>1
    <3>2. Good(i)'
      BY <1>5, <2>2, <3>1, VouchedIsGood DEF ReaderPutPeer
    <3>. QED
      BY <1>5, <3>1, <3>2, BackedAddrUpdate, ReaderDoneBacked DEF ReaderPutPeer
  <2>3. CASE ~(rMsg.type = "white" /\ ~rMsg.delete)
    <3>1. CASE rMsg.delete
      BY <1>5, <2>1, <3>1, BackedAddrUpdate, ReaderDoneBacked
         DEF ReaderPutPeer, NonGreyUpdate, IsPassing
    <3>2. CASE ~rMsg.delete
      <4>1. rMsg.type = "trap"
        BY <2>1, <2>3, <3>2 DEF PeerMsg
      <4>2. e.pcount = Trapped
        BY <3>2, <4>1 DEF NonGreyUpdate, TypeReader, MaybeEntry, Entry
      <4>3. ~IsPassing(e)
        BY <4>2, TrapIsNotPassing
      <4>. QED
        BY <1>5, <2>1, <4>3, BackedAddrUpdate, ReaderDoneBacked DEF ReaderPutPeer
    <3>. QED  BY <3>1, <3>2
  <2>. QED  BY <2>2, <2>3
<1>6. CASE ReaderPutSpf
  <2>1. PICK i \in Ips : i = rMsg.ip
    BY <1>6 DEF ReaderPutSpf, TypeReader, GreyMsg
  <2>2. Good(i)'
    BY <1>6, <2>1, VouchedIsGood DEF ReaderPutSpf
  <2>. QED
    BY <1>6, <2>1, <2>2, BackedAddrUpdate, ReaderDoneBacked DEF ReaderPutSpf
<1>7. CASE ReaderFault
  BY <1>7, BackedDbStutter, ReaderDoneBacked DEF ReaderFault
<1>. QED
  BY <1>1, <1>2, <1>3, <1>4, <1>5, <1>6, <1>7 DEF ReaderStep

----------------------------------------------------------------------------
(* greylogd and greydb. *)

LEMMA ToolKeepsBacked ==
    ASSUME TypeOK, AllBacked, HistoryGrows, ToolStep \/ ToolFault
    PROVE  BackedDb'
<1>. TypeDb /\ TypeTool /\ BackedDb
  BY DEF TypeOK, AllBacked
<1>1. CASE ToolGet \/ ToolFault
  BY <1>1, BackedDbStutter DEF ToolGet, ToolFault
<1>2. CASE GreylogdPut
  <2>1. PICK i \in Ips : i = tIp
    BY <1>2 DEF GreylogdPut, TypeTool
  <2>2. Good(i)'
    BY <1>2, <2>1, VouchedIsGood DEF GreylogdPut
  <2>. QED  BY <1>2, <2>1, <2>2, BackedAddrUpdate DEF GreylogdPut
<1>3. CASE GreydbPut
  <2>0. tIp \in Ips
    BY <1>3 DEF GreydbPut, TypeTool
  <2>1. CASE tOp = "delete"
    BY <1>3, <2>0, <2>1, BackedAddrUpdate DEF GreydbPut, IsPassing
  <2>2. CASE tOp = "white"
    <3>1. PICK i \in Ips : i = tIp
      BY <2>0
    <3>2. Good(i)'
      BY <1>3, <2>2, <3>1, VouchedIsGood DEF GreydbPut
    <3>. QED  BY <1>3, <3>1, <3>2, BackedAddrUpdate DEF GreydbPut
  <2>3. CASE tOp = "traphit"
    <3>1. GreydbUpdate(tVal, tNow, TRUE).pcount = Trapped
      BY DEF GreydbUpdate, TypeTool, MaybeEntry, Entry
    <3>2. ~IsPassing(GreydbUpdate(tVal, tNow, tOp = "traphit"))
      BY <2>3, <3>1, TrapIsNotPassing
    <3>. QED  BY <1>3, <2>0, <2>3, <3>2, BackedAddrUpdate DEF GreydbPut
  <2>. QED  BY <1>3, <2>1, <2>2, <2>3 DEF GreydbPut, TypeTool, ToolOps
<1>. QED  BY <1>1, <1>2, <1>3 DEF ToolStep

----------------------------------------------------------------------------
(* The scanner. *)

LEMMA ScanIdleBacked ==
    ASSUME ScanIdle, sPc' # "swept", \A i \in white' : Good(i)'
    PROVE  BackedScan'
BY DEF ScanIdle, BackedScan, NoAddr, NoGrey, GreyBacked, IsPassing

LEMMA BdbScanKeepsBacked ==
    ASSUME TypeOK, AllBacked, HistoryGrows, ScanClock \/ BdbScanStep
    PROVE  BackedDb' /\ BackedScan'
<1>. TypeDb /\ TypeScan /\ BackedDb /\ BackedScan
  BY DEF TypeOK, AllBacked
<1>1. CASE ScanClock
  <2>1. BackedScan'
    BY <1>1, GoodGrows, GreyBackedGrows DEF ScanClock, BackedScan, TypeScan
  <2>. QED  BY <1>1, <2>1, BackedDbStutter DEF ScanClock, dbVars
<1>2. CASE ScanOpen
  <2>1. BackedDb'
    BY <1>2, BackedDbStutter DEF ScanOpen
  <2>2. BackedScan'
    BY <1>2, GoodGrows, GreyBackedGrows DEF ScanOpen, BackedScan, BackedDb, TypeScan
  <2>. QED  BY <2>1, <2>2
<1>3. ASSUME NEW i \in Ips, VisitAddr(i)
      PROVE  BackedDb' /\ BackedScan'
  <2>1. \A j \in Ips : IsPassing(wAddr'[j]) => Good(j)'
    BY <1>3, GoodGrows DEF VisitAddr, BackedScan, TypeScan, IsPassing
  <2>2. \A j \in white' : Good(j)'
    BY <1>3, GoodGrows DEF VisitAddr, BackedScan, TypeScan, IsDue
  <2>3. \A k \in Tuples : GreyBacked(k, wGrey[k])'
    BY <1>3, GreyBackedGrows DEF VisitAddr, BackedScan
  <2>. QED
    BY <1>3, <2>1, <2>2, <2>3, BackedDbStutter DEF VisitAddr, BackedScan, dbVars
<1>4. ASSUME NEW k \in Tuples, VisitTuple(k)
      PROVE  BackedDb' /\ BackedScan'
  <2>. DEFINE e == wGrey[k]
  <2>0. k[1] \in Ips /\ e \in Entry /\ e # None
    BY <1>4 DEF VisitTuple, TypeScan, Tuples, MaybeEntry
  <2>1. \A j \in Tuples : wGrey'[j] \in {None, wGrey[j]}
    BY <1>4 DEF VisitTuple, TypeScan
  <2>2. \A j \in Tuples : GreyBacked(j, wGrey[j])'
    BY <2>1, GreyBackedGrows DEF BackedScan, GreyBacked
  <2>3. CASE ~Expired(e, sNow) /\ IsDue(e, sNow)
    <3>1. Good(k[1])
      BY <2>0, <2>3, DueIsEarned
         DEF BackedScan, TypeScan, TypeOK, Expired, IsDue, IsPassing
    <3>2. PICK i \in Ips : i = k[1]
      BY <2>0
    <3>3. Good(i)'
      BY <3>1, <3>2, GoodGrows
    <3>4. \A j \in Ips : j # i => wAddr'[j] = wAddr[j]
      BY <1>4, <3>2 DEF VisitTuple, TypeScan
    <3>5. \A j \in Ips : IsPassing(wAddr'[j]) => Good(j)'
      BY <3>3, <3>4, GoodGrows DEF BackedScan
    <3>6. white' \subseteq white \cup {i}
      BY <1>4, <3>2 DEF VisitTuple
    <3>7. \A j \in white' : Good(j)'
      BY <3>3, <3>6, GoodGrows DEF BackedScan, TypeScan
    <3>. QED
      BY <1>4, <2>2, <3>5, <3>7, BackedDbStutter DEF VisitTuple, BackedScan, dbVars
  <2>4. CASE ~(~Expired(e, sNow) /\ IsDue(e, sNow))
    <3>1. UNCHANGED <<wAddr, white>>
      BY <1>4, <2>4 DEF VisitTuple
    <3>2. /\ \A j \in Ips : IsPassing(wAddr'[j]) => Good(j)'
          /\ \A j \in white' : Good(j)'
      BY <3>1, GoodGrows DEF BackedScan, TypeScan
    <3>. QED
      BY <1>4, <2>2, <3>2, BackedDbStutter DEF VisitTuple, BackedScan, dbVars
  <2>. QED  BY <2>3, <2>4
<1>5. CASE ScanCommit
  <2>1. BackedDb'
    BY <1>5, GoodGrows, GreyBackedGrows DEF ScanCommit, BackedDb, BackedScan
  <2>2. \A i \in white' : Good(i)'
    BY <1>5, GoodGrows DEF ScanCommit, BackedScan, TypeScan
  <2>3. BackedScan'
    BY <1>5, <2>2, ScanIdleBacked DEF ScanCommit
  <2>. QED  BY <2>1, <2>3
<1>. QED  BY <1>1, <1>2, <1>3, <1>4, <1>5 DEF BdbScanStep

\* A scan whose statements see one time only promotes what is due and has not
\* expired.
LEMMA SqlWriteBacked ==
    ASSUME TypeOK, BackedDb, HistoryGrows, NEW t \in Nat, NEW w \in Winners(t, t),
           NEW losersGo \in BOOLEAN, SqlWrite(t, t, w, losersGo)
    PROVE  BackedDb'
<1>. TypeDb /\ TypeHistory
  BY DEF TypeOK
<1>1. ASSUME NEW i \in Ips, w[i] # None
      PROVE  Good(i)
  <2>1. w[i] \in Rcpts /\ IsDue(Swept(grey, t)[<<i, w[i]>>], t)
    BY <1>1 DEF Winners, DueRcpts
  <2>2. PICK k \in Tuples : k = <<i, w[i]>>
    BY <2>1 DEF Tuples
  <2>3. /\ grey[k] # None /\ grey[k] \in Entry
        /\ grey[k].pass <= t /\ ~(grey[k].expire <= t)
    BY <2>1, <2>2 DEF IsDue, IsPassing, Swept, Expired, TypeDb, MaybeEntry
  <2>4. GreyBacked(k, grey[k])
    BY DEF BackedDb
  <2>5. Good(k[1])
    BY <2>3, <2>4, DueIsEarned
  <2>. QED  BY <2>2, <2>5
<1>2. \A i \in Ips : IsPassing(addr'[i]) => Good(i)'
  <2>. SUFFICES ASSUME NEW i \in Ips, IsPassing(addr'[i])
                PROVE  Good(i)
    BY GoodGrows
  <2>1. CASE w[i] # None
    BY <1>1, <2>1
  <2>2. CASE w[i] = None
    <3>1. addr'[i] \in {None, addr[i]}
      BY <2>2 DEF SqlWrite, Swept, TypeDb
    <3>. QED  BY <3>1 DEF IsPassing, BackedDb
  <2>. QED  BY <2>1, <2>2
<1>3. \A k \in Tuples : grey'[k] \in {None, grey[k]}
  BY DEF SqlWrite, Swept, TypeDb
<1>4. \A k \in Tuples : GreyBacked(k, grey[k])'
  BY <1>3, GreyBackedGrows DEF BackedDb, GreyBacked
<1>. QED  BY <1>2, <1>4 DEF BackedDb

LEMMA SqlScanKeepsBacked ==
    ASSUME TypeOK, AllBacked, HistoryGrows, driver # "mysql",
           SqlScanStep \/ ScanFault
    PROVE  BackedDb' /\ BackedScan'
<1>. TypeDb /\ TypeScan /\ TypeHistory /\ BackedDb /\ BackedScan
  BY DEF TypeOK, AllBacked
<1>0. ASSUME BackedDb', SqlLists
      PROVE  \A i \in white' : Good(i)'
  BY <1>0 DEF SqlLists, BackedDb
<1>1. CASE ScanSqlite
  <2>1. BackedDb'
    BY <1>1, SqlWriteBacked DEF ScanSqlite, TypeScan
  <2>. QED  BY <1>0, <1>1, <2>1, ScanIdleBacked DEF ScanSqlite
<1>2. CASE ScanPostgresql
  <2>1. CASE UNCHANGED <<addr, grey, white, trapped>>
    <3>1. \A i \in white' : Good(i)'
      BY <2>1, GoodGrows DEF BackedScan, TypeScan
    <3>. QED  BY <1>2, <2>1, <3>1, BackedDbStutter, ScanIdleBacked DEF ScanPostgresql
  <2>2. CASE /\ \E w \in Winners(now, now) : SqlWrite(now, now, w, TRUE)
             /\ SqlLists
    <3>1. BackedDb'
      BY <2>2, SqlWriteBacked DEF TypeHistory
    <3>. QED  BY <1>0, <1>2, <2>2, <3>1, ScanIdleBacked DEF ScanPostgresql
  <2>. QED  BY <1>2, <2>1, <2>2 DEF ScanPostgresql
<1>3. CASE ScanMysqlDelete \/ ScanMysqlUpdate
  BY <1>3 DEF ScanMysqlDelete, ScanMysqlUpdate, BackedScan
<1>4. CASE ScanFault
  <2>1. UNCHANGED <<addr, grey>> /\ white' = {} /\ sPc' = "sleep" /\ ScanIdle
    BY <1>4 DEF ScanFault, BackedScan
  <2>. QED  BY <2>1, BackedDbStutter, ScanIdleBacked
<1>. QED  BY <1>1, <1>2, <1>3, <1>4 DEF SqlScanStep

----------------------------------------------------------------------------
(* The lists on their way out, the firewall process, and a restart. *)

LEMMA FwUpdateBacked ==
    ASSUME NEW af \in Families, white \subseteq Ips, \A i \in white : Good(i)
    PROVE  FwUpdate(af) \in Seq(GoodMsg)
<1>. DEFINE ips == white \cap OfFamily(af)
            m   == [af |-> af, ips |-> ips]
<1>1. m \in GoodMsg
  BY DEF GoodMsg
<1>2. FwUpdate(af) \in {<<m>>, <<>>}
  BY DEF FwUpdate
<1>. HIDE DEF m
<1>3. <<m>> \in Seq(GoodMsg) /\ <<>> \in Seq(GoodMsg)
  BY <1>1
<1>. QED  BY <1>2, <1>3

LEMMA DeliveryKeepsBacked ==
    ASSUME TypeOK, AllBacked, HistoryGrows, ScanPublish \/ FwRead \/ Restart
    PROVE  BackedScan' /\ BackedFw'
<1>. TypeScan /\ TypePipes /\ BackedScan /\ BackedFw
  BY DEF TypeOK, AllBacked
<1>1. CASE ScanPublish
  <2>1. fwPipe' \in Seq(GoodMsg)
    <3>1. /\ FwUpdate("inet") \in Seq(GoodMsg)
          /\ FwUpdate("inet6") \in Seq(GoodMsg)
      BY FwUpdateBacked DEF TypeScan, BackedScan, Families
    <3>2. fwPipe \in Seq(GoodMsg)
      BY DEF BackedFw
    <3>3. fwPipe \o FwUpdate("inet") \in Seq(GoodMsg)
      BY <3>1, <3>2, ConcatProperties
    <3>4. (fwPipe \o FwUpdate("inet")) \o FwUpdate("inet6") \in Seq(GoodMsg)
      BY <3>1, <3>3, ConcatProperties
    <3>. QED  BY <1>1, <3>4 DEF ScanPublish
  <2>2. fwPipe' \in Seq(GoodMsg')
    BY <2>1, GoodMsgGrows
  <2>3. BackedFw'
    BY <1>1, <2>2, GoodGrows, GoodMsgGrows DEF ScanPublish, BackedFw, TypePipes, fwVars
  <2>4. BackedScan'
    BY <1>1, GoodGrows, GreyBackedGrows DEF ScanPublish, BackedScan, TypeScan
  <2>. QED  BY <2>3, <2>4
<1>2. CASE FwRead
  <2>. DEFINE m == IF fwBuf # <<>> THEN Head(fwBuf) ELSE Head(fwPipe)
  <2>1. m \in GoodMsg
    BY <1>2, HeadTailProperties DEF FwRead, BackedFw
  <2>2. \A i \in fwWhite' : Good(i)'
    <3>1. fwWhite' \in {Installed(m), fwWhite}
      BY <1>2 DEF FwRead
    <3>. HIDE DEF m
    <3>2. \A i \in fwWhite' : i \in Ips /\ Good(i)
      BY <2>1, <3>1 DEF Installed, GoodMsg, BackedFw, TypePipes
    <3>. QED  BY <3>2, GoodGrows
  <2>3. fwBuf' \in Seq(GoodMsg) /\ fwPipe' \in Seq(GoodMsg)
    <3>1. CASE fwBuf # <<>>
      BY <1>2, <3>1, HeadTailProperties DEF FwRead, BackedFw
    <3>2. CASE fwBuf = <<>>
      <4>1. PICK n \in 1 .. Len(fwPipe) :
                /\ fwBuf' = SubSeq(fwPipe, 2, n)
                /\ fwPipe' = SubSeq(fwPipe, n + 1, Len(fwPipe))
        BY <1>2, <3>2 DEF FwRead
      <4>2. fwPipe \in Seq(GoodMsg) /\ Len(fwPipe) \in Nat /\ n \in Nat
        BY DEF BackedFw
      <4>3. \A j \in 1 .. Len(fwPipe) : fwPipe[j] \in GoodMsg
        BY <4>2
      <4>4. /\ \A j \in 2 .. n : fwPipe[j] \in GoodMsg
            /\ \A j \in n + 1 .. Len(fwPipe) : fwPipe[j] \in GoodMsg
        BY <4>2, <4>3
      <4>. QED  BY <4>1, <4>2, <4>4, SubSeqProperties
    <3>. QED  BY <3>1, <3>2
  <2>4. BackedFw'
    BY <2>2, <2>3, GoodMsgGrows DEF BackedFw
  <2>. QED  BY <1>2, <2>4, BackedScanStutter DEF FwRead
<1>3. CASE Restart
  <2>1. BackedFw'
    BY <1>3, GoodGrows DEF Restart, BackedFw, TypePipes
  <2>. QED  BY <1>3, <2>1, ScanIdleBacked DEF Restart
<1>. QED  BY <1>1, <1>2, <1>3

----------------------------------------------------------------------------

LEMMA InitBacked ==
    ASSUME Init
    PROVE  AllBacked
<1>1. BackedDb /\ BackedScan
  BY DEF Init, BackedDb, BackedScan, NoAddr, NoGrey, GreyBacked, IsPassing
<1>2. BackedReader /\ BackedFw
  BY DEF Init, BackedReader, BackedFw
<1>. QED  BY <1>1, <1>2 DEF AllBacked

LEMMA NextKeepsBacked ==
    ASSUME TypeOK, AllBacked, driver # "mysql", [Next]_vars
    PROVE  AllBacked'
<1>. HistoryGrows
  BY NextGrowsHistory
<1>. /\ TypeReader /\ TypeScan /\ TypePipes
     /\ BackedDb /\ BackedReader /\ BackedScan /\ BackedFw
  BY DEF TypeOK, AllBacked
<1>1. CASE ReaderStep \/ ReaderFault
  <2>1. UNCHANGED <<scanVars, fwPipe, fwVars>>
    BY <1>1 DEF ReaderStep, ReaderCheck, ReaderGet, ReaderPutGrey, ReaderPutTrap,
       ReaderPutPeer, ReaderPutSpf, ReaderFault
  <2>. QED
    BY <1>1, <2>1, ReaderKeepsBacked, BackedScanStutter, BackedFwStutter DEF AllBacked
<1>2. CASE ToolStep \/ ToolFault
  <2>1. UNCHANGED <<readerVars, scanVars, fwPipe, fwVars>>
    BY <1>2 DEF ToolStep, ToolGet, GreylogdPut, GreydbPut, ToolFault
  <2>. QED
    BY <1>2, <2>1, ToolKeepsBacked, BackedReaderStutter, BackedScanStutter,
       BackedFwStutter DEF AllBacked
<1>3. CASE ScanClock \/ BdbScanStep \/ SqlScanStep \/ ScanFault
  <2>1. UNCHANGED <<readerVars, fwPipe, fwVars>>
    BY <1>3 DEF ScanClock, BdbScanStep, ScanOpen, VisitAddr, VisitTuple, ScanCommit,
       SqlScanStep, ScanSqlite, ScanPostgresql, ScanMysqlDelete, ScanMysqlUpdate,
       SqlUnchanged, ScanFault
  <2>2. BackedDb' /\ BackedScan'
    BY <1>3, BdbScanKeepsBacked, SqlScanKeepsBacked
  <2>. QED  BY <2>1, <2>2, BackedReaderStutter, BackedFwStutter DEF AllBacked
<1>4. CASE ScanPublish \/ FwRead \/ Restart
  <2>1. BackedDb'
    BY <1>4, BackedDbStutter DEF ScanPublish, FwRead, Restart, dbVars
  <2>2. BackedReader'
    BY <1>4, BackedReaderStutter, ReaderDoneBacked DEF ScanPublish, FwRead, Restart
  <2>. QED  BY <1>4, <2>1, <2>2, DeliveryKeepsBacked DEF AllBacked
<1>5. CASE Environment \/ MainReadTraps \/ UNCHANGED vars
  <2>1. UNCHANGED <<addr, grey, readerVars, scanVars, fwPipe, fwVars>>
    BY <1>5 DEF Environment, Tick, MainGrey, SyncRecv, ToolStart, GreydbList,
       MainReadTraps, vars, dbVars
  <2>. QED
    BY <2>1, BackedDbStutter, BackedReaderStutter, BackedScanStutter,
       BackedFwStutter DEF AllBacked
<1>. QED  BY <1>1, <1>2, <1>3, <1>4, <1>5 DEF Next, ScanStep, Fault

LEMMA DriverStays ==
    ASSUME [Next]_vars
    PROVE  UNCHANGED driver
<1>1. CASE Environment \/ MainReadTraps \/ FwRead \/ Fault
  BY <1>1 DEF Environment, Tick, MainGrey, SyncRecv, ToolStart, GreydbList,
     MainReadTraps, FwRead, Fault, ReaderFault, ToolFault, ScanFault, Restart
<1>2. CASE ReaderStep \/ ToolStep
  BY <1>2 DEF ReaderStep, ReaderCheck, ReaderGet, ReaderPutGrey, ReaderPutTrap,
     ReaderPutPeer, ReaderPutSpf, ToolStep, ToolGet, GreylogdPut, GreydbPut
<1>3. CASE ScanStep \/ UNCHANGED vars
  BY <1>3 DEF ScanStep, ScanClock, BdbScanStep, ScanOpen, VisitAddr, VisitTuple,
     ScanCommit, SqlScanStep, ScanSqlite, ScanPostgresql, ScanMysqlDelete,
     ScanMysqlUpdate, SqlUnchanged, ScanPublish, vars
<1>. QED  BY <1>1, <1>2, <1>3 DEF Next

\* With every driver but mysql, everything between a delivery attempt and the
\* firewall is accounted for: entries, the reader's copy, the scanner's work
\* and its lists, the messages in the pipe and in the stdio buffer.
THEOREM BackedInvariance == Spec => []GreyInv
<1>1. Init => GreyInv
  BY InitBacked DEF GreyInv
<1>2. TypeOK /\ GreyInv /\ [Next]_vars => GreyInv'
  BY NextKeepsBacked, DriverStays DEF GreyInv
<1>. QED  BY <1>1, <1>2, TypeInvariance, PTL DEF Spec

\* With every driver but mysql, no address gets into the whitelist of the
\* firewall unless a delivery of it was retried within the time window, or
\* someone outside greylisting vouched for it: the promise of process_grey,
\* Mod_scan_db and update_firewall together, for any number of hosts,
\* recipients and messages, and any timing.
THEOREM WhitelistIsEarned == Spec => []WhitelistEarned
<1>1. GreyInv => WhitelistEarned
  BY DEF GreyInv, AllBacked, BackedFw, WhitelistEarned, AlwaysEarned, Good
<1>. QED  BY <1>1, BackedInvariance, PTL

----------------------------------------------------------------------------
(* Transactions do not lose updates.  With bdb and sqlite the database is   *)
(* held from the get to the put, so an entry that was read is still there   *)
(* when it is written.                                                      *)

LEMMA NextKeepsLock ==
    ASSUME Exclusive, LockHeld, [Next]_vars
    PROVE  LockHeld'
<1>1. CASE Environment \/ MainReadTraps \/ FwRead \/ UNCHANGED vars
  BY <1>1 DEF LockHeld, Environment, Tick, MainGrey, SyncRecv, ToolStart,
     GreydbList, MainReadTraps, FwRead, vars, dbVars, readerVars, toolVars, scanVars
<1>2. CASE ReaderStep \/ ReaderFault
  <2>1. UNCHANGED <<tPc, sPc>>
    BY <1>2 DEF ReaderStep, ReaderCheck, ReaderGet, ReaderPutGrey, ReaderPutTrap,
       ReaderPutPeer, ReaderPutSpf, ReaderFault, toolVars, scanVars
  <2>2. CASE ReaderCheck \/ ReaderGet
    BY <2>1, <2>2 DEF LockHeld, ReaderCheck, ReaderGet, Begin, dbVars, readerVars
  <2>3. CASE ReaderPutGrey \/ ReaderPutTrap \/ ReaderPutPeer
    BY <2>1, <2>3 DEF LockHeld, ReaderPutGrey, ReaderPutTrap, ReaderPutPeer,
       ReaderDone, End
  <2>4. CASE ReaderPutSpf \/ ReaderFault
    BY <2>1, <2>4 DEF LockHeld, ReaderPutSpf, ReaderFault, ReaderDone, Rollback
  <2>. QED  BY <1>2, <2>2, <2>3, <2>4 DEF ReaderStep
<1>3. CASE ToolStep \/ ToolFault
  <2>1. UNCHANGED <<rPc, sPc>>
    BY <1>3 DEF ToolStep, ToolGet, GreylogdPut, GreydbPut, ToolFault, readerVars,
       scanVars
  <2>2. CASE ToolGet
    BY <2>1, <2>2 DEF LockHeld, ToolGet, Begin
  <2>3. CASE GreylogdPut \/ GreydbPut
    BY <2>1, <2>3 DEF LockHeld, GreylogdPut, GreydbPut, ToolDone, End
  <2>4. CASE ToolFault
    BY <2>1, <2>4 DEF LockHeld, ToolFault, ToolDone, Rollback
  <2>. QED  BY <1>3, <2>2, <2>3, <2>4 DEF ToolStep
<1>4. CASE ScanStep \/ ScanFault
  <2>1. UNCHANGED <<rPc, tPc>>
    BY <1>4 DEF ScanStep, ScanClock, BdbScanStep, ScanOpen, VisitAddr, VisitTuple,
       ScanCommit, SqlScanStep, ScanSqlite, ScanPostgresql, ScanMysqlDelete,
       ScanMysqlUpdate, SqlUnchanged, ScanPublish, ScanFault, readerVars, toolVars
  <2>2. CASE ScanClock \/ ScanPublish
    BY <2>1, <2>2 DEF LockHeld, ScanClock, ScanPublish, dbVars
  <2>3. CASE ScanOpen \/ ScanCommit
    BY <2>1, <2>3 DEF LockHeld, ScanOpen, ScanCommit, Begin, End
  <2>4. ASSUME \/ \E i \in Ips : VisitAddr(i)
               \/ \E k \in Tuples : VisitTuple(k)
        PROVE  LockHeld'
    BY <2>1, <2>4 DEF LockHeld, VisitAddr, VisitTuple, dbVars
  <2>5. CASE SqlScanStep
    BY <2>1, <2>5 DEF LockHeld, SqlScanStep, ScanSqlite, ScanPostgresql,
       ScanMysqlDelete, ScanMysqlUpdate, SqlUnchanged, Exclusive
  <2>6. CASE ScanFault
    BY <2>1, <2>6 DEF LockHeld, ScanFault, Rollback
  <2>. QED
    BY <1>4, <2>2, <2>3, <2>4, <2>5, <2>6 DEF ScanStep, BdbScanStep
<1>5. CASE Restart
  BY <1>5 DEF LockHeld, Restart, ReaderDone, toolVars
<1>. QED  BY <1>1, <1>2, <1>3, <1>4, <1>5 DEF Next, Fault

\* Whoever writes to the database holds it, so nobody else has an entry in hand.
LEMMA WriterIsAlone ==
    ASSUME Exclusive, LockHeld, Next, ~UNCHANGED <<addr, grey>>
    PROVE  rPc' # "got" /\ tPc' # "got"
<1>1. CASE ReaderStep
  <2>1. CASE ReaderPutGrey \/ ReaderPutTrap \/ ReaderPutPeer \/ ReaderPutSpf
    BY <2>1 DEF ReaderPutGrey, ReaderPutTrap, ReaderPutPeer, ReaderPutSpf,
       ReaderDone, LockHeld, toolVars
  <2>. QED  BY <1>1, <2>1 DEF ReaderStep, ReaderCheck, ReaderGet, dbVars
<1>2. CASE ToolStep
  BY <1>2 DEF ToolStep, ToolGet, GreylogdPut, GreydbPut, ToolDone, LockHeld,
     readerVars
<1>3. CASE ScanStep
  <2>1. CASE ScanCommit
    BY <2>1 DEF ScanCommit, LockHeld, readerVars, toolVars
  <2>2. CASE SqlScanStep
    BY <2>2 DEF SqlScanStep, ScanSqlite, ScanPostgresql, ScanMysqlDelete,
       ScanMysqlUpdate, SqlUnchanged, Exclusive, LockHeld, readerVars, toolVars
  <2>. QED
    BY <1>3, <2>1, <2>2 DEF ScanStep, ScanClock, BdbScanStep, ScanOpen, VisitAddr,
       VisitTuple, ScanPublish, dbVars
<1>4. CASE Environment \/ MainReadTraps \/ FwRead \/ Fault
  BY <1>4 DEF Environment, Tick, MainGrey, SyncRecv, ToolStart, GreydbList,
     MainReadTraps, FwRead, Fault, ReaderFault, ToolFault, ScanFault, Restart,
     LockHeld, dbVars
<1>. QED  BY <1>1, <1>2, <1>3, <1>4 DEF Next

LEMMA NextKeepsUpdates ==
    ASSUME Exclusive, LockHeld, SeesLatest, [Next]_vars
    PROVE  SeesLatest'
<1>1. CASE UNCHANGED vars
  BY <1>1 DEF SeesLatest, vars, dbVars, readerVars, toolVars
<1>2. CASE Next /\ ~UNCHANGED <<addr, grey>>
  BY <1>2, WriterIsAlone DEF SeesLatest
<1>3. CASE Next /\ UNCHANGED <<addr, grey>>
  <2>1. rPc' = "got" =>
            rVal' = IF rVerdict' = "grey" THEN grey[<<rMsg'.ip, rMsg'.to>>]
                                          ELSE addr[rMsg'.ip]
    <3>1. CASE ReaderStep \/ Fault
      BY <1>3, <3>1 DEF SeesLatest, ReaderStep, ReaderCheck, ReaderGet,
         ReaderPutGrey, ReaderPutTrap, ReaderPutPeer, ReaderPutSpf, Fault,
         ReaderFault, ToolFault, ScanFault, Restart, ReaderDone, readerVars
    <3>2. CASE Environment \/ ToolStep \/ ScanStep \/ MainReadTraps \/ FwRead
      <4>1. UNCHANGED readerVars
        BY <3>2 DEF Environment, Tick, MainGrey, SyncRecv, ToolStart, GreydbList,
           ToolStep, ToolGet, GreylogdPut, GreydbPut, ScanStep, ScanClock,
           BdbScanStep, ScanOpen, VisitAddr, VisitTuple, ScanCommit, SqlScanStep,
           ScanSqlite, ScanPostgresql, ScanMysqlDelete, ScanMysqlUpdate,
           SqlUnchanged, ScanPublish, MainReadTraps, FwRead
      <4>. QED  BY <4>1 DEF SeesLatest, readerVars
    <3>. QED  BY <1>3, <3>1, <3>2 DEF Next
  <2>2. tPc' = "got" => tVal' = addr[tIp']
    <3>1. CASE ToolStep \/ ToolFault \/ Environment
      BY <1>3, <3>1 DEF SeesLatest, ToolStep, ToolGet, GreylogdPut, GreydbPut,
         ToolFault, ToolDone, Environment, Tick, MainGrey, SyncRecv, ToolStart, GreydbList,
         toolVars
    <3>2. CASE \/ ReaderStep \/ ReaderFault \/ ScanStep \/ ScanFault \/ Restart
               \/ MainReadTraps \/ FwRead
      <4>1. UNCHANGED toolVars
        BY <3>2 DEF ReaderStep, ReaderCheck, ReaderGet, ReaderPutGrey,
           ReaderPutTrap, ReaderPutPeer, ReaderPutSpf, ReaderFault,
           ScanFault, Restart, ScanStep, ScanClock, BdbScanStep, ScanOpen,
           VisitAddr, VisitTuple, ScanCommit, SqlScanStep, ScanSqlite,
           ScanPostgresql, ScanMysqlDelete, ScanMysqlUpdate, SqlUnchanged,
           ScanPublish, MainReadTraps, FwRead
      <4>. QED  BY <4>1 DEF SeesLatest, toolVars
    <3>. QED  BY <1>3, <3>1, <3>2 DEF Next, Fault
  <2>. QED  BY <1>3, <2>1, <2>2 DEF SeesLatest
<1>. QED  BY <1>1, <1>2, <1>3

\* With bdb and sqlite, a transaction of the reader, of greylogd or of greydb
\* never overwrites a change it has not seen, whatever the processes do and
\* wherever they fail.
THEOREM UpdatesAreNotLost == Spec => []NoLostUpdate
<1>. DEFINE Inv == Exclusive => LockHeld /\ SeesLatest
<1>1. Init => Inv
  BY DEF Init, LockHeld, SeesLatest
<1>2. Inv /\ [Next]_vars => Inv'
  BY NextKeepsLock, NextKeepsUpdates, DriverStays DEF Exclusive
<1>3. Inv => NoLostUpdate
  BY DEF NoLostUpdate
<1>. QED  BY <1>1, <1>2, <1>3, PTL DEF Spec

----------------------------------------------------------------------------
(***************************************************************************)
(* What a scan of the database promises when it ends, proved for every     *)
(* driver: the lists it leaves match the database it leaves, it lifts no   *)
(* running greytrap, and it promotes every retried tuple that is due.      *)
(*                                                                         *)
(* The SQL drivers do all of it in one step.  The cursor of the bdb driver *)
(* meets the keys one at a time, in any order, and may or may not meet the *)
(* entries the scan itself puts: what it has done so far is the invariant. *)
(***************************************************************************)

\* Where a scan stands: which driver takes which steps, that the lists are
\* empty between scans, and that no clock reading lies in the future.
Phase ==
    /\ sPc = "txn" => driver = "bdb"
    /\ sPc = "swept" => driver = "mysql"
    /\ sPc \in {"sleep", "clocked", "swept"} => white = {} /\ trapped = {}
    /\ sNow <= now
    /\ sSwept <= now

\* The trap list holds the greytraps the cursor has met.
TrapsMet ==
    \A i \in Ips : i \in trapped <=> (i \notin todoAddr /\ IsTrapped(wAddr[i]))

\* What the whitelist holds is not removed by a later visit of the cursor.
WhitesLast ==
    \A i \in white : IsPassing(wAddr[i]) /\ ~Expired(wAddr[i], sNow)

\* The scan makes no greytraps, and keeps those that are still running.
TrapsKept ==
    \A i \in Ips :
        /\ IsTrapped(wAddr[i]) => wAddr[i] = addr[i]
        /\ IsTrapped(addr[i]) /\ ~Expired(addr[i], sNow) => wAddr[i] = addr[i]

\* A tuple is as it was until the cursor meets it; when it was due, its
\* address has an entry afterwards that a later visit does not remove.
DueMet ==
    \A k \in Tuples :
        /\ k \in todoGrey => wGrey[k] = grey[k]
        /\ k \notin todoGrey /\ IsDue(grey[k], sNow) /\ ~Expired(grey[k], sNow)
             => \/ IsTrapped(addr[k[1]])
                \/ wAddr[k[1]] # None /\ ~Expired(wAddr[k[1]], sNow)

CursorInv == sPc = "txn" => TrapsMet /\ WhitesLast /\ TrapsKept /\ DueMet

\* The inductive invariant of the scan, on top of TypeOK and of LockHeld.
ScanInv == Phase /\ CursorInv
----------------------------------------------------------------------------
(* The other processes. *)

Others ==
    \/ Environment \/ MainReadTraps \/ FwRead \/ ReaderStep \/ ToolStep
    \/ ReaderFault \/ ToolFault

LEMMA OthersLeaveScan ==
    ASSUME TypeOK, Others \/ UNCHANGED vars
    PROVE  UNCHANGED scanVars /\ now <= now'
<1>. now \in Nat
  BY DEF TypeOK, TypeHistory
<1>1. CASE Environment \/ MainReadTraps \/ FwRead \/ UNCHANGED vars
  <2>1. CASE Tick
    BY <2>1 DEF Tick
  <2>2. CASE MainReadTraps \/ FwRead \/ UNCHANGED vars
    BY <2>2 DEF MainReadTraps, FwRead, vars
  <2>3. CASE Environment /\ ~Tick
    <3>1. UNCHANGED <<scanVars, now>>
      BY <2>3 DEF Environment, MainGrey, SyncRecv, ToolStart, GreydbList
    <3>. QED  BY <3>1
  <2>. QED  BY <1>1, <2>1, <2>2, <2>3
<1>2. CASE ReaderStep \/ ReaderFault
  BY <1>2 DEF ReaderStep, ReaderCheck, ReaderGet, ReaderPutGrey, ReaderPutTrap,
     ReaderPutPeer, ReaderPutSpf, ReaderFault
<1>3. CASE ToolStep \/ ToolFault
  BY <1>3 DEF ToolStep, ToolGet, GreylogdPut, GreydbPut, ToolFault
<1>. QED  BY <1>1, <1>2, <1>3 DEF Others

\* While the cursor is open nobody else writes to the database.
LEMMA CursorIsAlone ==
    ASSUME LockHeld, sPc = "txn", Others \/ UNCHANGED vars
    PROVE  UNCHANGED <<addr, grey>>
<1>. lock = "scanner" /\ rPc # "got" /\ tPc # "got"
  BY DEF LockHeld
<1>1. CASE Environment \/ MainReadTraps \/ FwRead \/ UNCHANGED vars
  BY <1>1 DEF Environment, Tick, MainGrey, SyncRecv, ToolStart, GreydbList,
     MainReadTraps, FwRead, vars, dbVars
<1>2. CASE ReaderStep \/ ReaderFault
  BY <1>2 DEF ReaderStep, ReaderCheck, ReaderGet, ReaderPutGrey, ReaderPutTrap,
     ReaderPutPeer, ReaderPutSpf, ReaderFault, dbVars
<1>3. CASE ToolStep \/ ToolFault
  BY <1>3 DEF ToolStep, ToolGet, GreylogdPut, GreydbPut, ToolFault, dbVars
<1>. QED  BY <1>1, <1>2, <1>3 DEF Others

----------------------------------------------------------------------------
(* The phases of a scan. *)

LEMMA NextKeepsPhase ==
    ASSUME TypeOK, Phase, [Next]_vars
    PROVE  Phase'
<1>. sNow \in Nat /\ sSwept \in Nat /\ now \in Nat
  BY DEF TypeOK, TypeHistory, TypeScan
<1>. UNCHANGED driver
  BY DriverStays
<1>1. CASE Others \/ UNCHANGED vars
  <2>1. UNCHANGED scanVars /\ now <= now' /\ now' \in Nat
    BY <1>1, OthersLeaveScan, NextKeepsTypes DEF TypeOK, TypeHistory
  <2>. QED  BY <2>1 DEF Phase, scanVars
<1>2. CASE ScanStep
  <2>1. CASE ScanClock \/ ScanPublish
    BY <2>1 DEF Phase, ScanClock, ScanPublish
  <2>2. CASE ScanOpen \/ ScanCommit
    BY <2>2 DEF Phase, ScanOpen, ScanCommit, ScanIdle
  <2>3. ASSUME \/ \E i \in Ips : VisitAddr(i)
               \/ \E k \in Tuples : VisitTuple(k)
        PROVE  Phase'
    BY <2>3 DEF Phase, VisitAddr, VisitTuple
  <2>4. CASE SqlScanStep
    <3>1. UNCHANGED now
      BY <2>4 DEF SqlScanStep, ScanSqlite, ScanPostgresql, ScanMysqlDelete,
         ScanMysqlUpdate, SqlUnchanged
    <3>2. CASE ScanMysqlDelete
      BY <3>1, <3>2 DEF Phase, ScanMysqlDelete
    <3>3. CASE sPc' = "publish" /\ sNow' = 0 /\ sSwept' = 0
      BY <3>1, <3>3 DEF Phase
    <3>. QED
      BY <2>4, <3>2, <3>3 DEF SqlScanStep, ScanSqlite, ScanPostgresql,
         ScanMysqlUpdate, ScanIdle
  <2>. QED  BY <1>2, <2>1, <2>2, <2>3, <2>4 DEF ScanStep, BdbScanStep
<1>3. CASE ScanFault \/ Restart
  <2>1. /\ sPc' = "sleep" /\ white' = {} /\ trapped' = {}
        /\ sNow' = 0 /\ sSwept' = 0 /\ UNCHANGED now
    BY <1>3 DEF ScanFault, Restart, ScanIdle
  <2>. QED  BY <2>1 DEF Phase
<1>. QED  BY <1>1, <1>2, <1>3 DEF Next, Fault, Others

----------------------------------------------------------------------------
(* The steps of the cursor. *)

LEMMA OpenStartsCursor ==
    ASSUME TypeOK, Phase, ScanOpen
    PROVE  CursorInv'
<1>1. trapped' = {} /\ white' = {} /\ UNCHANGED <<addr, grey, sNow>>
  BY DEF ScanOpen, Phase
<1>2. TrapsMet' /\ WhitesLast' /\ TrapsKept'
  BY <1>1 DEF ScanOpen, TrapsMet, WhitesLast, TrapsKept, IsTrapped
<1>3. DueMet'
  BY <1>1 DEF ScanOpen, DueMet, IsDue, IsPassing
<1>. QED  BY <1>2, <1>3 DEF CursorInv

LEMMA VisitAddrKeepsCursor ==
    ASSUME TypeOK, CursorInv, NEW i \in Ips, VisitAddr(i)
    PROVE  CursorInv'
<1>. DEFINE e == wAddr[i]
<1>1. /\ UNCHANGED <<addr, grey, sNow, todoGrey, wGrey>>
      /\ i \in todoAddr /\ todoAddr' = todoAddr \ {i}
      /\ wAddr \in [Ips -> MaybeEntry] /\ white \subseteq Ips
  BY DEF VisitAddr, TypeOK, TypeScan, dbVars
<1>2. TrapsMet /\ WhitesLast /\ TrapsKept /\ DueMet
  BY DEF CursorInv, VisitAddr
<1>3. ASSUME NEW j \in Ips, j # i
      PROVE  /\ wAddr'[j] = wAddr[j]
             /\ j \in trapped' <=> j \in trapped
             /\ j \in white' <=> j \in white
  BY <1>1, <1>3 DEF VisitAddr
<1>4. wAddr'[i] = IF Expired(e, sNow) THEN None ELSE e
  BY <1>1 DEF VisitAddr
<1>5. TrapsMet'
  <2>1. i \in trapped' <=> (i \notin todoAddr' /\ IsTrapped(wAddr'[i]))
    BY <1>1, <1>2, <1>4 DEF VisitAddr, TrapsMet, IsTrapped
  <2>2. ASSUME NEW j \in Ips, j # i
        PROVE  j \in trapped' <=> (j \notin todoAddr' /\ IsTrapped(wAddr'[j]))
    BY <1>1, <1>2, <1>3, <2>2 DEF TrapsMet
  <2>. QED  BY <2>1, <2>2 DEF TrapsMet
<1>6. WhitesLast'
  <2>1. i \in white' => IsPassing(wAddr'[i]) /\ ~Expired(wAddr'[i], sNow)
    BY <1>2, <1>4 DEF VisitAddr, WhitesLast, IsDue
  <2>2. white' \subseteq Ips
    BY <1>1 DEF VisitAddr
  <2>. QED  BY <1>1, <1>2, <1>3, <2>1, <2>2 DEF WhitesLast
<1>7. TrapsKept'
  <2>1. ASSUME NEW j \in Ips
        PROVE  /\ IsTrapped(wAddr'[j]) => wAddr'[j] = addr[j]
               /\ IsTrapped(addr[j]) /\ ~Expired(addr[j], sNow)
                    => wAddr'[j] = addr[j]
    BY <1>2, <1>3, <1>4 DEF TrapsKept, IsTrapped
  <2>. QED  BY <1>1, <2>1 DEF TrapsKept
<1>8. DueMet'
  <2>1. ASSUME NEW j \in Ips, wAddr[j] # None, ~Expired(wAddr[j], sNow)
        PROVE  wAddr'[j] = wAddr[j]
    BY <1>3, <1>4, <2>1
  <2>2. \A k \in Tuples : k[1] \in Ips
    BY DEF Tuples
  <2>. QED  BY <1>1, <1>2, <2>1, <2>2 DEF DueMet
<1>. QED  BY <1>5, <1>6, <1>7, <1>8 DEF CursorInv

\* A promoted entry is passing and outlives the scan.
LEMMA PromotedLasts ==
    ASSUME NEW e \in Entry, sNow \in Nat, IsDue(e, sNow)
    PROVE  /\ Promoted(e) # None
           /\ IsPassing(Promoted(e))
           /\ ~IsTrapped(Promoted(e))
           /\ ~Expired(Promoted(e), sNow)
<1>1. Promoted(e) \in Entry /\ Promoted(e) # None
  BY PromotedType, ConstantsAssumption
<1>2. Promoted(e).pcount = e.pcount /\ Promoted(e).expire = sNow + WhiteExp
  BY DEF Promoted, Entry
<1>3. sNow < sNow + WhiteExp
  BY ConstantsAssumption
<1>. QED
  BY <1>1, <1>2, <1>3, ConstantsAssumption
     DEF IsDue, IsPassing, IsTrapped, Expired, Passing, Trapped

LEMMA VisitTupleKeepsCursor ==
    ASSUME TypeOK, CursorInv, NEW k \in Tuples, VisitTuple(k)
    PROVE  CursorInv'
<1>. DEFINE e == wGrey[k]
            i == k[1]
<1>1. /\ UNCHANGED <<addr, grey, sNow, trapped>>
      /\ k \in todoGrey /\ todoGrey' = todoGrey \ {k}
      /\ wAddr \in [Ips -> MaybeEntry] /\ wGrey \in [Tuples -> MaybeEntry]
      /\ white \subseteq Ips /\ sNow \in Nat
      /\ e \in Entry /\ i \in Ips
  BY DEF VisitTuple, TypeOK, TypeScan, dbVars, Tuples, MaybeEntry
<1>2. TrapsMet /\ WhitesLast /\ TrapsKept /\ DueMet
  BY DEF CursorInv, VisitTuple
<1>3. \A l \in Tuples : l # k => wGrey'[l] = wGrey[l]
  BY <1>1 DEF VisitTuple
<1>4. \A l \in Tuples : l \in todoGrey' => wGrey'[l] = grey[l]
  BY <1>1, <1>2, <1>3 DEF DueMet
<1>5. e = grey[k] /\ \A l \in Tuples : l[1] \in Ips
  BY <1>1, <1>2 DEF DueMet, Tuples
<1>6. CASE /\ UNCHANGED <<wAddr, white, todoAddr>>
           /\ Expired(e, sNow) \/ ~(IsDue(e, sNow) /\ ~AddrIsTrapped(i))
  <2>1. TrapsMet' /\ WhitesLast' /\ TrapsKept'
    BY <1>1, <1>2, <1>6 DEF TrapsMet, WhitesLast, TrapsKept
  <2>2. IsDue(grey[k], sNow) /\ ~Expired(grey[k], sNow) => IsTrapped(addr[i])
    BY <1>1, <1>2, <1>5, <1>6 DEF AddrIsTrapped, TrapsKept
  <2>3. DueMet'
    BY <1>1, <1>2, <1>4, <1>6, <2>2 DEF DueMet
  <2>. QED  BY <2>1, <2>3 DEF CursorInv
<1>7. CASE /\ IsDue(e, sNow) /\ ~AddrIsTrapped(i)
           /\ white' = white \cup {i}
           /\ wAddr' = [wAddr EXCEPT ![i] = Promoted(e)]
           /\ \/ todoAddr' = todoAddr
              \/ wAddr[i] = None /\ todoAddr' = todoAddr \cup {i}
  <2>1. /\ wAddr'[i] = Promoted(e)
        /\ \A j \in Ips : j # i => wAddr'[j] = wAddr[j]
    BY <1>1, <1>7
  <2>2. /\ wAddr'[i] # None /\ IsPassing(wAddr'[i])
        /\ ~IsTrapped(wAddr'[i]) /\ ~Expired(wAddr'[i], sNow)
    BY <1>1, <1>7, <2>1, PromotedLasts
  <2>3. ~IsTrapped(wAddr[i])
    BY <1>7 DEF AddrIsTrapped
  <2>4. TrapsMet'
    <3>1. \A j \in Ips : j # i => (j \in todoAddr' <=> j \in todoAddr)
      BY <1>7
    <3>. QED  BY <1>1, <1>2, <2>1, <2>2, <2>3, <3>1 DEF TrapsMet
  <2>5. WhitesLast'
    BY <1>1, <1>2, <1>7, <2>1, <2>2 DEF WhitesLast
  <2>6. TrapsKept'
    <3>1. IsTrapped(addr[i]) => Expired(addr[i], sNow)
      BY <1>1, <1>2, <2>3 DEF TrapsKept
    <3>. QED  BY <1>1, <1>2, <2>1, <2>2, <3>1 DEF TrapsKept
  <2>7. DueMet'
    BY <1>1, <1>2, <1>4, <1>5, <2>1, <2>2 DEF DueMet
  <2>. QED  BY <2>4, <2>5, <2>6, <2>7 DEF CursorInv
<1>8. \/ /\ UNCHANGED <<wAddr, white, todoAddr>>
         /\ Expired(e, sNow) \/ ~(IsDue(e, sNow) /\ ~AddrIsTrapped(i))
      \/ /\ IsDue(e, sNow) /\ ~AddrIsTrapped(i)
         /\ white' = white \cup {i}
         /\ wAddr' = [wAddr EXCEPT ![i] = Promoted(e)]
         /\ \/ todoAddr' = todoAddr
            \/ wAddr[i] = None /\ todoAddr' = todoAddr \cup {i}
  BY DEF VisitTuple
<1>. QED  BY <1>6, <1>7, <1>8

LEMMA NextKeepsScan ==
    ASSUME TypeOK, Exclusive => LockHeld, ScanInv, [Next]_vars
    PROVE  ScanInv'
<1>1. Phase'
  BY NextKeepsPhase DEF ScanInv
<1>2. CursorInv'
  <2>1. CASE Others \/ UNCHANGED vars
    <3>1. UNCHANGED scanVars
      BY <2>1, OthersLeaveScan
    <3>2. CASE sPc = "txn"
      <4>1. UNCHANGED <<addr, grey>>
        BY <2>1, <3>2, CursorIsAlone DEF ScanInv, Phase, Exclusive
      <4>. QED
        BY <3>1, <4>1 DEF ScanInv, CursorInv, scanVars, TrapsMet, WhitesLast,
           TrapsKept, DueMet
    <3>. QED  BY <3>1, <3>2 DEF CursorInv, scanVars
  <2>2. CASE BdbScanStep
    BY <2>2, OpenStartsCursor, VisitAddrKeepsCursor, VisitTupleKeepsCursor
       DEF BdbScanStep, ScanCommit, ScanInv, CursorInv
  <2>3. CASE ScanClock \/ SqlScanStep \/ ScanPublish
    BY <2>3 DEF ScanClock, SqlScanStep, ScanSqlite, ScanPostgresql,
       ScanMysqlDelete, ScanMysqlUpdate, ScanPublish, CursorInv
  <2>4. CASE ScanFault \/ Restart
    BY <2>4 DEF ScanFault, Restart, CursorInv
  <2>. QED  BY <2>1, <2>2, <2>3, <2>4 DEF Next, ScanStep, Fault, Others
<1>. QED  BY <1>1, <1>2 DEF ScanInv
----------------------------------------------------------------------------
(* The steps of the SQL drivers. *)

LEMMA ScanEndsBy ==
    ASSUME TypeOK, [Next]_vars, ScanEnds
    PROVE  ScanCommit \/ ScanSqlite \/ ScanPostgresql \/ ScanMysqlUpdate
<1>1. ~(Others \/ UNCHANGED vars)
  BY OthersLeaveScan DEF ScanEnds, scanVars
<1>2. ~(ScanFault \/ Restart)
  BY DEF ScanEnds, ScanFault, Restart
<1>3. ScanStep
  BY <1>1, <1>2 DEF Next, Fault, Others
<1>4. ~(ScanClock \/ ScanOpen \/ ScanPublish \/ ScanMysqlDelete)
  BY DEF ScanEnds, ScanClock, ScanOpen, ScanPublish, ScanMysqlDelete
<1>5. ASSUME \/ \E i \in Ips : VisitAddr(i)
             \/ \E k \in Tuples : VisitTuple(k)
      PROVE  FALSE
  BY <1>5 DEF ScanEnds, VisitAddr, VisitTuple
<1>. QED  BY <1>3, <1>4, <1>5 DEF ScanStep, BdbScanStep, SqlScanStep

\* NOT IN: an address that has an entry keeps it.
LEMMA SqlWriteKeeps ==
    ASSUME TypeOK, NEW d, NEW t, NEW w \in Winners(d, t), NEW losersGo,
           SqlWrite(d, t, w, losersGo),
           NEW i \in Ips, addr[i] # None, ~Expired(addr[i], d)
    PROVE  addr'[i] = addr[i]
<1>1. Swept(addr, d)[i] = addr[i]
  BY DEF Swept, TypeOK, TypeDb
<1>2. w[i] = None
  BY <1>1 DEF Winners, DueRcpts
<1>. QED  BY <1>1, <1>2 DEF SqlWrite

\* The statement gives the address of a due tuple an entry, if it has none.
LEMMA SqlWritePromotes ==
    ASSUME TypeOK, NEW d, NEW t, NEW w \in Winners(d, t), NEW losersGo,
           SqlWrite(d, t, w, losersGo),
           NEW k \in Tuples, IsDue(grey[k], t), ~Expired(grey[k], d)
    PROVE  addr'[k[1]] # None
<1>1. PICK i \in Ips, r \in Rcpts : k = <<i, r>>
  BY DEF Tuples
<1>2. Swept(grey, d)[k] = grey[k]
  BY DEF Swept, TypeOK, TypeDb
<1>3. CASE Swept(addr, d)[i] # None
  <2>1. w[i] = None
    BY <1>3 DEF Winners, DueRcpts
  <2>. QED  BY <1>1, <1>3, <2>1 DEF SqlWrite
<1>4. CASE Swept(addr, d)[i] = None
  <2>1. r \in DueRcpts(d, t, i)
    BY <1>1, <1>2, <1>4 DEF DueRcpts
  <2>2. w[i] \in DueRcpts(d, t, i)
    BY <2>1 DEF Winners
  <2>3. w[i] \in Rcpts /\ IsDue(Swept(grey, d)[<<i, w[i]>>], t)
    BY <1>4, <2>2 DEF DueRcpts
  <2>4. w[i] # None
    BY <2>3, GreylisterAssumption
  <2>5. <<i, w[i]>> \in Tuples
    BY <2>3 DEF Tuples
  <2>6. grey[<<i, w[i]>>] \in Entry
    BY <2>3, <2>5 DEF IsDue, IsPassing, Swept, TypeOK, TypeDb, MaybeEntry
  <2>7. Promoted(grey[<<i, w[i]>>]) # None
    BY <2>6, PromotedType, ConstantsAssumption DEF TypeOK, TypeScan
  <2>. QED  BY <1>1, <2>4, <2>7 DEF SqlWrite
<1>. QED  BY <1>3, <1>4

\* What every scan of an SQL driver does, unless postgresql finds a clash.
SqlScan(d, t) ==
    /\ \E w \in Winners(d, t), losersGo \in BOOLEAN : SqlWrite(d, t, w, losersGo)
    /\ SqlLists

LEMMA SqlScanEnds ==
    ASSUME TypeOK, Phase, ScanSqlite \/ ScanPostgresql \/ ScanMysqlUpdate
    PROVE  \/ \E d, t \in Nat : sNow <= t /\ d <= now /\ SqlScan(d, t)
           \/ /\ driver = "postgresql" /\ UNCHANGED addr
              /\ white' = {} /\ trapped' = {}
<1>. sNow \in Nat /\ sSwept \in Nat /\ now \in Nat /\ sNow <= now /\ sSwept <= now
  BY DEF TypeOK, TypeScan, TypeHistory, Phase
<1>1. CASE ScanSqlite
  <2>1. SqlScan(sNow, sNow)
    BY <1>1 DEF ScanSqlite, SqlScan
  <2>. QED  BY <2>1
<1>2. CASE ScanPostgresql
  <2>1. CASE SqlScan(now, now)
    BY <2>1
  <2>2. CASE UNCHANGED <<addr, white, trapped>>
    BY <1>2, <2>2 DEF ScanPostgresql, Phase
  <2>. QED  BY <1>2, <2>1, <2>2 DEF ScanPostgresql, SqlScan
<1>3. CASE ScanMysqlUpdate
  <2>1. SqlScan(sSwept, now)
    BY <1>3 DEF ScanMysqlUpdate, SqlScan
  <2>. QED  BY <2>1
<1>. QED  BY <1>1, <1>2, <1>3

----------------------------------------------------------------------------
(* The promises of a scan. *)

LEMMA ScanInvariance == Spec => []ScanInv
<1>. DEFINE Inv == (Exclusive => LockHeld) /\ ScanInv
<1>1. Init => Inv
  BY DEF Init, LockHeld, ScanInv, Phase, CursorInv
<1>2. TypeOK /\ Inv /\ [Next]_vars => Inv'
  BY NextKeepsLock, NextKeepsScan, DriverStays DEF Exclusive
<1>3. Inv => ScanInv
  OBVIOUS
<1>. QED  BY <1>1, <1>2, <1>3, TypeInvariance, PTL DEF Spec

\* However the cursor of bdb met the keys, and with every SQL driver: the trap
\* list a scan hands to the main daemon is exactly the greytraps of the
\* database it commits, and all it hands to the firewall is whitelisted there.
THEOREM ListsMatchDatabase == Spec => ListsMatchDb
<1>1. TypeOK /\ ScanInv /\ [Next]_vars =>
        [ScanEnds /\ (driver = "postgresql" => trapped' # {}) =>
           /\ trapped' = {i \in Ips : IsTrapped(addr'[i])}
           /\ \A i \in white' : IsPassing(addr'[i])]_vars
  <2>. SUFFICES ASSUME TypeOK, ScanInv, [Next]_vars, ScanEnds,
                       driver = "postgresql" => trapped' # {}
                PROVE  /\ trapped' = {i \in Ips : IsTrapped(addr'[i])}
                       /\ \A i \in white' : IsPassing(addr'[i])
    OBVIOUS
  <2>1. CASE ScanCommit
    <3>1. TrapsMet /\ WhitesLast /\ todoAddr = {} /\ addr' = wAddr
      BY <2>1 DEF ScanCommit, ScanInv, CursorInv
    <3>2. UNCHANGED <<white, trapped>> /\ trapped \subseteq Ips
      BY <2>1 DEF ScanCommit, TypeOK, TypeScan
    <3>3. trapped' = {i \in Ips : IsTrapped(addr'[i])}
      BY <3>1, <3>2 DEF TrapsMet
    <3>4. \A i \in white' : IsPassing(addr'[i])
      BY <3>1, <3>2 DEF WhitesLast
    <3>. QED  BY <3>3, <3>4
  <2>2. CASE ScanSqlite \/ ScanPostgresql \/ ScanMysqlUpdate
    BY <2>2, SqlScanEnds DEF ScanInv, SqlScan, SqlLists
  <2>. QED  BY <2>1, <2>2, ScanEndsBy
<1>. QED  BY <1>1, TypeInvariance, ScanInvariance, PTL DEF Spec, ListsMatchDb

\* No scan of any driver lifts a greytrap that is still running, or hands its
\* address to the firewall, even when a tuple of the address is due.
THEOREM TrapsAreKept == Spec => ScanKeepsTraps
<1>1. TypeOK /\ ScanInv /\ [Next]_vars =>
        [ScanEnds => \A i \in Ips :
           (IsTrapped(addr[i]) /\ addr[i].expire > now)
               => addr'[i] = addr[i] /\ i \notin white']_vars
  <2>. SUFFICES ASSUME TypeOK, ScanInv, [Next]_vars, ScanEnds,
                       NEW i \in Ips, IsTrapped(addr[i]), addr[i].expire > now
                PROVE  addr'[i] = addr[i] /\ i \notin white'
    OBVIOUS
  <2>1. /\ addr[i] \in Entry /\ addr[i].expire \in Nat
        /\ now \in Nat /\ sNow \in Nat /\ sNow <= now
    BY DEF TypeOK, TypeDb, TypeScan, TypeHistory, MaybeEntry, Entry, IsTrapped,
       ScanInv, Phase
  <2>2. addr[i] # None /\ ~IsPassing(addr[i])
    BY DEF IsTrapped, IsPassing, Trapped, Passing
  <2>3. \A d \in Nat : d <= now => ~Expired(addr[i], d)
    BY <2>1 DEF Expired
  <2>4. CASE ScanCommit
    <3>1. WhitesLast /\ TrapsKept /\ addr' = wAddr /\ white' = white
      BY <2>4 DEF ScanCommit, ScanInv, CursorInv
    <3>2. wAddr[i] = addr[i]
      BY <2>1, <2>3, <3>1 DEF TrapsKept
    <3>. QED  BY <2>2, <3>1, <3>2 DEF WhitesLast
  <2>5. ASSUME NEW d \in Nat, NEW t \in Nat, d <= now, SqlScan(d, t)
        PROVE  addr'[i] = addr[i] /\ i \notin white'
    <3>1. addr'[i] = addr[i]
      BY <2>2, <2>3, <2>5, SqlWriteKeeps DEF SqlScan
    <3>. QED  BY <2>2, <2>5, <3>1 DEF SqlScan, SqlLists
  <2>6. CASE ScanSqlite \/ ScanPostgresql \/ ScanMysqlUpdate
    BY <2>5, <2>6, SqlScanEnds DEF ScanInv
  <2>. QED  BY <2>4, <2>6, ScanEndsBy
<1>. QED  BY <1>1, TypeInvariance, ScanInvariance, PTL DEF Spec, ScanKeepsTraps

\* With every driver but postgresql, a host that retries gets what greyd(8)
\* promises: after a scan the address of each due tuple has an entry.
THEOREM RetriedArePromoted == Spec => ScanPromotesRetried
<1>1. TypeOK /\ ScanInv /\ [Next]_vars =>
        [driver # "postgresql" => RetriedPromoted]_vars
  <2>. SUFFICES ASSUME TypeOK, ScanInv, [Next]_vars, ScanEnds,
                       driver # "postgresql", NEW k \in Tuples,
                       IsDue(grey[k], sNow), ~Expired(grey[k], now)
                PROVE  addr'[k[1]] # None \/ IsTrapped(addr[k[1]])
    BY DEF RetriedPromoted
  <2>1. /\ grey[k] \in Entry /\ grey[k].expire \in Nat /\ grey[k].pass \in Nat
        /\ now \in Nat /\ sNow \in Nat /\ sNow <= now
    BY DEF TypeOK, TypeDb, TypeScan, TypeHistory, MaybeEntry, Entry, IsDue,
       IsPassing, ScanInv, Phase
  <2>2. \A d \in Nat : d <= now => ~Expired(grey[k], d)
    BY <2>1 DEF Expired
  <2>3. \A t \in Nat : sNow <= t => IsDue(grey[k], t)
    BY <2>1 DEF IsDue
  <2>4. CASE ScanCommit
    <3>1. DueMet /\ todoGrey = {} /\ addr' = wAddr
      BY <2>4 DEF ScanCommit, ScanInv, CursorInv
    <3>. QED  BY <2>1, <2>2, <3>1 DEF DueMet
  <2>5. CASE ScanSqlite \/ ScanPostgresql \/ ScanMysqlUpdate
    <3>1. PICK d \in Nat, t \in Nat : sNow <= t /\ d <= now /\ SqlScan(d, t)
      BY <2>5, SqlScanEnds DEF ScanInv
    <3>2. IsDue(grey[k], t) /\ ~Expired(grey[k], d)
      BY <2>2, <2>3, <3>1
    <3>. QED  BY <3>1, <3>2, SqlWritePromotes DEF SqlScan
  <2>. QED  BY <2>4, <2>5, ScanEndsBy
<1>. QED  BY <1>1, TypeInvariance, ScanInvariance, PTL DEF Spec, ScanPromotesRetried
=============================================================================
