-------------------------- MODULE GreyEntriesProofs --------------------------
(* What the updates of a database entry return, for every entry and time. *)
EXTENDS GreyEntries, TLAPS

LEMMA TimesAreNaturals ==
    /\ PassTime \in Nat
    /\ GreyExp \in Nat
    /\ TrapExp \in Nat
    /\ WhiteExp \in Nat
BY ConstantsAssumption

LEMMA EntryExcept ==
    ASSUME NEW e \in Entry, NEW p \in Nat, NEW x \in Nat,
           NEW pc \in {Trapped, Passing}
    PROVE  /\ [e EXCEPT !.expire = x, !.pcount = pc] \in Entry
           /\ [e EXCEPT !.pcount = pc, !.expire = x] \in Entry
           /\ [e EXCEPT !.pass = p, !.expire = x, !.pcount = pc] \in Entry
BY DEF Entry

LEMMA GreyUpdateType ==
    ASSUME NEW e \in MaybeEntry, NEW t \in Nat, NEW life \in Nat,
           NEW pc \in {Trapped, Passing}
    PROVE  GreyUpdate(e, t, life, pc) \in Entry
<1>1. NewGreyEntry(t, life, pc) \in Entry
  BY DEF NewGreyEntry, Entry
<1>2. ASSUME e \in Entry
      PROVE  SeenGreyEntry(e, t, pc) \in Entry
  BY <1>2 DEF SeenGreyEntry, Entry
<1>. QED  BY <1>1, <1>2 DEF GreyUpdate, MaybeEntry

LEMMA NonGreyUpdateType ==
    ASSUME NEW e \in MaybeEntry, NEW t \in Nat, NEW x \in Nat,
           NEW spamtrap \in BOOLEAN, NEW delete \in BOOLEAN
    PROVE  NonGreyUpdate(e, t, spamtrap, x, delete) \in MaybeEntry
BY DEF NonGreyUpdate, MaybeEntry, Entry

LEMMA SpfPassEntryType ==
    ASSUME NEW t \in Nat
    PROVE  SpfPassEntry(t) \in Entry
BY TimesAreNaturals DEF SpfPassEntry, Entry

LEMMA GreylogdUpdateType ==
    ASSUME NEW e \in MaybeEntry, NEW t \in Nat
    PROVE  GreylogdUpdate(e, t) \in Entry
<1>1. t + WhiteExp \in Nat
  BY TimesAreNaturals
<1>2. CASE e = None
  BY <1>1, <1>2 DEF GreylogdUpdate, Entry
<1>3. CASE e \in Entry /\ e # None
  BY <1>1, <1>3, EntryExcept DEF GreylogdUpdate
<1>. QED  BY <1>2, <1>3 DEF MaybeEntry

LEMMA GreydbUpdateType ==
    ASSUME NEW e \in MaybeEntry, NEW t \in Nat, NEW traphit \in BOOLEAN
    PROVE  GreydbUpdate(e, t, traphit) \in Entry
<1>. DEFINE new == [first |-> t, pass |-> 0, expire |-> 0, pcount |-> Passing]
            old == IF e = None THEN new ELSE e
<1>1. new \in Entry
  BY DEF Entry
<1>2. old \in Entry
  BY <1>1 DEF MaybeEntry
<1>. HIDE DEF old
<1>t. t + TrapExp \in Nat /\ t + WhiteExp \in Nat
  BY TimesAreNaturals
<1>3. [old EXCEPT !.expire = t + TrapExp, !.pcount = Trapped] \in Entry
  BY <1>2, <1>t, EntryExcept
<1>4. [old EXCEPT !.pass = t, !.expire = t + WhiteExp, !.pcount = Passing] \in Entry
  BY <1>2, <1>t, EntryExcept
<1>. QED  BY <1>3, <1>4 DEF GreydbUpdate, old

\* A trap that a delivery sets is never a passing entry.
LEMMA GreyTrapIsNotPassing ==
    ASSUME NEW e \in MaybeEntry, NEW t \in Nat, NEW life \in Nat
    PROVE  ~IsPassing(GreyUpdate(e, t, life, Trapped))
<1>1. GreyUpdate(e, t, life, Trapped).pcount = Trapped
  BY DEF GreyUpdate, NewGreyEntry, SeenGreyEntry, MaybeEntry, Entry
<1>. QED  BY <1>1 DEF IsPassing, Trapped, Passing
=============================================================================
