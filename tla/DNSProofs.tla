------------------------------ MODULE DNSProofs -----------------------------
(***************************************************************************)
(* Proofs about the two parts of the DNS that keep tables in the cache     *)
(* file: the store of fake addresses, for every set of domains and         *)
(* callers, all ranges and any number of restarts, and the cache of the    *)
(* client, for any queries, flushing goroutines and answers.               *)
(***************************************************************************)
EXTENDS FakeIP, DNSCache, TLAPS

(* An address belongs to the family of every range it lies in. *)
LEMMA FamilyOfRange ==
    ASSUME NEW c \in Configs, NEW f \in Families, NEW a \in Within(c[f])
    PROVE  a \in Addresses /\ FamilyOf(a) = f
<1>1. a \in Addresses
  BY DEF Addresses
<1>2. ASSUME NEW g \in Families, NEW d \in Configs, a \in Within(d[g]) PROVE g = f
  <2>1. Within(c["4"]) \cap Within(d["6"]) = {} /\ Within(d["4"]) \cap Within(c["6"]) = {}
    BY ConfigsAssumption, Zenon
  <2>2. (f = "4" \/ f = "6") /\ (g = "4" \/ g = "6")
    BY Zenon DEF Families
  <2> QED BY <1>2, <2>1, <2>2
<1>3. \E g \in Families : \E d \in Configs : a \in Within(d[g])
  BY Zenon
<1>4. FamilyOf(a) \in Families /\ \E d \in Configs : a \in Within(d[FamilyOf(a)])
  BY <1>3, Zenon DEF FamilyOf
<1> QED BY <1>1, <1>2, <1>4, Zenon

(* 0 is no address, and every address has a family. *)
LEMMA AddressesPositive ==
    /\ 0 \notin Addresses
    /\ \A a \in Addresses : FamilyOf(a) \in Families
<1>1. ASSUME NEW a \in Addresses PROVE a # 0 /\ FamilyOf(a) \in Families
  <2>1. PICK c \in Configs, f \in Families : a \in Within(c[f])
    BY <1>1 DEF Addresses
  <2>2. FamilyOf(a) = f
    BY <2>1, FamilyOfRange, Zenon
  <2>3. c[f].first \in Nat /\ c[f].last \in Nat /\ (Valid(c[f]) => c[f].first > 0)
    BY ConfigsAssumption, Zenon
  <2> QED BY <2>1, <2>2, <2>3 DEF Within, Valid
<1> QED BY <1>1, Zenon

(* A turn is in its range: after the first two addresses of the range or   *)
(* on the second, and before the last.                                     *)
TurnOK(c, cur) ==
    /\ cur \in [Families -> Addresses \cup {0}]
    /\ \A f \in Families :
         IF Valid(c[f]) THEN cur[f] \in c[f].first + 1 .. c[f].last - 1 ELSE cur[f] = 0

(* What is saved, or will be, is a turn of the current configuration. *)
SaveOK(m) == m = NoMetadata \/ \E cur : m = <<config, cur>> /\ TurnOK(config, cur)

(* A table of a family holds addresses of that family. *)
OwnFamily ==
    \A f \in Families, d \in Domains : addressOf[f][d] # 0 => FamilyOf(addressOf[f][d]) = f

(* The inductive invariant: the turn and its saved copies are in range,    *)
(* callers ask for configured families only, and the table holds usable    *)
(* addresses unless the last reset failed.                                 *)
Inv ==
    /\ TypeOK
    /\ phase # "stopped" => TurnOK(config, current)
    /\ SaveOK(metadata) /\ SaveOK(timer.saves)
    /\ \A p \in Callers : asking[p] # <<>> => phase = "running" /\ Valid(config[asking[p][2]])
    /\ TablesAgree /\ OwnFamily
    /\ ~resetFailed => \A f \in Families, d \in Domains : addressOf[f][d] \in Usable(config, f) \cup {0}
    /\ GivenUsable

(* The next address is usable: never the network address, the one after    *)
(* it, or the broadcast address.                                           *)
LEMMA NextUsable ==
    ASSUME NEW f \in Families, config \in Configs, TurnOK(config, current), Valid(config[f])
    PROVE  /\ NextAddress(f) \in Usable(config, f)
           /\ NextAddress(f) \in Within(config[f])
           /\ NextAddress(f) \in Addresses /\ FamilyOf(NextAddress(f)) = f
<1>1. /\ config[f].first \in Nat /\ config[f].last \in Nat
      /\ config[f].first > 0 /\ config[f].last >= config[f].first + 3
  BY ConfigsAssumption, Zenon
<1>2. current[f] \in config[f].first + 1 .. config[f].last - 1
  BY Zenon DEF TurnOK
<1>3. NextAddress(f) \in Usable(config, f) /\ NextAddress(f) \in Within(config[f])
  BY <1>1, <1>2 DEF NextAddress, Usable, Within
<1> QED BY <1>3, FamilyOfRange, Zenon

(* The first turn of a configuration is in range. *)
LEMMA FirstTurn ==
    ASSUME NEW c \in Configs
    PROVE  TurnOK(c, [f \in Families |-> FirstOf(c, f)])
<1>1. ASSUME NEW f \in Families, Valid(c[f])
      PROVE  FirstOf(c, f) \in c[f].first + 1 .. c[f].last - 1 /\ FirstOf(c, f) \in Addresses
  <2>1. c[f].first \in Nat /\ c[f].last \in Nat /\ c[f].last >= c[f].first + 3
    BY <1>1, ConfigsAssumption, Zenon
  <2>2. FirstOf(c, f) \in Within(c[f])
    BY <1>1, <2>1 DEF FirstOf, Within
  <2> QED BY <1>1, <2>1, <2>2, FamilyOfRange DEF FirstOf
<1> QED BY <1>1, Zenon DEF TurnOK, FirstOf

(* FakeIPReset leaves agreeing tables, which are empty unless it failed. *)
LEMMA ResetSteps ==
    ASSUME TypeOK, TablesAgree, OwnFamily, FakeIPReset
    PROVE  /\ domainOf' \in [Addresses -> Domains \cup {None}]
           /\ addressOf' \in [Families -> [Domains -> Addresses \cup {0}]]
           /\ resetFailed' \in BOOLEAN
           /\ TablesAgree' /\ OwnFamily'
           /\ ~resetFailed' => \A f \in Families, d \in Domains : addressOf'[f][d] = 0
<1>1. CASE ResetWorks
  <2>1. domainOf' = EmptyDomains /\ addressOf' = EmptyAddresses /\ resetFailed' = FALSE
    BY <1>1, Zenon DEF FakeIPReset
  <2>2. TablesAgree'
    BY <2>1, AddressesPositive, ConfigsAssumption, Zenon DEF TablesAgree, EmptyDomains, EmptyAddresses
  <2> QED BY <2>1, <2>2, Zenon DEF EmptyDomains, EmptyAddresses, OwnFamily
<1>2. CASE ~ResetWorks
  <2>1. domainOf' = domainOf /\ addressOf' = addressOf /\ resetFailed' = (domainOf # EmptyDomains)
    BY <1>2, Zenon DEF FakeIPReset
  <2>2. TablesAgree' /\ OwnFamily'
    BY <2>1, Zenon DEF TablesAgree, OwnFamily
  <2>3. ASSUME ~resetFailed', NEW f \in Families, NEW d \in Domains PROVE addressOf'[f][d] = 0
    <3> SUFFICES ASSUME addressOf[f][d] # 0 PROVE FALSE
      BY <2>1, Zenon
    <3>1. domainOf = EmptyDomains
      BY <2>1, <2>3, Zenon
    <3>2. addressOf[f][d] \in Addresses /\ FamilyOf(addressOf[f][d]) = f
      BY <2>3 DEF TypeOK, OwnFamily
    <3>3. domainOf[addressOf[f][d]] = d
      BY <2>3, <3>2 DEF TablesAgree
    <3>4. domainOf[addressOf[f][d]] = None
      BY <3>1, <3>2, Zenon DEF EmptyDomains
    <3> QED BY <2>3, <3>3, <3>4, ConfigsAssumption, Zenon
  <2> QED BY <2>1, <2>2, <2>3, Zenon DEF TypeOK
<1> QED BY <1>1, <1>2, Zenon

(* An address that is given to a domain is taken from its old domain, in   *)
(* both tables.                                                            *)
LEMMA StoreSteps ==
    ASSUME TypeOK, TablesAgree, OwnFamily, NEW f \in Families, NEW d \in Domains, addressOf[f][d] = 0,
           NEW a \in Addresses, FamilyOf(a) = f, FakeIPStore(f, d, a)
    PROVE  /\ domainOf' \in [Addresses -> Domains \cup {None}]
           /\ addressOf' \in [Families -> [Domains -> Addresses \cup {0}]]
           /\ TablesAgree' /\ OwnFamily'
           /\ addressOf'[f][d] = a /\ \A e \in Domains \ {d} : addressOf'[f][e] \in {0, addressOf[f][e]}
           /\ \A g \in Families \ {f}, e \in Domains : addressOf'[g][e] = addressOf[g][e]
<1>1. /\ addressOf'[f] = Reassigned(f, d, a)
      /\ \A g \in Families \ {f} : addressOf'[g] = addressOf[g]
      /\ \A e \in Domains : addressOf'[f][e] = IF e = d THEN a ELSE IF e = domainOf[a] THEN 0 ELSE addressOf[f][e]
  BY Zenon DEF TypeOK, Reassigned, FakeIPStore
<1>2. Reassigned(f, d, a) \in [Domains -> Addresses \cup {0}]
  BY DEF TypeOK, Reassigned
<1>3. domainOf' \in [Addresses -> Domains \cup {None}] /\ addressOf' \in [Families -> [Domains -> Addresses \cup {0}]]
  BY <1>2, Zenon DEF TypeOK, FakeIPStore
<1>4. domainOf'[a] = d /\ \A b \in Addresses \ {a} : domainOf'[b] = domainOf[b]
  BY Zenon DEF TypeOK, FakeIPStore
<1>5. ASSUME NEW b \in Addresses, NEW e \in Domains
      PROVE  domainOf'[b] = e <=> addressOf'[FamilyOf(b)][e] = b
  <2>1. FamilyOf(b) \in Families /\ b # 0 /\ a # 0
    BY AddressesPositive, Zenon
  <2>2. domainOf[b] = e <=> addressOf[FamilyOf(b)][e] = b
    BY Zenon DEF TablesAgree
  <2>3. CASE FamilyOf(b) # f
    BY <1>1, <1>4, <2>1, <2>2, <2>3, Zenon
  <2>4. CASE b = a
    <3>1. domainOf[a] = e <=> addressOf[f][e] = a
      BY <2>2, <2>4, Zenon
    <3> QED BY <1>1, <1>4, <2>1, <2>4, <3>1, Zenon
  <2>5. CASE FamilyOf(b) = f /\ b # a
    <3>1. CASE e = d
      BY <1>1, <1>4, <2>1, <2>2, <2>5, <3>1, Zenon
    <3>2. CASE e # d /\ e = domainOf[a]
      <4>1. addressOf[f][e] = a
        BY <3>2, Zenon DEF TablesAgree
      <4> QED BY <1>1, <1>4, <2>1, <2>2, <2>5, <3>2, <4>1, Zenon
    <3>3. CASE e # d /\ e # domainOf[a]
      BY <1>1, <1>4, <2>1, <2>2, <2>5, <3>3, Zenon
    <3> QED BY <3>1, <3>2, <3>3, Zenon
  <2> QED BY <2>3, <2>4, <2>5, Zenon
<1>6. TablesAgree'
  BY <1>5, Zenon DEF TablesAgree
<1>7. OwnFamily'
  <2>1. ASSUME NEW g \in Families, NEW e \in Domains, addressOf'[g][e] # 0
        PROVE  FamilyOf(addressOf'[g][e]) = g
    BY <1>1, <2>1 DEF OwnFamily
  <2> QED BY <2>1, Zenon DEF OwnFamily
<1> QED BY <1>1, <1>3, <1>6, <1>7, Zenon

(* A first start finds an empty table. *)
LEMMA InitInv == Init => Inv
<1> SUFFICES ASSUME Init PROVE Inv
  BY Zenon
<1>1. TypeOK
  BY Zenon DEF Init, TypeOK, EmptyDomains, EmptyAddresses, NotAsking
<1>2. TablesAgree
  BY AddressesPositive, ConfigsAssumption, Zenon DEF Init, TablesAgree, EmptyDomains, EmptyAddresses
<1>3. OwnFamily /\ \A f \in Families, d \in Domains : addressOf[f][d] = 0
  BY Zenon DEF Init, OwnFamily, EmptyAddresses
<1>4. SaveOK(metadata) /\ SaveOK(timer.saves)
  BY Zenon DEF Init, SaveOK, NoTimer
<1>5. \A p \in Callers : asking[p] = <<>>
  BY Zenon DEF Init, NotAsking
<1>6. GivenUsable
  BY Zenon DEF Init, GivenUsable, NoAnswer
<1> QED BY <1>1, <1>2, <1>3, <1>4, <1>5, <1>6, Zenon DEF Inv, Init

(* A start continues with a saved turn or begins anew. *)
LEMMA StartInv == ASSUME Inv, NEW c \in Configs, Start(c) PROVE Inv'
<1>1. CASE SameRanges(c)
  <2>1. /\ config' = c /\ phase' = "running" /\ current' = metadata[2] /\ metadata' = NoMetadata
        /\ UNCHANGED <<domainOf, addressOf, resetFailed, asking>>
        /\ timer' = NoTimer /\ answer' = NoAnswer
    BY <1>1, Zenon DEF Start, TakeMetadata
  <2>2. PICK cur : metadata = <<config, cur>> /\ TurnOK(config, cur)
    BY <1>1, Zenon DEF SameRanges, Inv, SaveOK
  <2>3. config' = config /\ TurnOK(config, current')
    BY <1>1, <2>1, <2>2, Zenon DEF SameRanges
  <2>4. TurnOK(config, current)'
    BY <2>3, Zenon DEF TurnOK
  <2>5. SaveOK(metadata)' /\ SaveOK(timer.saves)'
    BY <2>1, Zenon DEF SaveOK, NoTimer
  <2>6. TablesAgree' /\ OwnFamily' /\ TypeOK'
    BY <2>1 DEF Inv, TablesAgree, OwnFamily, TypeOK
  <2>7. GivenUsable'
    BY <2>1, Zenon DEF GivenUsable, NoAnswer
  <2>8. ~resetFailed' =>
           \A f \in Families, d \in Domains : addressOf'[f][d] \in Usable(config', f) \cup {0}
    BY <2>1, <2>3, Zenon DEF Inv
  <2>9. \A p \in Callers : asking'[p] # <<>> => phase' = "running" /\ Valid(config'[asking'[p][2]])
    BY <2>1, <2>3, Zenon DEF Inv
  <2> QED BY <2>4, <2>5, <2>6, <2>7, <2>8, <2>9, Zenon DEF Inv
<1>2. CASE ~SameRanges(c)
  <2>1. /\ config' = c /\ phase' = "running" /\ current' = [f \in Families |-> FirstOf(c, f)]
        /\ metadata' = NoMetadata /\ timer' = NoTimer /\ answer' = NoAnswer /\ asking' = asking
        /\ FakeIPReset
    BY <1>2, Zenon DEF Start, TakeMetadata
  <2>2. phase = "stopped"
    BY Zenon DEF Start, TakeMetadata
  <2>3. TurnOK(config', current')
    BY <2>1, FirstTurn, Zenon
  <2>4. SaveOK(metadata)' /\ SaveOK(timer.saves)'
    BY <2>1, Zenon DEF SaveOK, NoTimer
  <2>5. /\ domainOf' \in [Addresses -> Domains \cup {None}]
        /\ addressOf' \in [Families -> [Domains -> Addresses \cup {0}]]
        /\ resetFailed' \in BOOLEAN /\ TablesAgree' /\ OwnFamily'
        /\ ~resetFailed' => \A f \in Families, d \in Domains : addressOf'[f][d] = 0
    BY <2>1, ResetSteps, Zenon DEF Inv
  <2>6. TypeOK'
    BY <2>1, <2>5, Zenon DEF Inv, TypeOK
  <2>7. GivenUsable'
    BY <2>1, Zenon DEF GivenUsable, NoAnswer
  <2>8. \A p \in Callers : asking'[p] = <<>>
    BY <2>1, <2>2, Zenon DEF Inv
  <2> QED BY <2>3, <2>4, <2>5, <2>6, <2>7, <2>8, Zenon DEF Inv
<1> QED BY <1>1, <1>2, Zenon

(* A known domain is answered from the table. *)
LEMMA AnswerKnown ==
    ASSUME Inv, NEW d \in Domains, NEW f \in Families, addressOf[f][d] # 0,
           answer' = [domain |-> d, family |-> f, address |-> addressOf[f][d]],
           UNCHANGED <<config, resetFailed>>
    PROVE  GivenUsable'
BY Zenon DEF Inv, GivenUsable

(* The parts of the invariant that do not depend on what is asked. *)
LEMMA Frame ==
    ASSUME Inv, UNCHANGED <<config, current, domainOf, addressOf, metadata, timer, resetFailed>>
    PROVE  /\ TurnOK(config, current) => TurnOK(config, current)'
           /\ SaveOK(metadata)' /\ SaveOK(timer.saves)'
           /\ TablesAgree' /\ OwnFamily'
           /\ (~resetFailed => \A f \in Families, d \in Domains :
                                 addressOf[f][d] \in Usable(config, f) \cup {0})'
BY DEF Inv, TurnOK, SaveOK, TablesAgree, OwnFamily

LEMMA AskInv ==
    ASSUME Inv, NEW p \in Callers, NEW d \in Domains, NEW f \in Families, Ask(p, d, f)
    PROVE  Inv'
<1>1. UNCHANGED <<config, current, domainOf, addressOf, metadata, timer, resetFailed, phase>>
  BY Zenon DEF Ask
<1>2. asking' = asking \/ asking' = [asking EXCEPT ![p] = <<d, f>>]
  BY Zenon DEF Ask
<1>3. TypeOK'
  BY <1>1, <1>2, SMTT(30) DEF Inv, TypeOK
<1>4. GivenUsable'
  <2>1. CASE addressOf[f][d] # 0
    BY <1>1, <2>1, AnswerKnown, Zenon DEF Ask
  <2>2. CASE addressOf[f][d] = 0
    BY <1>1, <2>2 DEF Ask, Inv, GivenUsable
  <2> QED BY <2>1, <2>2, Zenon
<1>5. ASSUME NEW q \in Callers, asking'[q] # <<>>
      PROVE  phase' = "running" /\ Valid(config'[asking'[q][2]])
  <2>1. asking'[q] = asking[q] \/ (asking'[q] = <<d, f>> /\ phase = "running" /\ Valid(config[f]))
    BY <1>2, Zenon DEF Ask, Inv, TypeOK
  <2> QED BY <1>1, <1>5, <2>1 DEF Inv
<1> QED BY <1>1, <1>3, <1>4, <1>5, Frame, Zenon DEF Inv

LEMMA CreateFoundInv == ASSUME Inv, NEW p \in Callers, CreateFound(p) PROVE Inv'
<1>1. UNCHANGED <<config, current, domainOf, addressOf, metadata, timer, resetFailed, phase>>
  BY Zenon DEF CreateFound
<1>2. asking' = [asking EXCEPT ![p] = <<>>] /\ asking[p] \in Domains \X Families
  BY Zenon DEF CreateFound, Inv, TypeOK
<1>3. TypeOK'
  BY <1>1, <1>2, Zenon DEF Inv, TypeOK
<1>4. GivenUsable'
  BY <1>1, <1>2, AnswerKnown, Zenon DEF CreateFound, LoadDomain
<1>5. ASSUME NEW q \in Callers, asking'[q] # <<>>
      PROVE  phase' = "running" /\ Valid(config'[asking'[q][2]])
  <2>1. asking'[q] = asking[q]
    BY <1>2, <1>5, Zenon DEF Inv, TypeOK
  <2> QED BY <1>1, <1>5, <2>1, Zenon DEF Inv
<1> QED BY <1>1, <1>3, <1>4, <1>5, Frame, Zenon DEF Inv

(* A new address: the turn moves on, and the table, if it is stored, still *)
(* agrees.                                                                 *)
LEMMA CreateNewInv == ASSUME Inv, NEW p \in Callers, CreateNew(p) PROVE Inv'
<1> DEFINE d == asking[p][1]
           f == asking[p][2]
           a == NextAddress(f)
<1>1. d \in Domains /\ f \in Families /\ phase = "running" /\ Valid(config[f])
  BY Zenon DEF CreateNew, Inv, TypeOK
<1>2. /\ a \in Usable(config, f) /\ a \in Within(config[f])
      /\ a \in Addresses /\ FamilyOf(a) = f
  BY <1>1, NextUsable, Zenon DEF Inv, TypeOK
<1>3. /\ current' = [current EXCEPT ![f] = a] /\ addressOf[f][d] = 0
      /\ asking' = [asking EXCEPT ![p] = <<>>]
      /\ UNCHANGED <<config, metadata, resetFailed, phase>>
      /\ answer' = [domain |-> d, family |-> f, address |-> a]
      /\ timer'.saves \in {timer.saves, <<config, current'>>}
  BY Zenon DEF CreateNew, LoadDomain, SetTimer
<1>4. TurnOK(config, current')
  <2>1. config[f].first \in Nat /\ config[f].last \in Nat
    BY <1>1, ConfigsAssumption, Zenon DEF Inv, TypeOK
  <2>2. a \in config[f].first + 1 .. config[f].last - 1
    BY <1>2, <2>1 DEF Usable
  <2>3. TurnOK(config, current)
    BY <1>1, Zenon DEF Inv
  <2> HIDE DEF a, f
  <2> QED BY <1>1, <1>2, <1>3, <2>2, <2>3, Zenon DEF TurnOK
<1>5. TurnOK(config, current)'
  BY <1>3, <1>4, Zenon DEF TurnOK
<1>6. SaveOK(metadata)' /\ SaveOK(timer.saves)'
  BY <1>3, <1>4, Zenon DEF SaveOK, Inv
<1>7. /\ domainOf' \in [Addresses -> Domains \cup {None}]
      /\ addressOf' \in [Families -> [Domains -> Addresses \cup {0}]]
      /\ TablesAgree' /\ OwnFamily'
      /\ ~resetFailed => \A g \in Families, e \in Domains : addressOf'[g][e] \in Usable(config, g) \cup {0}
  <2>1. CASE UNCHANGED <<domainOf, addressOf>>
    BY <2>1 DEF Inv, TypeOK, TablesAgree, OwnFamily
  <2>2. CASE FakeIPStore(f, d, a)
    <3> HIDE DEF a, f, d
    <3>1. /\ domainOf' \in [Addresses -> Domains \cup {None}]
          /\ addressOf' \in [Families -> [Domains -> Addresses \cup {0}]]
          /\ TablesAgree' /\ OwnFamily'
          /\ addressOf'[f][d] = a /\ \A e \in Domains \ {d} : addressOf'[f][e] \in {0, addressOf[f][e]}
          /\ \A g \in Families \ {f}, e \in Domains : addressOf'[g][e] = addressOf[g][e]
      <4>1. TypeOK /\ TablesAgree /\ OwnFamily
        BY Zenon DEF Inv
      <4>2. d \in Domains /\ f \in Families /\ a \in Addresses /\ FamilyOf(a) = f /\ addressOf[f][d] = 0
        BY <1>1, <1>2, <1>3, Zenon
      <4> QED BY <2>2, <4>1, <4>2, StoreSteps
    <3>2. ASSUME ~resetFailed, NEW g \in Families, NEW e \in Domains
          PROVE  addressOf'[g][e] \in Usable(config, g) \cup {0}
      BY <1>2, <3>1, <3>2 DEF Inv
    <3> QED BY <3>1, <3>2, Zenon
  <2> QED BY <2>1, <2>2, Zenon DEF CreateNew
<1>8. TypeOK'
  BY <1>3, <1>7, Zenon DEF Inv, TypeOK
<1>9. GivenUsable'
  BY <1>2, <1>3, Zenon DEF GivenUsable
<1>10. ASSUME NEW q \in Callers, asking'[q] # <<>>
       PROVE  phase' = "running" /\ Valid(config'[asking'[q][2]])
  <2>1. asking'[q] = asking[q]
    BY <1>3, <1>10, Zenon DEF Inv, TypeOK
  <2> QED BY <1>3, <1>10, <2>1, Zenon DEF Inv
<1> QED BY <1>3, <1>5, <1>6, <1>7, <1>8, <1>9, <1>10, Zenon DEF Inv

(* The invariant is inductive. *)
LEMMA NextInv == Inv /\ [Next]_vars => Inv'
<1> SUFFICES ASSUME Inv, [Next]_vars PROVE Inv'
  BY Zenon
<1>1. CASE SaveMetadata
  <2>1. /\ UNCHANGED <<config, current, domainOf, addressOf, resetFailed, phase, asking, answer>>
        /\ metadata' = timer.saves /\ timer'.saves = timer.saves
    BY <1>1 DEF SaveMetadata
  <2>2. SaveOK(metadata)' /\ SaveOK(timer.saves)'
    BY <2>1 DEF Inv, SaveOK, TurnOK
  <2> QED BY <2>1, <2>2 DEF Inv, TypeOK, TurnOK, TablesAgree, OwnFamily, GivenUsable
<1>2. CASE Reset
  <2>1. /\ UNCHANGED <<config, current, timer, phase, asking>> /\ answer' = NoAnswer /\ FakeIPReset
        /\ metadata' = metadata \/ metadata' = NoMetadata
    BY <1>2, Zenon DEF Reset
  <2>2. /\ domainOf' \in [Addresses -> Domains \cup {None}]
        /\ addressOf' \in [Families -> [Domains -> Addresses \cup {0}]]
        /\ resetFailed' \in BOOLEAN /\ TablesAgree' /\ OwnFamily'
        /\ ~resetFailed' => \A f \in Families, d \in Domains : addressOf'[f][d] = 0
    BY <2>1, ResetSteps, Zenon DEF Inv
  <2>3. SaveOK(metadata)' /\ SaveOK(timer.saves)'
    BY <2>1 DEF Inv, SaveOK, TurnOK
  <2>4. TypeOK'
    BY <2>1, <2>2, Zenon DEF Inv, TypeOK
  <2>5. GivenUsable'
    BY <2>1, Zenon DEF GivenUsable, NoAnswer
  <2> QED BY <2>1, <2>2, <2>3, <2>4, <2>5, Zenon DEF Inv, TurnOK
<1>3. CASE Close
  <2>1. /\ UNCHANGED <<config, current, domainOf, addressOf, resetFailed, asking, answer, timer>>
        /\ metadata' = metadata \/ metadata' = <<config, current>>
        /\ phase = "running" /\ phase' = "closing" /\ asking = NotAsking
    BY <1>3, Zenon DEF Close, Saved
  <2>2. SaveOK(metadata)' /\ SaveOK(timer.saves)'
    BY <2>1 DEF Inv, SaveOK, TurnOK
  <2> QED BY <2>1, <2>2 DEF Inv, TypeOK, TurnOK, TablesAgree, OwnFamily, GivenUsable, NotAsking
<1>4. CASE End
  <2>1. /\ UNCHANGED <<config, current, domainOf, addressOf, resetFailed, answer, timer, metadata>>
        /\ phase' = "stopped" /\ asking' = NotAsking
    BY <1>4, Zenon DEF End
  <2>2. TypeOK'
    BY <2>1, Zenon DEF Inv, TypeOK, NotAsking
  <2>3. GivenUsable'
    BY <2>1, Zenon DEF Inv, GivenUsable
  <2>4. \A p \in Callers : asking'[p] = <<>>
    BY <2>1, Zenon DEF NotAsking
  <2> QED BY <2>1, <2>2, <2>3, <2>4, Frame, Zenon DEF Inv
<1>5. CASE UNCHANGED vars
  <2>1. UNCHANGED <<config, current, domainOf, addressOf, metadata, timer, resetFailed, phase, asking, answer>>
    BY <1>5, Zenon DEF vars
  <2>2. TypeOK' /\ GivenUsable'
    BY <2>1, Zenon DEF Inv, TypeOK, GivenUsable
  <2> QED BY <2>1, <2>2, Frame, Zenon DEF Inv
<1> QED BY <1>1, <1>2, <1>3, <1>4, <1>5, StartInv, AskInv, CreateFoundInv, CreateNewInv, Zenon DEF Next

(* All variables the store decides on keep their types. *)
THEOREM TypeCorrect == Spec => []TypeOK
BY InitInv, NextInv, PTL DEF Spec, Inv

(* The two tables agree in every reachable state, for all ranges, any      *)
(* number of domains and callers and any sequence of restarts.             *)
THEOREM TablesCorrect == Spec => []TablesAgree
BY InitInv, NextInv, PTL DEF Spec, Inv

(* For all ranges, what Create answers is a usable address of the          *)
(* configured range, unless the last reset failed.                         *)
THEOREM AddressesCorrect == Spec => []GivenUsable
BY InitInv, NextInv, PTL DEF Spec, Inv

(***************************************************************************)
(* The order in which addresses are given.                                 *)
(***************************************************************************)
(* In a turn that is at cur, b comes no earlier than a: the addresses      *)
(* after cur were given, if at all, before those up to cur.                *)
InTurn(cur, a, b) == IF a > cur THEN b <= cur \/ a <= b ELSE b <= cur /\ a <= b

(* The addresses given in this run are the last ones of the turn. *)
OrderInv ==
    phase # "stopped" =>
        \A f \in Families : Valid(config[f]) =>
            \A a, b \in Usable(config, f) :
                <<a, a>> \in given /\ InTurn(current[f], a, b) => <<a, b>> \in given

(* The next address is the first of the turn, and becomes the last. *)
LEMMA NextFirst ==
    ASSUME Inv, NEW f \in Families, phase # "stopped", Valid(config[f])
    PROVE  LET n == NextAddress(f)
           IN  /\ n \in Usable(config, f)
               /\ \A b \in Usable(config, f) : InTurn(current[f], n, b)
               /\ \A b \in Usable(config, f) \ {n} : ~InTurn(n, n, b)
               /\ \A a, b \in Usable(config, f) \ {n} : InTurn(n, a, b) => InTurn(current[f], a, b)
<1>1. config \in Configs /\ TurnOK(config, current)
  BY Zenon DEF Inv, TypeOK
<1>2. /\ config[f].first \in Nat /\ config[f].last \in Nat
      /\ config[f].first > 0 /\ config[f].last >= config[f].first + 3
  BY <1>1, ConfigsAssumption, Zenon
<1>3. current[f] \in config[f].first + 1 .. config[f].last - 1
  BY <1>1, Zenon DEF TurnOK
<1>4. NextAddress(f) \in Usable(config, f)
  BY <1>1, NextUsable, Zenon
<1>5. \/ NextAddress(f) = current[f] + 1
      \/ NextAddress(f) = config[f].first + 2 /\ current[f] + 1 = config[f].last
  BY <1>2, <1>3 DEF NextAddress, Within
<1>6. Usable(config, f) = config[f].first + 2 .. config[f].last - 1
  BY Zenon DEF Usable
<1> HIDE DEF NextAddress, Usable
<1>7. \A b \in Usable(config, f) : InTurn(current[f], NextAddress(f), b)
  BY <1>2, <1>3, <1>5, <1>6, SMTT(30) DEF InTurn
<1>8. \A b \in Usable(config, f) \ {NextAddress(f)} : ~InTurn(NextAddress(f), NextAddress(f), b)
  BY <1>2, <1>3, <1>5, <1>6, SMTT(30) DEF InTurn
<1>9. \A a, b \in Usable(config, f) \ {NextAddress(f)} :
        InTurn(NextAddress(f), a, b) => InTurn(current[f], a, b)
  <2> SUFFICES ASSUME NEW a \in Usable(config, f) \ {NextAddress(f)},
                      NEW b \in Usable(config, f) \ {NextAddress(f)},
                      InTurn(NextAddress(f), a, b)
               PROVE  InTurn(current[f], a, b)
    BY Zenon
  <2>1. CASE NextAddress(f) = current[f] + 1
    BY <1>2, <1>3, <1>6, <2>1 DEF InTurn
  <2>2. CASE NextAddress(f) = config[f].first + 2 /\ current[f] + 1 = config[f].last
    <3>1. /\ a \in config[f].first + 2 .. config[f].last - 1 /\ a # NextAddress(f)
          /\ b \in config[f].first + 2 .. config[f].last - 1 /\ b # NextAddress(f)
      BY <1>6, Zenon
    <3>2. a > NextAddress(f) /\ b > NextAddress(f) /\ a <= current[f] /\ b <= current[f]
      BY <1>2, <1>3, <2>2, <3>1
    <3> QED BY <1>2, <1>3, <2>2, <3>1, <3>2 DEF InTurn
  <2> QED BY <1>5, <2>1, <2>2, Zenon
<1> QED BY <1>4, <1>7, <1>8, <1>9, Zenon

(* What Gave changes. *)
LEMMA GaveSteps ==
    ASSUME NEW n \in Addresses, Gave(n)
    PROVE  /\ \A a, b \in Addresses \ {n} : <<a, b>> \in given' <=> <<a, b>> \in given
           /\ \A a \in Addresses \ {n} : <<a, a>> \in given => <<a, n>> \in given'
           /\ <<n, n>> \in given'
<1> DEFINE kept == {pair \in given : pair[1] # n /\ pair[2] # n}
           others == {b \in Addresses \ {n} : <<b, b>> \in given}
           new == {<<b, n>> : b \in others \cup {n}}
<1>1. given' = kept \cup new
  BY Zenon DEF Gave
<1>2. ASSUME NEW a \in Addresses \ {n}, NEW b \in Addresses \ {n}
      PROVE  <<a, b>> \in given' <=> <<a, b>> \in given
  <2>1. <<a, b>> \notin new
    BY Zenon
  <2>2. <<a, b>> \in kept <=> <<a, b>> \in given
    BY Zenon
  <2> QED BY <1>1, <2>1, <2>2, Zenon
<1>3. ASSUME NEW a \in Addresses \ {n}, <<a, a>> \in given PROVE <<a, n>> \in given'
  BY <1>1, <1>3, Zenon
<1>4. <<n, n>> \in given'
  BY <1>1, Zenon
<1> QED BY <1>2, <1>3, <1>4, Zenon

LEMMA CreateNewOrder ==
    ASSUME Inv, OrderInv, NEW p \in Callers, CreateNew(p)
    PROVE  /\ OrderInv'
           /\ LET a == answer'.address
              IN  <<a, a>> \in given => \A b \in Usable(config, asking[p][2]) : <<a, b>> \in given
<1> DEFINE f == asking[p][2]
           n == NextAddress(f)
<1>1. f \in Families /\ phase = "running" /\ Valid(config[f]) /\ config \in Configs
  BY Zenon DEF CreateNew, Inv, TypeOK
<1>2. /\ current' = [current EXCEPT ![f] = n] /\ Gave(n) /\ answer'.address = n
      /\ UNCHANGED <<config, phase>>
  BY Zenon DEF CreateNew
<1>3. /\ n \in Usable(config, f)
      /\ \A b \in Usable(config, f) : InTurn(current[f], n, b)
      /\ \A b \in Usable(config, f) \ {n} : ~InTurn(n, n, b)
      /\ \A a, b \in Usable(config, f) \ {n} : InTurn(n, a, b) => InTurn(current[f], a, b)
  BY <1>1, NextFirst, Zenon
<1>4. \A g \in Families : Valid(config[g]) =>
            Usable(config, g) \subseteq Addresses /\ \A a \in Usable(config, g) : FamilyOf(a) = g
  <2> SUFFICES ASSUME NEW g \in Families, Valid(config[g]), NEW a \in Usable(config, g)
               PROVE  a \in Addresses /\ FamilyOf(a) = g
    BY Zenon
  <2>1. config[g].first \in Nat /\ config[g].last \in Nat
    BY <1>1, ConfigsAssumption, Zenon
  <2>2. a \in Within(config[g])
    BY <2>1 DEF Usable, Within
  <2> QED BY <1>1, <2>2, FamilyOfRange, Zenon
<1>5. n \in Addresses /\ FamilyOf(n) = f
  BY <1>1, <1>3, <1>4, Zenon
<1>6. current \in [Families -> Addresses \cup {0}]
  BY <1>1, Zenon DEF Inv, TurnOK
<1> HIDE DEF f, n
<1>7. /\ \A a, b \in Addresses \ {n} : <<a, b>> \in given' <=> <<a, b>> \in given
      /\ \A a \in Addresses \ {n} : <<a, a>> \in given => <<a, n>> \in given'
      /\ <<n, n>> \in given'
  BY <1>2, <1>5, GaveSteps, Zenon
<1>8. \A g \in Families : Valid(config[g]) =>
        \A a, b \in Usable(config, g) :
            <<a, a>> \in given /\ InTurn(current[g], a, b) => <<a, b>> \in given
  BY <1>1, Zenon DEF OrderInv
<1>9. ASSUME NEW g \in Families, Valid(config[g]), NEW a \in Usable(config, g), NEW b \in Usable(config, g),
             <<a, a>> \in given', InTurn(current'[g], a, b)
      PROVE  <<a, b>> \in given'
  <2>1. a \in Addresses /\ b \in Addresses /\ FamilyOf(a) = g /\ FamilyOf(b) = g
    BY <1>4, <1>9, Zenon
  <2>2. CASE g # f
    <3>1. a # n /\ b # n
      BY <1>5, <2>1, <2>2, Zenon
    <3>2. current'[g] = current[g]
      BY <1>1, <1>2, <1>6, <2>2, Zenon
    <3> QED BY <1>7, <1>8, <1>9, <2>1, <3>1, <3>2, Zenon
  <2>3. CASE g = f /\ a # n /\ b # n
    <3>1. InTurn(current[f], a, b)
      BY <1>1, <1>2, <1>3, <1>6, <1>9, <2>3, Zenon
    <3> QED BY <1>7, <1>8, <1>9, <2>1, <2>3, <3>1, Zenon
  <2>4. CASE g = f /\ a # n /\ b = n
    BY <1>7, <1>9, <2>1, <2>4, Zenon
  <2>5. CASE g = f /\ a = n
    <3>1. b = n
      BY <1>1, <1>2, <1>3, <1>6, <1>9, <2>5, Zenon
    <3> QED BY <1>7, <2>5, <3>1, Zenon
  <2> QED BY <2>2, <2>3, <2>4, <2>5, Zenon
<1>10. OrderInv'
  BY <1>2, <1>9, Zenon DEF OrderInv, Usable
<1>11. <<n, n>> \in given => \A b \in Usable(config, f) : <<n, b>> \in given
  BY <1>1, <1>3, <1>8, Zenon
<1> QED BY <1>2, <1>10, <1>11, Zenon DEF f

LEMMA OrderStep == Inv /\ OrderInv /\ [Next]_vars => OrderInv'
<1> SUFFICES ASSUME Inv, OrderInv, [Next]_vars PROVE OrderInv'
  BY Zenon
<1>1. ASSUME NEW c \in Configs, Start(c) PROVE OrderInv'
  BY <1>1, Zenon DEF Start, OrderInv
<1>2. ASSUME NEW p \in Callers, CreateNew(p) PROVE OrderInv'
  BY <1>2, CreateNewOrder, Zenon
<1>3. ASSUME NEW p \in Callers, NEW d \in Domains, NEW f \in Families, Ask(p, d, f) PROVE OrderInv'
  BY <1>3, Zenon DEF Ask, OrderInv
<1>4. ASSUME NEW p \in Callers, CreateFound(p) PROVE OrderInv'
  BY <1>4, Zenon DEF CreateFound, OrderInv
<1>5. CASE SaveMetadata
  BY <1>5, Zenon DEF SaveMetadata, OrderInv
<1>6. CASE Reset
  BY <1>6, Zenon DEF Reset, OrderInv
<1>7. CASE Close
  BY <1>7, Zenon DEF Close, OrderInv
<1>8. CASE End
  BY <1>8, Zenon DEF End, OrderInv
<1>9. CASE UNCHANGED vars
  BY <1>9, Zenon DEF vars, OrderInv
<1> QED BY <1>1, <1>2, <1>3, <1>4, <1>5, <1>6, <1>7, <1>8, <1>9, Zenon DEF Next

(* For all ranges, domains and callers: Store.Create gives an address      *)
(* again, to another domain, only when it has given all usable addresses   *)
(* of the family in this run, and then the one given longest ago.          *)
THEOREM OrderCorrect == Spec => OldestFirst
<1> DEFINE Oldest == \A p \in Callers : CreateNew(p) =>
             LET a == answer'.address
             IN  <<a, a>> \in given => \A b \in Usable(config, asking[p][2]) : <<a, b>> \in given
<1>1. Init => Inv /\ OrderInv
  BY InitInv, Zenon DEF Init, OrderInv
<1>2. Inv /\ OrderInv /\ [Next]_vars => (Inv /\ OrderInv)'
  BY NextInv, OrderStep, Zenon
<1>3. Inv /\ OrderInv => Oldest
  BY CreateNewOrder, Zenon
<1>4. Inv /\ OrderInv /\ [Next]_vars => [Oldest]_vars
  BY <1>3, Zenon
<1> QED BY <1>1, <1>2, <1>4, PTL DEF Spec, OldestFirst

(***************************************************************************)
(* A restart.                                                              *)
(***************************************************************************)
(* What Close saved stays until the next start or a late timer. *)
SavedInv == inFile /\ lastSave = "close" => phase # "running" /\ metadata = Saved

LEMMA SavedStep == Inv /\ SavedInv /\ [Next]_vars => SavedInv'
<1> SUFFICES ASSUME Inv, SavedInv, [Next]_vars PROVE SavedInv'
  BY Zenon
<1>1. ASSUME NEW c \in Configs, Start(c) PROVE SavedInv'
  BY <1>1, Zenon DEF Start, SavedInv
<1>2. ASSUME NEW p \in Callers, CreateNew(p) PROVE SavedInv'
  <2>1. phase = "running"
    BY <1>2, Zenon DEF CreateNew, Inv
  <2> QED BY <1>2, <2>1, Zenon DEF CreateNew, SavedInv
<1>3. ASSUME NEW p \in Callers, NEW d \in Domains, NEW f \in Families, Ask(p, d, f) PROVE SavedInv'
  BY <1>3, Zenon DEF Ask, SavedInv, Saved
<1>4. ASSUME NEW p \in Callers, CreateFound(p) PROVE SavedInv'
  BY <1>4, Zenon DEF CreateFound, SavedInv, Saved
<1>5. CASE SaveMetadata
  BY <1>5, Zenon DEF SaveMetadata, SavedInv
<1>6. CASE Reset
  BY <1>6, Zenon DEF Reset, SavedInv
<1>7. CASE Close
  BY <1>7, Zenon DEF Close, SavedInv, Saved
<1>8. CASE End
  BY <1>8, Zenon DEF End, SavedInv, Saved
<1>9. CASE UNCHANGED vars
  BY <1>9, Zenon DEF vars, SavedInv, Saved
<1> QED BY <1>1, <1>2, <1>3, <1>4, <1>5, <1>6, <1>7, <1>8, <1>9, Zenon DEF Next

(* For all ranges, domains and callers: after an orderly end               *)
(* (Store.Close), a start with the same ranges finds the tables and the    *)
(* turn as they were (Store.Start).                                        *)
THEOREM RestartCorrect == Spec => RestartContinues
<1> DEFINE Continues == \A c \in Configs : Start(c) /\ inFile /\ lastSave = "close" /\ c = config =>
             domainOf' = domainOf /\ addressOf' = addressOf /\ current' = current
<1>1. Init => Inv /\ SavedInv
  BY InitInv, Zenon DEF Init, SavedInv
<1>2. Inv /\ SavedInv /\ [Next]_vars => (Inv /\ SavedInv)'
  BY NextInv, SavedStep, Zenon
<1>3. SavedInv => Continues
  <2> SUFFICES ASSUME SavedInv, NEW c \in Configs, Start(c), inFile, lastSave = "close", c = config
               PROVE  domainOf' = domainOf /\ addressOf' = addressOf /\ current' = current
    BY Zenon
  <2>1. metadata = <<config, current>>
    BY Zenon DEF SavedInv, Saved
  <2>2. SameRanges(c) /\ metadata[2] = current
    BY <2>1, Zenon DEF SameRanges, NoMetadata
  <2> QED BY <2>2, Zenon DEF Start
<1>4. Inv /\ SavedInv /\ [Next]_vars => [Continues]_vars
  BY <1>3, Zenon
<1> QED BY <1>1, <1>2, <1>4, PTL DEF Spec, RestartContinues

-----------------------------------------------------------------------------
(* The cache of the DNS client: module DNSCache. *)

(* Queries and the refresh: a stage says what is known of the answer. *)
Asking ==
    /\ answered \in 0..MaxAnswer /\ lock \in Queries \cup {"none"}
    /\ query \in [Queries -> [at : Stages, answer : 0..MaxAnswer, leader : Queries \cup {"none"}]]
    /\ refresh \in [at : {"off", "ask", "got"}, answer : 0..MaxAnswer, check : BOOLEAN]
    /\ refresh.at = "got" => refresh.answer \in Answers
    /\ \A q \in Queries : /\ query[q].at = "got" => query[q].answer \in Answers
                          /\ query[q].at = "remove" => ~persistent

CacheFlags == persistent \in BOOLEAN /\ rdrc \in BOOLEAN /\ clearing \in BOOLEAN /\ excused \in BOOLEAN

(* What the store is made of. *)
Store ==
    /\ age \in [Answers -> {"fresh", "stale", "dead"}] /\ unchecked \subseteq Answers
    /\ cache \in 0..MaxAnswer /\ file \in 0..MaxAnswer /\ stored \in 0..MaxAnswer
    /\ pending \in [answer : 0..MaxAnswer, sequence : Nat]
    /\ pending.answer = Empty <=> pending = NoPending
    /\ flusher \in [Flushers -> [at : {"off", "read", "save", "saved"}, answer : 0..MaxAnswer,
                                 sequence : Nat]]

(* a is what is left in the file of b. *)
Left(a, b) == a = b \/ (a = Empty /\ b # Empty /\ age[b] = "dead")

(* The queue of the cache file while no clear and no error has disturbed   *)
(* it: a single goroutine flushes as long as something is queued; what it  *)
(* has read is what is queued, unless the sequence tells.                  *)
OneFlusher ==
    /\ pending = NoPending => \A f \in Flushers : flusher[f].at = "off"
    /\ \A f, g \in Flushers : flusher[f].at # "off" /\ flusher[g].at # "off" => f = g

Flushing(f) ==
    /\ flusher[f].at \in {"save", "saved"} =>
         /\ flusher[f].sequence <= pending.sequence
         /\ flusher[f].sequence = pending.sequence => flusher[f].answer = pending.answer
    /\ flusher[f].at = "saved" => Left(file, flusher[f].answer)

Queued ==
    persistent /\ ~excused =>
      /\ OneFlusher
      /\ \A f \in Flushers : Flushing(f)
      /\ pending # NoPending => stored = pending.answer
      /\ pending = NoPending /\ stored # Empty => Left(file, stored)

(* The memory cache has what was stored last. *)
InMemory == ~persistent => cache = stored

(* Whatever a check refuses and is on its way to the file was not checked. *)
Refusals ==
    /\ RefusedNotCached
    /\ \A f \in Flushers : flusher[f].answer \in Rejected => flusher[f].answer \in unchecked

CacheInv == Asking /\ CacheFlags /\ clears \in 0..MaxClears /\ Store /\ Queued /\ InMemory /\ Refusals

(* The part of the state that the store is about. *)
StoreVars == <<persistent, age, cache, pending, file, flusher, stored, excused, unchecked>>
Kept == Store /\ Queued /\ InMemory /\ Refusals

(* A step that leaves the store alone keeps what is said of it. *)
LEMMA CacheFrame ==
    ASSUME Kept, UNCHANGED StoreVars
    PROVE  Kept'
<1>1. Store'
  BY Zenon DEF Kept, Store, StoreVars, NoPending, Empty
<1>2. Queued'
  BY Zenon DEF Kept, Queued, OneFlusher, Flushing, Left, StoreVars, NoPending, Empty
<1>3. InMemory' /\ Refusals'
  BY Zenon DEF Kept, InMemory, Refusals, RefusedNotCached, StoreVars
<1> QED BY <1>1, <1>2, <1>3, Zenon DEF Kept

(* storeCache keeps it: the sequence grows, or a goroutine starts. *)
LEMMA StoreCacheKept ==
    ASSUME Kept, persistent \in BOOLEAN, NEW a \in Answers, NEW checked \in BOOLEAN,
           checked => a \notin Rejected,
           storeCache(a, checked), UNCHANGED <<persistent, age, file>>
    PROVE  Kept'
<1> USE DEF Empty, NoPending
<1>1. a \in 0..MaxAnswer /\ a # 0 /\ MaxAnswer \in Nat /\ Rejected \subseteq Answers /\ 0 \notin Rejected
  BY CacheAssumption DEF Answers
<1>2. stored' = a /\ excused' = excused /\ unchecked \subseteq unchecked' /\ unchecked' \subseteq Answers
      /\ (a \in Rejected => a \in unchecked')
  BY <1>1, Zenon DEF storeCache, Kept, Store
<1>3. CASE ~persistent
  <2>1. cache' = a /\ pending' = pending /\ flusher' = flusher
    BY <1>3, Zenon DEF storeCache
  <2>2. Store'
    BY <2>1, <1>1, <1>2, Zenon DEF Kept, Store
  <2>3. Queued' /\ InMemory'
    BY <2>1, <1>2, <1>3, Zenon DEF Queued, InMemory
  <2>4. Refusals'
    BY <2>1, <1>2, Zenon DEF Kept, Refusals, RefusedNotCached
  <2> QED BY <2>2, <2>3, <2>4, Zenon DEF Kept
<1>4. CASE persistent
  <2>1. Queue(a) /\ cache' = cache
    BY <1>4, Zenon DEF storeCache
  <2>2. pending' = [answer |-> a, sequence |-> pending.sequence + 1] /\ pending.sequence \in Nat
    BY <2>1, Zenon DEF Queue, Kept, Store
  <2>3. InMemory'
    BY <1>4, Zenon DEF InMemory
  <2>4. CASE pending = NoPending
    <3>1. PICK f \in Flushers : /\ flusher[f].at = "off"
                                /\ flusher' = [flusher EXCEPT ![f] = Flushes]
      BY <2>1, <2>4, Zenon DEF Queue, StartsFlush
    <3>2. Flushes = [at |-> "read", answer |-> 0, sequence |-> 0]
      BY Zenon DEF Flushes
    <3>3. Store'
      BY <1>1, <1>2, <2>1, <2>2, <3>1, <3>2 DEF Kept, Store
    <3>4. \A g \in Flushers : g # f => flusher'[g] = flusher[g]
      BY <3>1, Zenon DEF Kept, Store
    <3>5. flusher'[f].at = "read" /\ flusher'[f].answer = 0
      BY <3>1, <3>2, Zenon DEF Kept, Store
    <3>6. Queued'
      BY <1>2, <2>2, <2>4, <3>4, <3>5 DEF Kept, Queued, OneFlusher, Flushing
    <3>7. Refusals'
      BY <1>1, <1>2, <2>1, <2>2, <3>4, <3>5, Zenon DEF Kept, Refusals, RefusedNotCached
    <3> QED BY <2>3, <3>3, <3>6, <3>7, Zenon DEF Kept
  <2>5. CASE pending # NoPending
    <3>1. flusher' = flusher
      BY <2>1, <2>5, Zenon DEF Queue, StartsFlush
    <3>2. Store'
      BY <1>1, <1>2, <2>1, <2>2, <3>1 DEF Kept, Store
    <3>3. \A f \in Flushers : flusher[f].sequence \in Nat
      BY Zenon DEF Kept, Store
    <3>4. ASSUME ~excused PROVE OneFlusher' /\ \A f \in Flushers : Flushing(f)'
      BY <3>4, <1>1, <1>4, <2>2, <2>5, <3>1, <3>3 DEF Kept, Queued, OneFlusher, Flushing, Left
    <3>5. Queued'
      BY <1>1, <1>2, <2>2, <3>4, Zenon DEF Queued
    <3>6. Refusals'
      BY <1>2, <2>1, <2>2, <3>1, Zenon DEF Kept, Refusals, RefusedNotCached
    <3> QED BY <2>3, <3>2, <3>5, <3>6, Zenon DEF Kept
  <2> QED BY <2>4, <2>5, Zenon
<1> QED BY <1>3, <1>4, Zenon

(* The steps that leave the store alone. *)
LEMMA IdleSteps ==
    ASSUME NEW q \in Queries,
           \/ QuestionCache(q) \/ Exchange(q) \/ WaitCancelled(q) \/ LoadHit(q)
           \/ LoadMiss(q) \/ RejectedCached(q) \/ Answer(q) \/ AnswerFails(q)
    PROVE  UNCHANGED StoreVars
BY Zenon DEF QuestionCache, Exchange, WaitCancelled, LoadHit, LoadMiss,
       RejectedCached, Answer, AnswerFails, StoreVars, ghosts

(* The memory cache drops what it has: nothing is stored then. *)
LEMMA RemoveKept ==
    ASSUME Kept, Asking, NEW q \in Queries, Remove(q)
    PROVE  Kept'
<1> USE DEF Empty, NoPending
<1>1. ~persistent /\ MaxAnswer \in Nat /\ 0 \notin Rejected
  BY CacheAssumption DEF Remove, Asking, Answers
<1>2. UNCHANGED <<persistent, age, pending, file, flusher, excused, unchecked>> /\ cache' = 0 /\ stored' = 0
  BY Zenon DEF Remove
<1>3. Store'
  BY <1>1, <1>2 DEF Kept, Store
<1>4. Queued' /\ InMemory'
  BY <1>1, <1>2, Zenon DEF Queued, InMemory
<1>5. Refusals'
  BY <1>1, <1>2, Zenon DEF Kept, Refusals, RefusedNotCached
<1> QED BY <1>3, <1>4, <1>5, Zenon DEF Kept

(* A query stores its answer unless its check refuses it. *)
LEMMA GotKept ==
    ASSUME Kept, CacheFlags, Asking, NEW q \in Queries, Got(q)
    PROVE  Kept'
<1>1. UNCHANGED <<persistent, age, file>> /\ persistent \in BOOLEAN /\ query[q].answer \in Answers
  BY Zenon DEF Got, CacheFlags, Asking
<1>2. CASE UNCHANGED <<cache, pending, flusher, ghosts>>
  BY <1>1, <1>2, CacheFrame, Zenon DEF StoreVars, ghosts
<1>3. CASE ~Refused(q) /\ storeCache(query[q].answer, q \in Checking)
  <2> DEFINE checked == q \in Checking
  <2>1. checked \in BOOLEAN /\ (checked => query[q].answer \notin Rejected)
    BY <1>3 DEF Refused
  <2>2. storeCache(query[q].answer, checked)
    BY <1>3, Zenon
  <2> HIDE DEF checked
  <2> QED BY <1>1, <2>1, <2>2, StoreCacheKept, Zenon
<1> QED BY <1>2, <1>3, Zenon DEF Got

(* The refresh stores its answer unless the check it runs with refuses it. *)
LEMMA RefreshKept ==
    ASSUME Kept, CacheFlags, Asking, RefreshDone
    PROVE  Kept'
<1>1. UNCHANGED <<persistent, age, file>> /\ persistent \in BOOLEAN /\ refresh.answer \in Answers
  BY Zenon DEF RefreshDone, CacheFlags, Asking
<1>2. refresh.check \in BOOLEAN
  BY Zenon DEF Asking
<1>3. CASE UNCHANGED <<cache, pending, flusher, ghosts>>
  BY <1>1, <1>3, CacheFrame, Zenon DEF StoreVars, ghosts
<1>4. CASE ~(refresh.check /\ refresh.answer \in Rejected) /\ storeCache(refresh.answer, refresh.check)
  BY <1>1, <1>2, <1>4, StoreCacheKept, Zenon
<1> QED BY <1>3, <1>4, Zenon DEF RefreshDone

(* flushPendingDNSCacheWith: what is dequeued is what is in the file,      *)
(* because the sequence it has read is still the one queued; otherwise the *)
(* goroutine reads again.                                                  *)
LEMMA FlushKept ==
    ASSUME Kept, NEW f \in Flushers, Flush(f)
    PROVE  Kept'
<1> USE DEF Empty, NoPending
<1>1. UNCHANGED <<persistent, age, cache, stored, unchecked>>
  BY Zenon DEF Flush, FlushRead, FlushSave, FlushFails, FlushEnd, ghosts
<1>2. flusher[f] \in [at : {"off", "read", "save", "saved"}, answer : 0..MaxAnswer, sequence : Nat]
      /\ InMemory' /\ MaxAnswer \in Nat /\ 0 \notin Rejected
  BY <1>1, CacheAssumption DEF Kept, Store, InMemory, Answers
<1>3. ASSUME NEW r, flusher' = [flusher EXCEPT ![f] = r]
      PROVE  flusher'[f] = r /\ \A g \in Flushers : g # f => flusher'[g] = flusher[g]
  BY <1>3, Zenon DEF Kept, Store
<1>4. CASE FlushRead(f)
  <2>1. CASE pending = NoPending
    <3>1. flusher' = [flusher EXCEPT ![f] = NoFlush] /\ UNCHANGED <<pending, file, excused>>
      BY <1>4, <2>1, Zenon DEF FlushRead, ghosts
    <3>2. flusher'[f] = NoFlush /\ \A g \in Flushers : g # f => flusher'[g] = flusher[g]
      BY <1>3, <3>1, Zenon
    <3>3. Store'
      BY <1>1, <1>2, <3>1 DEF Kept, Store, NoFlush
    <3>4. persistent => excused
      BY <1>4, <2>1, Zenon DEF Kept, Queued, OneFlusher, FlushRead
    <3>5. Queued'
      BY <1>1, <3>1, <3>4, Zenon DEF Queued
    <3>6. Refusals'
      BY <1>1, <1>2, <3>1, <3>2 DEF Kept, Refusals, RefusedNotCached, NoFlush
    <3> QED BY <1>2, <3>3, <3>5, <3>6, Zenon DEF Kept
  <2>2. CASE pending # NoPending
    <3> DEFINE r == [at |-> "save", answer |-> pending.answer, sequence |-> pending.sequence]
    <3>1. flusher' = [flusher EXCEPT ![f] = r] /\ UNCHANGED <<pending, file, excused>> /\ flusher[f].at = "read"
      BY <1>4, <2>2, Zenon DEF FlushRead, ghosts
    <3>2. flusher'[f] = r /\ \A g \in Flushers : g # f => flusher'[g] = flusher[g]
      BY <1>3, <3>1, Zenon
    <3>3. Store'
      BY <1>1, <1>2, <3>1, Zenon DEF Kept, Store
    <3>4. pending.sequence \in Nat
      BY Zenon DEF Kept, Store
    <3>5. ASSUME persistent, ~excused PROVE OneFlusher' /\ \A g \in Flushers : Flushing(g)'
      BY <3>5, <1>1, <2>2, <3>1, <3>2, <3>4 DEF Kept, Queued, OneFlusher, Flushing, Left
    <3>6. Queued'
      BY <1>1, <2>2, <3>1, <3>5, Zenon DEF Kept, Queued
    <3>7. Refusals'
      BY <1>1, <3>1, <3>2 DEF Kept, Refusals, RefusedNotCached
    <3> QED BY <1>2, <3>3, <3>6, <3>7, Zenon DEF Kept
  <2> QED BY <2>1, <2>2, Zenon
<1>5. CASE FlushSave(f) \/ FlushFails(f)
  <2>1. flusher[f].at = "save" /\ flusher' = [flusher EXCEPT ![f].at = "saved"] /\ pending' = pending
    BY <1>5, Zenon DEF FlushSave, FlushFails
  <2> DEFINE r == [flusher[f] EXCEPT !.at = "saved"]
  <2>2. r \in [at : {"off", "read", "save", "saved"}, answer : 0..MaxAnswer, sequence : Nat]
        /\ r.at = "saved" /\ r.answer = flusher[f].answer /\ r.sequence = flusher[f].sequence
    BY <1>2, Zenon
  <2>3. flusher' = [flusher EXCEPT ![f] = r]
    BY <2>1, Zenon
  <2> HIDE DEF r
  <2>4. flusher'[f] = r /\ \A g \in Flushers : g # f => flusher'[g] = flusher[g]
    BY <1>3, <2>3, Zenon
  <2>5. CASE FlushSave(f)
    <3>1. file' = flusher[f].answer /\ excused' = excused
      BY <2>5, Zenon DEF FlushSave, ghosts
    <3>2. Store'
      BY <1>1, <1>2, <2>1, <2>2, <2>3, <3>1 DEF Kept, Store
    <3>3. ASSUME persistent, ~excused
          PROVE  pending # NoPending /\ OneFlusher' /\ \A g \in Flushers : Flushing(g)'
      <4>1. pending # NoPending /\ \A g \in Flushers : flusher[g].at # "off" => g = f
        BY <3>3, <2>1, Zenon DEF Kept, Queued, OneFlusher
      <4>2. OneFlusher'
        BY <2>1, <2>4, <4>1, Zenon DEF OneFlusher
      <4>3. Flushing(f)'
        BY <3>3, <2>1, <2>2, <2>4, <3>1, Zenon DEF Kept, Queued, Flushing, Left
      <4>4. ASSUME NEW g \in Flushers, g # f PROVE Flushing(g)'
        BY <4>1, <4>4, <2>4, Zenon DEF Flushing
      <4> QED BY <4>1, <4>2, <4>3, <4>4, Zenon
    <3>4. Queued'
      BY <1>1, <2>1, <3>1, <3>3, Zenon DEF Kept, Queued
    <3>5. Refusals'
      BY <1>1, <2>1, <2>2, <2>4, <3>1 DEF Kept, Refusals, RefusedNotCached
    <3> QED BY <1>2, <3>2, <3>4, <3>5, Zenon DEF Kept
  <2>6. CASE FlushFails(f)
    <3>1. file' = file /\ excused'
      BY <2>6, Zenon DEF FlushFails
    <3>2. Store'
      BY <1>1, <1>2, <2>1, <2>2, <2>3, <3>1 DEF Kept, Store
    <3>3. Queued'
      BY <3>1, Zenon DEF Queued
    <3>4. Refusals'
      BY <1>1, <2>1, <2>2, <2>4, <3>1 DEF Kept, Refusals, RefusedNotCached
    <3> QED BY <1>2, <3>2, <3>3, <3>4, Zenon DEF Kept
  <2> QED BY <1>5, <2>5, <2>6, Zenon
<1>6. CASE FlushEnd(f)
  <2>1. flusher[f].at = "saved" /\ UNCHANGED <<file, excused>>
    BY <1>6, Zenon DEF FlushEnd, ghosts
  <2>2. CASE pending = NoPending /\ flusher' = [flusher EXCEPT ![f] = NoFlush] /\ pending' = pending
    <3>1. flusher'[f] = NoFlush /\ \A g \in Flushers : g # f => flusher'[g] = flusher[g]
      BY <1>3, <2>2, Zenon
    <3>2. Store'
      BY <1>1, <1>2, <2>1, <2>2, Zenon DEF Kept, Store, NoFlush
    <3>3. persistent => excused
      BY <2>1, <2>2, Zenon DEF Kept, Queued, OneFlusher
    <3>4. Queued'
      BY <1>1, <2>1, <3>3, Zenon DEF Queued
    <3>5. Refusals'
      BY <1>1, <1>2, <2>1, <2>2, <3>1 DEF Kept, Refusals, RefusedNotCached, NoFlush
    <3> QED BY <1>2, <3>2, <3>4, <3>5, Zenon DEF Kept
  <2>3. CASE pending # NoPending /\ flusher' = [flusher EXCEPT ![f] = Flushes] /\ pending' = pending
    <3>1. flusher'[f] = Flushes /\ \A g \in Flushers : g # f => flusher'[g] = flusher[g]
      BY <1>3, <2>3, Zenon
    <3>2. Store'
      BY <1>1, <1>2, <2>1, <2>3 DEF Kept, Store, Flushes
    <3>3. ASSUME persistent, ~excused PROVE OneFlusher' /\ \A g \in Flushers : Flushing(g)'
      BY <3>3, <1>1, <2>1, <2>3, <3>1 DEF Kept, Queued, OneFlusher, Flushing, Left, Flushes
    <3>4. Queued'
      BY <1>1, <2>1, <2>3, <3>3, Zenon DEF Kept, Queued
    <3>5. Refusals'
      BY <1>1, <1>2, <2>1, <2>3, <3>1 DEF Kept, Refusals, RefusedNotCached, Flushes
    <3> QED BY <1>2, <3>2, <3>4, <3>5, Zenon DEF Kept
  <2>4. CASE /\ pending # NoPending /\ Current(f)
             /\ flusher' = [flusher EXCEPT ![f] = NoFlush] /\ pending' = Dequeued
    <3>1. flusher'[f] = NoFlush /\ \A g \in Flushers : g # f => flusher'[g] = flusher[g]
      BY <1>3, <2>4, Zenon
    <3>2. Store'
      BY <1>1, <1>2, <2>1, <2>4 DEF Kept, Store, NoFlush, Dequeued
    <3>3. ASSUME persistent, ~excused
          PROVE  OneFlusher' /\ (\A g \in Flushers : Flushing(g)') /\ Left(file, stored)'
      <4>1. \A g \in Flushers : flusher'[g].at = "off"
        BY <3>3, <2>1, <3>1 DEF Kept, Queued, OneFlusher, NoFlush
      <4>2. stored = flusher[f].answer /\ Left(file, stored)
        BY <3>3, <2>1, <2>4, Zenon DEF Kept, Queued, Flushing, Current
      <4>3. Left(file, stored)'
        BY <4>2, <1>1, <2>1, Zenon DEF Left
      <4> QED BY <4>1, <4>3, Zenon DEF OneFlusher, Flushing
    <3>4. Queued'
      BY <1>1, <2>1, <2>4, <3>3, Zenon DEF Queued, Dequeued
    <3>5. Refusals'
      BY <1>1, <1>2, <2>1, <2>4, <3>1 DEF Kept, Refusals, RefusedNotCached, NoFlush,
                                          Dequeued
    <3> QED BY <1>2, <3>2, <3>4, <3>5, Zenon DEF Kept
  <2> QED BY <1>6, <2>2, <2>3, <2>4, Zenon DEF FlushEnd
<1> QED BY <1>4, <1>5, <1>6, Zenon DEF Flush

(* ClearCache empties the queue only when no goroutine is at it, or the    *)
(* clear is recorded.                                                      *)
LEMMA ClearKept ==
    ASSUME Kept, ClearCache
    PROVE  Kept'
<1> USE DEF Empty, NoPending
<1>1. /\ UNCHANGED <<persistent, age, file, flusher, unchecked>>
      /\ cache' = 0 /\ pending' = NoPending /\ stored' = 0
      /\ ~excused' => ~excused /\ \A f \in Flushers : flusher[f].at = "off"
  BY Zenon DEF ClearCache
<1>2. MaxAnswer \in Nat /\ 0 \notin Rejected
  BY CacheAssumption DEF Answers
<1>3. Store'
  BY <1>1, <1>2 DEF Kept, Store
<1>4. Queued'
  BY <1>1, Zenon DEF Kept, Queued, OneFlusher, Flushing
<1>5. InMemory' /\ Refusals'
  BY <1>1, <1>2, Zenon DEF Kept, InMemory, Refusals, RefusedNotCached
<1> QED BY <1>3, <1>4, <1>5, Zenon DEF Kept

(* The bucket is cleared while nothing is queued, or the clear is          *)
(* recorded.                                                               *)
LEMMA ClearBucketKept ==
    ASSUME Kept, ClearBucket
    PROVE  Kept'
<1> USE DEF Empty, NoPending
<1>1. /\ UNCHANGED <<persistent, age, cache, pending, flusher, stored, unchecked>>
      /\ file' = 0 /\ (~excused' => ~excused /\ stored = 0)
  BY Zenon DEF ClearBucket
<1>2. MaxAnswer \in Nat /\ 0 \notin Rejected
  BY CacheAssumption DEF Answers
<1>3. Store'
  BY <1>1, <1>2 DEF Kept, Store
<1>4. ASSUME persistent, ~excused'
      PROVE  pending = NoPending /\ \A f \in Flushers : flusher[f].at = "off"
  BY <1>1, <1>4, Zenon DEF Kept, Store, Queued, OneFlusher
<1>5. Queued'
  BY <1>1, <1>4, Zenon DEF Queued, OneFlusher, Flushing
<1>6. InMemory' /\ Refusals'
  BY <1>1, <1>2, Zenon DEF Kept, InMemory, Refusals, RefusedNotCached
<1> QED BY <1>3, <1>5, <1>6, Zenon DEF Kept

(* cleanupDNSCache takes only what is too old. *)
LEMMA CleanupKept ==
    ASSUME Kept, cleanupDNSCache
    PROVE  Kept'
<1> USE DEF Empty, NoPending
<1>1. /\ UNCHANGED <<persistent, age, cache, pending, flusher, stored, excused, unchecked>>
      /\ file' = 0 /\ file # 0 /\ age[file] = "dead"
  BY Zenon DEF cleanupDNSCache, TooOld, ghosts
<1>2. MaxAnswer \in Nat /\ 0 \notin Rejected
  BY CacheAssumption DEF Answers
<1>3. Store'
  BY <1>1, <1>2 DEF Kept, Store
<1>4. ASSUME NEW b, Left(file, b) PROVE file' = 0 /\ b # 0 /\ age'[b] = "dead"
  BY <1>1, <1>4, Zenon DEF Left
<1>5. Queued'
  BY <1>1, <1>4, Zenon DEF Kept, Queued, OneFlusher, Flushing, Left
<1>6. InMemory' /\ Refusals'
  BY <1>1, <1>2, Zenon DEF Kept, InMemory, Refusals, RefusedNotCached
<1> QED BY <1>3, <1>5, <1>6, Zenon DEF Kept

(* After a restart the file is all there is. *)
LEMMA RestartKept ==
    ASSUME Kept, Restart
    PROVE  Kept'
<1> USE DEF Empty, NoPending
<1>1. /\ UNCHANGED <<persistent, age, file, excused, unchecked>>
      /\ cache' = 0 /\ pending' = NoPending /\ flusher' = [f \in Flushers |-> NoFlush]
      /\ stored' = IF persistent THEN file ELSE 0
  BY Zenon DEF Restart
<1>2. MaxAnswer \in Nat /\ 0 \notin Rejected
  BY CacheAssumption DEF Answers
<1>3. Store'
  BY <1>1, <1>2 DEF Kept, Store, NoFlush
<1>4. Queued'
  BY <1>1, Zenon DEF Queued, OneFlusher, Flushing, Left, NoFlush
<1>5. InMemory' /\ Refusals'
  BY <1>1, <1>2, Zenon DEF Kept, InMemory, Refusals, RefusedNotCached, NoFlush
<1> QED BY <1>3, <1>4, <1>5, Zenon DEF Kept

(* Answers only get older. *)
LEMMA OlderKept ==
    ASSUME Kept, NEW a \in Answers, Older(a)
    PROVE  Kept'
<1> USE DEF Empty, NoPending
<1>1. UNCHANGED <<persistent, cache, pending, file, flusher, stored, excused, unchecked>>
  BY Zenon DEF Older, ghosts
<1>2. PICK older \in {"stale", "dead"} : age' = [age EXCEPT ![a] = older]
  BY Zenon DEF Older
<1>3. age[a] # "dead"
  BY Zenon DEF Older
<1>4. Store'
  BY <1>1, <1>2, Zenon DEF Kept, Store
<1>5. ASSUME NEW b \in 0..MaxAnswer, NEW c, Left(c, b) PROVE Left(c, b)'
  <2>1. b # 0 => b \in Answers
    BY CacheAssumption DEF Answers
  <2> QED BY <1>2, <1>3, <1>5, <2>1, Zenon DEF Left, Kept, Store
<1>6. ASSUME NEW f \in Flushers PROVE flusher[f].answer \in 0..MaxAnswer
  BY Zenon DEF Kept, Store
<1>7. Queued'
  <2> SUFFICES ASSUME persistent, ~excused
               PROVE  /\ OneFlusher' /\ \A f \in Flushers : Flushing(f)'
                      /\ pending # NoPending => stored = pending.answer
                      /\ pending = NoPending /\ stored # Empty => Left(file, stored)'
    BY <1>1, Zenon DEF Queued
  <2>1. OneFlusher' /\ (pending # NoPending => stored = pending.answer)
    BY <1>1, Zenon DEF Kept, Queued, OneFlusher
  <2>2. ASSUME NEW f \in Flushers PROVE Flushing(f)'
    <3>1. Flushing(f) /\ file' = file /\ pending' = pending /\ flusher' = flusher
      BY <1>1, Zenon DEF Kept, Queued
    <3>2. flusher[f].at = "saved" => Left(file, flusher[f].answer)'
      <4>1. PICK b : b = flusher[f].answer
        BY Zenon
      <4>2. PICK c : c = file
        BY Zenon
      <4>3. flusher[f].at = "saved" => Left(c, b)'
        BY <1>5, <1>6, <3>1, <4>1, <4>2, Zenon DEF Flushing
      <4> QED BY <3>1, <4>1, <4>2, <4>3, Zenon DEF Left
    <3> QED BY <3>1, <3>2, Zenon DEF Flushing
  <2>3. ASSUME pending = NoPending, stored # 0 PROVE Left(file, stored)'
    <3>1. PICK b \in 0..MaxAnswer : b = stored
      BY Zenon DEF Kept, Store
    <3>2. PICK c : c = file
      BY Zenon
    <3>3. Left(c, b)'
      BY <1>5, <2>3, <3>1, <3>2, Zenon DEF Kept, Queued
    <3> QED BY <1>1, <3>1, <3>2, <3>3, Zenon DEF Left
  <2> QED BY <2>1, <2>2, <2>3, Zenon
<1>8. InMemory' /\ Refusals'
  BY <1>1, Zenon DEF Kept, InMemory, Refusals, RefusedNotCached
<1> QED BY <1>4, <1>7, <1>8, Zenon DEF Kept

(* Every step keeps the store. *)
LEMMA NextKept ==
    ASSUME Kept, CacheFlags, Asking, CacheNext
    PROVE  Kept'
<1>1. ASSUME NEW q \in Queries, QuestionCache(q) \/ Exchange(q) \/ Step(q) PROVE Kept'
  BY <1>1, IdleSteps, CacheFrame, RemoveKept, GotKept, Zenon DEF Step
<1>2. CASE RefreshAnswer \/ RefreshFails
  BY <1>2, CacheFrame, Zenon DEF RefreshAnswer, RefreshFails, StoreVars, ghosts
<1>3. CASE RDRCExpires
  BY <1>3, CacheFrame, Zenon DEF RDRCExpires, StoreVars, ghosts
<1>4. QED
  BY <1>1, <1>2, <1>3, RefreshKept, FlushKept, ClearKept, ClearBucketKept, CleanupKept, RestartKept, OlderKept, Zenon
     DEF CacheNext, Refresh

Query == [at : Stages, answer : 0..MaxAnswer, leader : Queries \cup {"none"}]

(* What Asking says of one query. *)
Known(r) == (r.at = "got" => r.answer \in Answers) /\ (r.at = "remove" => ~persistent)

(* A query takes another stage. *)
LEMMA MovedAsking ==
    ASSUME Asking, NEW q \in Queries, NEW r \in Query, Known(r), query' = [query EXCEPT ![q] = r],
           lock' \in Queries \cup {"none"}, answered' \in 0..MaxAnswer, UNCHANGED <<persistent, refresh>>
    PROVE  Asking'
<1>1. \A p \in Queries : query'[p] = IF p = q THEN r ELSE query[p]
  BY Zenon DEF Asking
<1>2. query' \in [Queries -> Query]
  BY <1>1, Zenon DEF Asking, Query
<1> QED BY <1>1, <1>2, Zenon DEF Asking, Known, Query

(* The end of a query lets others go on. *)
LEMMA EndedAsking ==
    ASSUME Asking, NEW q \in Queries, Ended(q), UNCHANGED <<persistent, answered>>,
           refresh' \in [at : {"off", "ask", "got"}, answer : 0..MaxAnswer, check : BOOLEAN],
           refresh'.at = "got" => refresh'.answer \in Answers
    PROVE  Asking'
<1>1. lock' \in Queries \cup {"none"}
  BY Zenon DEF Ended, Unlocked, Asking
<1>2. MaxAnswer \in Nat
  BY CacheAssumption, Zenon
<1>3. ASSUME NEW p \in Queries PROVE query'[p] \in Query /\ Known(query'[p])
  <2>1. query[p] \in Query /\ Known(query[p])
    BY Zenon DEF Asking, Query, Known
  <2>2. Idle \in Query /\ Known(Idle)
    BY <1>2 DEF Idle, Query, Known, Stages, Empty
  <2> DEFINE r == [query[p] EXCEPT !.at = "load"]
  <2>3. r \in Query /\ r.at = "load"
    BY <2>1, Zenon DEF Query, Stages
  <2>4. query'[p] \in {Idle, r, query[p]}
    BY Zenon DEF Ended
  <2> HIDE DEF r
  <2> QED BY <2>1, <2>2, <2>3, <2>4, Zenon DEF Known
<1>4. query' \in [Queries -> Query]
  BY <1>3, Zenon DEF Ended
<1> QED BY <1>1, <1>3, <1>4, Zenon DEF Asking, Query, Known

(* A refresh that starts has no answer yet. *)
LEMMA StartRefreshTypes ==
    ASSUME Asking, NEW q \in Queries, StartRefresh(q) \/ UNCHANGED refresh
    PROVE  /\ refresh' \in [at : {"off", "ask", "got"}, answer : 0..MaxAnswer, check : BOOLEAN]
           /\ refresh'.at = "got" => refresh'.answer \in Answers
<1>1. CASE UNCHANGED refresh
  BY <1>1, Zenon DEF Asking
<1>2. CASE refresh.at = "off" /\ StartRefresh(q)
  <2> DEFINE check == q \in Checking
  <2>1. check \in BOOLEAN /\ refresh' = [at |-> "ask", answer |-> 0, check |-> check]
    BY <1>2 DEF StartRefresh, Empty
  <2>2. 0 \in 0..MaxAnswer
    BY CacheAssumption
  <2> HIDE DEF check
  <2> QED BY <2>1, <2>2, Zenon
<1>3. CASE refresh.at # "off" /\ StartRefresh(q)
  BY <1>3, Zenon DEF StartRefresh, Asking
<1> QED BY <1>1, <1>2, <1>3, Zenon

(* Every step of a query keeps what its stage says of its answer. *)
LEMMA QueryAsking ==
    ASSUME Asking, NEW q \in Queries,
           QuestionCache(q) \/ Exchange(q) \/ Step(q)
    PROVE  Asking'
<1> USE DEF Empty
<1>1. query[q] \in Query /\ MaxAnswer \in Nat /\ answered \in 0..MaxAnswer
  BY CacheAssumption, Zenon DEF Asking, Query
<1>2. CASE QuestionCache(q)
  <2>1. UNCHANGED <<persistent, answered, lock, query>> /\ (StartRefresh(q) \/ UNCHANGED refresh)
    BY <1>2, Zenon DEF QuestionCache
  <2> QED BY <2>1, StartRefreshTypes, Zenon DEF Asking
<1>3. CASE Exchange(q)
  <2>1. UNCHANGED <<persistent, answered, refresh>>
    BY <1>3, Zenon DEF Exchange
  <2>2. CASE lock = "none"
    <3> DEFINE r == [query[q] EXCEPT !.at = "load"]
    <3>1. r \in Query /\ r.at = "load" /\ query' = [query EXCEPT ![q] = r] /\ lock' = q
      BY <1>1, <1>3, <2>2, Zenon DEF Query, Stages, Exchange
    <3> HIDE DEF r
    <3>2. Known(r) /\ lock' \in Queries \cup {"none"} /\ answered' \in 0..MaxAnswer
      BY <1>1, <2>1, <3>1, Zenon DEF Known
    <3> QED BY <2>1, <3>1, <3>2, MovedAsking, Zenon
  <2>3. CASE lock # "none"
    <3> DEFINE r == [at |-> "wait", answer |-> 0, leader |-> lock]
    <3>2. query' = [query EXCEPT ![q] = r] /\ lock' = lock
      BY <1>3, <2>3, Zenon DEF Exchange
    <3>3. r \in Query /\ Known(r) /\ lock' \in Queries \cup {"none"} /\ answered' \in 0..MaxAnswer
      BY <1>1, <2>1, <3>2 DEF Query, Known, Stages, Asking
    <3> QED BY <2>1, <3>2, <3>3, MovedAsking, Zenon
  <2> QED BY <2>2, <2>3, Zenon
<1>4. CASE WaitCancelled(q) \/ RejectedCached(q) \/ AnswerFails(q) \/ Got(q)
  <2>1. Ended(q) /\ UNCHANGED <<persistent, answered, refresh>>
    BY <1>4, Zenon DEF WaitCancelled, RejectedCached, AnswerFails, Got
  <2> QED BY <2>1, EndedAsking, Zenon DEF Asking
<1>5. CASE LoadHit(q)
  <2>1. Ended(q) /\ UNCHANGED <<persistent, answered>> /\ (StartRefresh(q) \/ UNCHANGED refresh)
    BY <1>5, Zenon DEF LoadHit
  <2> QED BY <2>1, StartRefreshTypes, EndedAsking, Zenon
<1>6. CASE LoadMiss(q)
  <2> DEFINE stage == IF ~persistent /\ cache # Empty THEN "remove" ELSE "ask"
             r == [query[q] EXCEPT !.at = stage]
  <2>1. query' = [query EXCEPT ![q] = r] /\ UNCHANGED <<persistent, answered, refresh, lock>>
    BY <1>6, Zenon DEF LoadMiss
  <2>2. stage \in Stages /\ stage # "got" /\ (stage = "remove" => ~persistent)
    BY Zenon DEF Stages
  <2> HIDE DEF stage
  <2>3. r \in Query /\ r.at = stage
    BY <1>1, <2>2, Zenon DEF Query
  <2> HIDE DEF r
  <2>4. Known(r) /\ lock' \in Queries \cup {"none"} /\ answered' \in 0..MaxAnswer
    BY <1>1, <2>1, <2>2, <2>3, Zenon DEF Known, Asking
  <2> QED BY <2>1, <2>3, <2>4, MovedAsking, Zenon
<1>7. CASE Remove(q)
  <2> DEFINE r == [query[q] EXCEPT !.at = "ask"]
  <2>1. query' = [query EXCEPT ![q] = r] /\ UNCHANGED <<persistent, answered, refresh, lock>>
    BY <1>7, Zenon DEF Remove
  <2>2. r \in Query /\ r.at = "ask"
    BY <1>1, Zenon DEF Query, Stages
  <2> HIDE DEF r
  <2>3. Known(r) /\ lock' \in Queries \cup {"none"} /\ answered' \in 0..MaxAnswer
    BY <1>1, <2>1, <2>2, Zenon DEF Known, Asking
  <2> QED BY <2>1, <2>2, <2>3, MovedAsking, Zenon
<1>8. CASE Answer(q)
  <2>1. PICK c \in Query : c = query[q]
    BY <1>1, Zenon
  <2> DEFINE r == [c EXCEPT !.at = "got", !.answer = answered + 1]
  <2>2. query' = [query EXCEPT ![q] = r] /\ UNCHANGED <<persistent, refresh, lock>>
    BY <1>8, <2>1, Zenon DEF Answer
  <2>3. answered' = answered + 1 /\ answered < MaxAnswer
    BY <1>8, Zenon DEF Answer
  <2>4. answered + 1 \in 0..MaxAnswer /\ "got" \in Stages
    BY <1>1, <2>3 DEF Stages
  <2>5. c \in [at : Stages, answer : 0..MaxAnswer, leader : Queries \cup {"none"}]
    BY Zenon DEF Query
  <2>6. r \in Query /\ r.at = "got" /\ r.answer = answered + 1
    BY <2>4, <2>5, Zenon DEF Query
  <2> HIDE DEF r
  <2>7. Known(r) /\ lock' \in Queries \cup {"none"} /\ answered' \in 0..MaxAnswer
    BY <1>1, <2>2, <2>3, <2>6 DEF Known, Asking, Answers
  <2> QED BY <2>2, <2>6, <2>7, MovedAsking, Zenon
<1> QED BY <1>2, <1>3, <1>4, <1>5, <1>6, <1>7, <1>8, Zenon DEF Step

(* So does every other step. *)
LEMMA NextAsking ==
    ASSUME Asking, [CacheNext]_cacheVars
    PROVE  Asking'
<1> USE DEF Empty
<1>0. 0 \in 0..MaxAnswer /\ MaxAnswer \in Nat
  BY CacheAssumption
<1>1. /\ NoRefresh \in [at : {"off", "ask", "got"}, answer : 0..MaxAnswer, check : BOOLEAN]
      /\ NoRefresh.at = "off"
  BY <1>0, Zenon DEF NoRefresh
<1>2. CASE RefreshAnswer
  <2> DEFINE r == [refresh EXCEPT !.at = "got", !.answer = answered + 1]
  <2>1. /\ refresh' = r /\ answered' = answered + 1 /\ answered < MaxAnswer
        /\ UNCHANGED <<persistent, lock, query>>
    BY <1>2, Zenon DEF RefreshAnswer
  <2>2. answered + 1 \in 0..MaxAnswer /\ answered + 1 \in Answers
    BY <1>0, <2>1 DEF Asking, Answers
  <2>3. r \in [at : {"off", "ask", "got"}, answer : 0..MaxAnswer, check : BOOLEAN] /\ r.answer = answered + 1
    BY <2>2, Zenon DEF Asking
  <2> HIDE DEF r
  <2> QED BY <2>1, <2>2, <2>3, Zenon DEF Asking
<1>3. CASE RefreshFails \/ RefreshDone
  <2>1. refresh' = NoRefresh /\ UNCHANGED <<persistent, answered, lock, query>>
    BY <1>3, Zenon DEF RefreshFails, RefreshDone
  <2> QED BY <1>1, <2>1, Zenon DEF Asking
<1>4. CASE Restart
  <2>1. /\ refresh' = NoRefresh /\ UNCHANGED <<persistent, answered>> /\ lock' = "none"
        /\ query' = [q \in Queries |-> Idle]
    BY <1>4, Zenon DEF Restart
  <2>2. Idle \in Query /\ Idle.at = "off"
    BY <1>0, Zenon DEF Idle, Query, Stages
  <2> QED BY <1>1, <2>1, <2>2, Zenon DEF Asking, Query
<1>5. CASE \/ ClearCache \/ ClearBucket \/ cleanupDNSCache \/ RDRCExpires
           \/ UNCHANGED cacheVars
           \/ (\E f \in Flushers : Flush(f)) \/ (\E a \in Answers : Older(a))
  <2>1. UNCHANGED <<persistent, answered, lock, query, refresh>>
    BY <1>5, Zenon DEF ClearCache, ClearBucket, cleanupDNSCache, RDRCExpires,
                cacheVars, Flush, FlushRead, FlushSave, FlushFails,
                FlushEnd, Older
  <2> QED BY <2>1, Zenon DEF Asking
<1> QED BY <1>2, <1>3, <1>4, <1>5, QueryAsking, Zenon DEF CacheNext, Refresh

(* The flags stay flags, and the clears within their bound. *)
LEMMA NextFlags ==
    ASSUME CacheFlags, clears \in 0..MaxClears, [CacheNext]_cacheVars
    PROVE  CacheFlags' /\ clears' \in 0..MaxClears
<1> USE DEF CacheNext, cacheVars, Refresh, Step, Flush, QuestionCache,
            Exchange, WaitCancelled, LoadHit, LoadMiss, Remove,
            RejectedCached, Answer, AnswerFails, Got, RefreshAnswer,
            RefreshFails, RefreshDone, FlushRead, FlushSave, FlushFails,
            FlushEnd, ClearCache, ClearBucket, cleanupDNSCache,
            RDRCExpires, Restart, Older
<1>1. persistent' = persistent
  BY Zenon
<1>2. \/ rdrc' = FALSE \/ rdrc' = TRUE \/ rdrc' = rdrc \/ rdrc' = (rdrc /\ ~persistent)
  BY Zenon
<1>3. /\ clearing' \in {clearing, FALSE, persistent} /\ clears' \in {clears, clears + 1}
      /\ clears' = clears \/ clears < MaxClears
  BY Zenon
<1>4. \/ excused' = TRUE \/ excused' = excused \/ excused' = (excused \/ stored # Empty)
      \/ excused' = (excused \/ \E f \in Flushers : flusher[f].at # "off")
  BY Zenon DEF ghosts, storeCache
<1> HIDE DEF CacheNext
<1>5. clears' \in 0..MaxClears
  BY <1>3, CacheAssumption
<1>6. rdrc' \in BOOLEAN /\ excused' \in BOOLEAN
  BY <1>2, <1>4, Zenon DEF CacheFlags
<1>7. clearing' \in BOOLEAN /\ persistent' \in BOOLEAN
  BY <1>1, <1>3, Zenon DEF CacheFlags
<1> QED BY <1>5, <1>6, <1>7, Zenon DEF CacheFlags

(* The invariant of the cache holds initially. *)
LEMMA InitCache == ASSUME CacheInit PROVE CacheInv
<1> USE DEF Empty, NoPending
<1>1. 0 \in 0..MaxAnswer /\ MaxAnswer \in Nat /\ MaxClears \in Nat /\ 0 \notin Rejected
  BY CacheAssumption DEF Answers
<1>2. CacheFlags
  BY Zenon DEF CacheInit, CacheFlags
<1>3. /\ NoRefresh \in [at : {"off", "ask", "got"}, answer : 0..MaxAnswer, check : BOOLEAN]
      /\ NoRefresh.at = "off"
  BY <1>1, Zenon DEF NoRefresh
<1>4. Idle \in Query /\ Idle.at = "off"
  BY <1>1, Zenon DEF Idle, Query, Stages
<1>5. Asking
  BY <1>1, <1>3, <1>4, Zenon DEF CacheInit, Asking, Query
<1>6. Store
  BY <1>1, Zenon DEF CacheInit, Store, NoFlush
<1>7. Queued /\ InMemory
  BY Zenon DEF CacheInit, Queued, OneFlusher, Flushing, InMemory, NoFlush
<1>8. Refusals
  BY <1>1, Zenon DEF CacheInit, Refusals, RefusedNotCached, NoFlush
<1> QED BY <1>1, <1>2, <1>5, <1>6, <1>7, <1>8 DEF CacheInv, CacheInit

(* It is inductive. *)
LEMMA StepCache == ASSUME CacheInv, [CacheNext]_cacheVars PROVE CacheInv'
<1>1. Kept'
  <2>1. CASE UNCHANGED cacheVars
    BY <2>1, CacheFrame, Zenon DEF cacheVars, StoreVars, CacheInv, Kept
  <2> QED BY <2>1, NextKept, Zenon DEF CacheInv, Kept
<1> QED BY <1>1, NextAsking, NextFlags, Zenon DEF CacheInv, Kept

(* What a load finds follows from the invariant. *)
LEMMA InvStored == ASSUME CacheInv PROVE StoredKept
<1> USE DEF Empty, NoPending
<1>1. CacheTypeOK
  BY Zenon DEF CacheInv, Asking, CacheFlags, Store, CacheTypeOK
<1>2. ASSUME stored # 0, ~excused PROVE Loaded = stored \/ (Loaded = 0 /\ age[stored] = "dead")
  <2>1. CASE persistent
    BY <1>2, <2>1, Zenon DEF CacheInv, Store, Queued, Left, Loaded, LoadDNSCache
  <2>2. CASE ~persistent
    BY <2>2, Zenon DEF CacheInv, InMemory, Loaded
  <2> QED BY <2>1, <2>2, Zenon
<1> QED BY <1>1, <1>2, Zenon DEF StoredKept

(* For any queries, flushing goroutines, answers and clears: what          *)
(* storeCache has stored last is what LoadDNSCache or the memory cache     *)
(* finds, until it is too old or cleared, unless a clear meets a goroutine *)
(* that flushes or a save fails.                                           *)
THEOREM StoredCorrect == CacheSpec => []StoredKept
<1>1. CacheSpec => []CacheInv
  BY InitCache, StepCache, PTL DEF CacheSpec
<1>2. CacheInv => StoredKept
  BY InvStored, Zenon
<1> QED BY <1>1, <1>2, PTL

(* For any queries, flushing goroutines, answers and clears: an answer     *)
(* that a responseChecker refuses is in the cache only because a query     *)
(* without a check has stored it.                                          *)
THEOREM RefusedCorrect == CacheSpec => []RefusedNotCached
<1>1. CacheSpec => []CacheInv
  BY InitCache, StepCache, PTL DEF CacheSpec
<1>2. CacheInv => RefusedNotCached
  BY Zenon DEF CacheInv, Refusals
<1> QED BY <1>1, <1>2, PTL
-----------------------------------------------------------------------------
(* Nobody waits in vain: the key is held by a query that is at work, a     *)
(* query waits only for the one that holds the key, and whatever is queued *)
(* for the file has a goroutine that flushes it.                           *)
Led ==
    /\ lock # "none" => query[lock].at \notin {"off", "wait"}
    /\ \A q \in Queries : query[q].at = "wait" => lock # "none" /\ query[q].leader = lock
Flushed == pending # NoPending => \E f \in Flushers : flusher[f].at # "off"
NobodyWaitsInVain == Led /\ Flushed

(* The end of a query: if it held the key, everyone who waited goes on. *)
LEMMA EndedLed ==
    ASSUME Asking, Led, NEW q \in Queries, query[q].at # "off", Ended(q)
    PROVE  Led'
<1>1. "none" \notin Queries
  BY CacheAssumption, Zenon
<1>2. /\ lock' = IF lock = q THEN "none" ELSE lock
      /\ query'[q] = Idle
      /\ \A p \in Queries \ {q} :
           query'[p] = IF query[p].at = "wait" /\ query[p].leader = q
                         THEN [query[p] EXCEPT !.at = "load"] ELSE query[p]
  BY <1>1, Zenon DEF Ended, Unlocked
<1>3. Idle.at = "off"
  BY Zenon DEF Idle
<1>4. \A p \in Queries : [query[p] EXCEPT !.at = "load"].at = "load"
  BY Zenon DEF Asking
<1>5. CASE lock = q
  <2>1. lock' = "none"
    BY <1>2, <1>5, Zenon
  <2>2. \A p \in Queries : query'[p].at # "wait"
    BY <1>2, <1>3, <1>4, <1>5, Zenon DEF Led
  <2> QED BY <2>1, <2>2, Zenon DEF Led
<1>6. CASE lock # q
  <2>1. \A p \in Queries \ {q} : query'[p] = query[p]
    BY <1>1, <1>2, <1>6, Zenon DEF Led
  <2>2. lock' = lock /\ lock \in Queries \cup {"none"}
    BY <1>2, <1>6, Zenon DEF Asking
  <2> QED BY <1>2, <1>3, <1>6, <2>1, <2>2, Zenon DEF Led
<1> QED BY <1>5, <1>6, Zenon

(* A query that goes on without ending. *)
LEMMA GoesOnLed ==
    ASSUME Asking, Led, NEW q \in Queries, query[q].at \notin {"off", "wait"}, UNCHANGED lock,
           \A p \in Queries \ {q} : query'[p] = query[p],
           query'[q].at \notin {"off", "wait"}
    PROVE  Led'
BY Zenon DEF Asking, Led

LEMMA NextLed ==
    ASSUME Asking, Led, [CacheNext]_cacheVars
    PROVE  Led'
<1>0. "none" \notin Queries
  BY CacheAssumption, Zenon
<1>1. ASSUME UNCHANGED <<lock, query>> PROVE Led'
  BY <1>1, Zenon DEF Led
<1>2. ASSUME NEW q \in Queries, Exchange(q) PROVE Led'
  <2>1. CASE lock = "none"
    <3>1. lock' = q /\ query' = [query EXCEPT ![q].at = "load"]
      BY <1>2, <2>1, Zenon DEF Exchange
    <3>2. query'[q].at = "load" /\ \A p \in Queries \ {q} : query'[p] = query[p]
      BY <3>1 DEF Asking
    <3> QED BY <1>0, <2>1, <3>1, <3>2, Zenon DEF Led
  <2>2. CASE lock # "none"
    <3> DEFINE w == [at |-> "wait", answer |-> Empty, leader |-> lock]
    <3>1. UNCHANGED lock /\ query' = [query EXCEPT ![q] = w] /\ query[q].at = "off"
      BY <1>2, <2>2, Zenon DEF Exchange
    <3>2. w.at = "wait" /\ w.leader = lock
      BY Zenon
    <3> HIDE DEF w
    <3>3. query'[q] = w /\ \A p \in Queries \ {q} : query'[p] = query[p]
      BY <3>1, Zenon DEF Asking
    <3>4. lock \in Queries /\ lock # q
      BY <2>2, <3>1, Zenon DEF Asking, Led
    <3> QED BY <2>2, <3>1, <3>2, <3>3, <3>4, Zenon DEF Led
  <2> QED BY <2>1, <2>2, Zenon
<1>3. ASSUME NEW q \in Queries,
             WaitCancelled(q) \/ LoadHit(q) \/ RejectedCached(q) \/ AnswerFails(q) \/ Got(q)
      PROVE  Led'
  <2>1. query[q].at # "off" /\ Ended(q)
    BY <1>3, Zenon DEF WaitCancelled, LoadHit, RejectedCached, AnswerFails, Got
  <2> QED BY <2>1, EndedLed, Zenon
<1>4. ASSUME NEW q \in Queries, LoadMiss(q) \/ Remove(q) \/ Answer(q) PROVE Led'
  <2>1. query[q].at \in {"load", "remove", "ask"} /\ UNCHANGED lock
    BY <1>4, Zenon DEF LoadMiss, Remove, Answer
  <2>2. /\ query'[q].at \in {"remove", "ask", "got"}
        /\ \A p \in Queries \ {q} : query'[p] = query[p]
    BY <1>4 DEF LoadMiss, Remove, Answer, Asking
  <2> QED BY <2>1, <2>2, GoesOnLed, Zenon
<1>5. CASE Restart
  <2>1. lock' = "none" /\ \A q \in Queries : query'[q] = Idle
    BY <1>5, Zenon DEF Restart
  <2>2. Idle.at = "off"
    BY Zenon DEF Idle
  <2> QED BY <2>1, <2>2, Zenon DEF Led
<1>6. ASSUME NEW q \in Queries, QuestionCache(q) PROVE UNCHANGED <<lock, query>>
  BY <1>6, Zenon DEF QuestionCache
<1>7. CASE \/ RefreshAnswer \/ Refresh \/ ClearCache \/ ClearBucket \/ cleanupDNSCache
           \/ RDRCExpires \/ UNCHANGED cacheVars
           \/ (\E f \in Flushers : Flush(f)) \/ (\E a \in Answers : Older(a))
  <2>1. UNCHANGED <<lock, query>>
    BY <1>7, Zenon DEF RefreshAnswer, Refresh, RefreshFails, RefreshDone, ClearCache, ClearBucket,
                cleanupDNSCache, RDRCExpires, cacheVars, Flush, FlushRead, FlushSave, FlushFails,
                FlushEnd, Older
  <2> QED BY <1>1, <2>1, Zenon
<1> QED BY <1>1, <1>2, <1>3, <1>4, <1>5, <1>6, <1>7, Zenon DEF CacheNext, Step

(* A goroutine that flushes stops only when nothing is queued. *)
LEMMA NextFlushed ==
    ASSUME Store, Flushed, [CacheNext]_cacheVars
    PROVE  Flushed'
<1>1. ASSUME UNCHANGED <<pending, flusher>> PROVE Flushed'
  BY <1>1, Zenon DEF Flushed
<1>2. ASSUME NEW f \in Flushers, NEW r, flusher' = [flusher EXCEPT ![f] = r], r.at # "off"
      PROVE  Flushed'
  <2>1. flusher'[f] = r
    BY <1>2, Zenon DEF Store
  <2> QED BY <1>2, <2>1, Zenon DEF Flushed
<1>3. ASSUME NEW a, Queue(a) PROVE Flushed'
  <2>1. CASE StartsFlush
    <3>1. PICK f \in Flushers : flusher' = [flusher EXCEPT ![f] = Flushes]
      BY <1>3, <2>1, Zenon DEF Queue
    <3>2. Flushes.at # "off"
      BY Zenon DEF Flushes
    <3> QED BY <1>2, <3>1, <3>2, Zenon
  <2>2. CASE ~StartsFlush
    BY <1>3, <2>2, Zenon DEF Queue, StartsFlush, Flushed
  <2> QED BY <2>1, <2>2, Zenon
<1>4. ASSUME NEW a, NEW checked, storeCache(a, checked) PROVE Flushed'
  BY <1>1, <1>3, <1>4, Zenon DEF storeCache
<1>5. ASSUME NEW q \in Queries, Got(q) PROVE Flushed'
  BY <1>1, <1>4, <1>5, Zenon DEF Got
<1>6. CASE RefreshDone
  BY <1>1, <1>4, <1>6, Zenon DEF RefreshDone
<1>7. ASSUME pending' = NoPending PROVE Flushed'
  BY <1>7, Zenon DEF Flushed, NoPending
<1>8. ASSUME NEW f \in Flushers, FlushRead(f) PROVE Flushed'
  <2>1. CASE pending = NoPending
    BY <1>7, <1>8, <2>1, Zenon DEF FlushRead
  <2>2. CASE pending # NoPending
    <3> DEFINE r == [at |-> "save", answer |-> pending.answer, sequence |-> pending.sequence]
    <3>1. flusher' = [flusher EXCEPT ![f] = r]
      BY <1>8, <2>2, Zenon DEF FlushRead
    <3>2. r.at # "off"
      BY Zenon
    <3> HIDE DEF r
    <3> QED BY <1>2, <3>1, <3>2, Zenon
  <2> QED BY <2>1, <2>2, Zenon
<1>9. ASSUME NEW f \in Flushers, FlushSave(f) \/ FlushFails(f) PROVE Flushed'
  <2>1. flusher' = [flusher EXCEPT ![f].at = "saved"]
    BY <1>9, Zenon DEF FlushSave, FlushFails
  <2>2. flusher'[f].at = "saved"
    BY <2>1, Zenon DEF Store
  <2> QED BY <2>2, Zenon DEF Flushed
<1>10. ASSUME NEW f \in Flushers, FlushEnd(f) PROVE Flushed'
  <2>1. \/ pending' = NoPending \/ flusher' = [flusher EXCEPT ![f] = Flushes]
    BY <1>10, Zenon DEF FlushEnd, Dequeued
  <2>2. Flushes.at # "off"
    BY Zenon DEF Flushes
  <2> QED BY <1>2, <1>7, <2>1, <2>2, Zenon
<1>11. CASE ClearCache \/ Restart
  BY <1>7, <1>11, Zenon DEF ClearCache, Restart
<1>12. ASSUME NEW q \in Queries,
              \/ QuestionCache(q) \/ Exchange(q) \/ WaitCancelled(q) \/ LoadHit(q) \/ LoadMiss(q)
              \/ Remove(q) \/ RejectedCached(q) \/ Answer(q) \/ AnswerFails(q)
       PROVE  UNCHANGED <<pending, flusher>>
  BY <1>12, Zenon DEF QuestionCache, Exchange, WaitCancelled, LoadHit, LoadMiss, Remove,
               RejectedCached, Answer, AnswerFails
<1>13. CASE \/ RefreshAnswer \/ RefreshFails \/ ClearBucket \/ cleanupDNSCache \/ RDRCExpires
            \/ UNCHANGED cacheVars \/ (\E a \in Answers : Older(a))
  <2>1. UNCHANGED <<pending, flusher>>
    BY <1>13, Zenon DEF RefreshAnswer, RefreshFails, ClearBucket, cleanupDNSCache, RDRCExpires,
                cacheVars, Older
  <2> QED BY <1>1, <2>1, Zenon
<1> QED BY <1>1, <1>5, <1>6, <1>8, <1>9, <1>10, <1>11, <1>12, <1>13, Zenon
       DEF CacheNext, Step, Refresh, Flush

(* For any queries, flushing goroutines, answers, clears and restarts: the *)
(* key of cacheLock is never left with a query that has ended, no query    *)
(* waits for another than the one that has the key, and no answer stays in *)
(* the queue of the cache file without a goroutine that flushes it.        *)
(* QueriesEnd rests on this.                                               *)
THEOREM WaitsCorrect == CacheSpec => []NobodyWaitsInVain
<1>1. CacheInit => NobodyWaitsInVain
  <2>1. Idle.at = "off"
    BY Zenon DEF Idle
  <2> QED BY <2>1, Zenon DEF CacheInit, NobodyWaitsInVain, Led, Flushed
<1>2. CacheInv /\ NobodyWaitsInVain /\ [CacheNext]_cacheVars => NobodyWaitsInVain'
  BY NextLed, NextFlushed, Zenon DEF CacheInv, NobodyWaitsInVain
<1> QED BY <1>1, <1>2, InitCache, StepCache, PTL DEF CacheSpec
=============================================================================
