------------------------------- MODULE FakeIP -------------------------------
(***************************************************************************)
(* The store of fake addresses (dns/transport/fakeip): it gives domains    *)
(* addresses of a configured range in turn and finds the domain of an      *)
(* address, with the table in memory or in the cache file                  *)
(* (experimental/cachefile/fakeip.go), over several runs of the program    *)
(* that end orderly or by a crash, and with changes of the configuration.  *)
(*                                                                         *)
(* Addresses are numbers; the families have ranges of their own.           *)
(***************************************************************************)
EXTENDS Naturals

CONSTANTS
    Domains,
    Callers,     \* goroutines that answer a query for an address
    Configs,     \* configurations: family -> range, [first, last]; last < first: not configured
    MaxRuns      \* bound: starts of the program

Families == {"4", "6"}
Valid(range) == range.first <= range.last
Within(range) == range.first..range.last
Addresses == UNION {Within(c[f]) : c \in Configs, f \in Families}
FamilyOf(a) == CHOOSE f \in Families : \E c \in Configs : a \in Within(c[f])

None == "none"

(* A range has a network address, one after it, one to give out, and a     *)
(* broadcast address.  0 is no address.                                    *)
ASSUME ConfigsAssumption ==
    /\ \A c \in Configs, f \in Families :
         /\ c[f].first \in Nat /\ c[f].last \in Nat
         /\ Valid(c[f]) => c[f].first > 0 /\ c[f].last >= c[f].first + 3
    /\ \A c, d \in Configs : Within(c["4"]) \cap Within(d["6"]) = {}
    /\ None \notin Domains

VARIABLES
    inFile,     \* store_fakeip: the table is in the cache file
    phase,      \* of the program: "stopped", "running", "closing" (store closed, file open)
    config,     \* the configuration of this run
    current,    \* inet4Current, inet6Current; 0 when not valid
    domainOf,   \* table: address -> domain
    addressOf,  \* tables per family: domain -> address
    buckets,    \* buckets of the cache file that exist: "address", "4", "6"
    metadata,   \* the saved metadata: <<config, current>>, or none
    timer,      \* saveMetadataTimer: what it saves, and whether it is set
    asking,     \* per caller: <<domain, family>> not found by the first look, or none
    runs,       \* starts so far
    given,      \* history variable: pairs of addresses given out in this run (see Gave)
    answer,     \* history variable: the last answer
    lastSave,   \* history variable: what happened last to the saved turn
    resetFailed \* history variable: the last reset failed, with addresses in the table

vars == <<inFile, phase, config, current, domainOf, addressOf, buckets, metadata, timer, asking, runs, given,
          answer, lastSave, resetFailed>>

NoMetadata == <<>>
NoTimer == [saves |-> NoMetadata, set |-> FALSE]
NoAnswer == [domain |-> None, family |-> "4", address |-> 0]
NotAsking == [p \in Callers |-> <<>>]
EmptyDomains == [a \in Addresses |-> None]
EmptyAddresses == [f \in Families |-> [d \in Domains |-> 0]]

TypeOK ==
    /\ config \in Configs /\ phase \in {"stopped", "running", "closing"}
    /\ domainOf \in [Addresses -> Domains \cup {None}]
    /\ addressOf \in [Families -> [Domains -> Addresses \cup {0}]]
    /\ asking \in [Callers -> {<<>>} \cup (Domains \X Families)]
    /\ resetFailed \in BOOLEAN

Init ==
    /\ inFile \in BOOLEAN /\ phase = "stopped" /\ config \in Configs
    /\ current = [f \in Families |-> 0]
    /\ domainOf = EmptyDomains /\ addressOf = EmptyAddresses
    /\ buckets = {} /\ metadata = NoMetadata /\ timer = NoTimer /\ asking = NotAsking /\ runs = 0
    /\ given = {} /\ answer = NoAnswer /\ lastSave = "none" /\ resetFailed = FALSE
-----------------------------------------------------------------------------
(* FakeIPReset: the cache file deletes three buckets in one transaction,   *)
(* which is undone when one of them does not exist.  The metadata is in    *)
(* the bucket of the addresses.                                            *)
ResetWorks == ~inFile \/ buckets = {"address", "4", "6"}

FakeIPReset ==
    IF ResetWorks
      THEN /\ domainOf' = EmptyDomains /\ addressOf' = EmptyAddresses /\ buckets' = {}
           /\ resetFailed' = FALSE
      ELSE /\ resetFailed' = (domainOf # EmptyDomains)
           /\ UNCHANGED <<domainOf, addressOf, buckets>>

(* FakeIPMetadata reads the saved metadata and deletes them with it. *)
TakeMetadata == metadata' = NoMetadata

(* Store.Start takes the saved metadata out of the file; a memory table    *)
(* has none, and is empty.                                                 *)
FirstOf(c, f) == IF Valid(c[f]) THEN c[f].first + 1 ELSE 0

SameRanges(c) == metadata # NoMetadata /\ metadata[1] = c

Start(c) ==
    /\ phase = "stopped" /\ runs < MaxRuns
    /\ phase' = "running" /\ runs' = runs + 1 /\ config' = c
    /\ TakeMetadata
    /\ IF SameRanges(c)
         THEN /\ current' = metadata[2]
              /\ UNCHANGED <<domainOf, addressOf, buckets, resetFailed>>
         ELSE /\ current' = [f \in Families |-> FirstOf(c, f)]
              /\ FakeIPReset
    /\ timer' = NoTimer /\ given' = {} /\ answer' = NoAnswer /\ lastSave' = "none"
    /\ UNCHANGED <<inFile, asking>>

(* Transport.Exchange for a configured family, and the look of             *)
(* Store.Create before it takes the lock.                                  *)
Ask(p, d, f) ==
    /\ phase = "running" /\ asking[p] = <<>> /\ Valid(config[f])
    /\ IF addressOf[f][d] # 0
         THEN /\ answer' = [domain |-> d, family |-> f, address |-> addressOf[f][d]]
              /\ UNCHANGED asking
         ELSE asking' = [asking EXCEPT ![p] = <<d, f>>] /\ UNCHANGED answer
    /\ UNCHANGED <<inFile, phase, config, current, domainOf, addressOf, buckets, metadata, timer, runs,
                   given, lastSave, resetFailed>>

(* The rest of Store.Create, under the lock: it looks again, takes the     *)
(* next address of the family, stores it (FakeIPStore) and sets the timer  *)
(* (FakeIPSaveMetadataAsync).                                              *)
NextInRange(f) == IF current[f] + 1 \notin Within(config[f]) THEN config[f].first + 2 ELSE current[f] + 1
NextSkips(f) == IF current[f] + 2 >= config[f].last THEN config[f].first + 2 ELSE current[f] + 2
NextAddress(f) ==
    IF current[f] + 1 = config[f].last \/ current[f] + 1 \notin Within(config[f])
      THEN config[f].first + 2 ELSE current[f] + 1

Reassigned(f, d, a) ==
    [e \in Domains |-> IF e = d THEN a ELSE IF e = domainOf[a] THEN 0 ELSE addressOf[f][e]]

FakeIPStore(f, d, a) ==
    /\ domainOf' = [domainOf EXCEPT ![a] = d]
    /\ addressOf' = [addressOf EXCEPT ![f] = Reassigned(f, d, a)]
    /\ buckets' = IF inFile THEN buckets \cup {"address", f} ELSE buckets

(* The timer keeps the metadata of the call that created it. *)
SetTimer(m) ==
    timer' = IF ~inFile THEN timer
             ELSE [saves |-> IF timer.saves = NoMetadata THEN m ELSE timer.saves, set |-> TRUE]

(* <<a, b>> is given: both were given out, and b not before a. *)
Gave(a) ==
    LET others == {b \in Addresses \ {a} : <<b, b>> \in given}
    IN  given' = {pair \in given : pair[1] # a /\ pair[2] # a} \cup {<<b, a>> : b \in others \cup {a}}

LooksOnce(d, f) == 0
LoadDomain(d, f) == addressOf[f][d]

CreateFound(p) ==
    /\ asking[p] # <<>>
    /\ LET d == asking[p][1]
           f == asking[p][2]
       IN  /\ LoadDomain(d, f) # 0
           /\ answer' = [domain |-> d, family |-> f, address |-> LoadDomain(d, f)]
    /\ asking' = [asking EXCEPT ![p] = <<>>]
    /\ UNCHANGED <<inFile, phase, config, current, domainOf, addressOf, buckets, metadata, timer, runs,
                   given, lastSave, resetFailed>>

(* Only the cache file can fail to store; the address is given out all the same. *)
CreateNew(p) ==
    /\ asking[p] # <<>>
    /\ LET d == asking[p][1]
           f == asking[p][2]
           a == NextAddress(f)
       IN  /\ LoadDomain(d, f) = 0
           /\ current' = [current EXCEPT ![f] = a]
           /\ FakeIPStore(f, d, a) \/ (inFile /\ UNCHANGED <<domainOf, addressOf, buckets>>)
           /\ Gave(a)
           /\ answer' = [domain |-> d, family |-> f, address |-> a]
           /\ SetTimer(<<config, [current EXCEPT ![f] = a]>>)
    /\ asking' = [asking EXCEPT ![p] = <<>>]
    /\ UNCHANGED <<inFile, phase, config, metadata, runs, lastSave, resetFailed>>

(* The timer fires; nothing stops it before the file is closed. *)
SaveMetadata ==
    /\ phase # "stopped" /\ timer.set
    /\ timer' = [timer EXCEPT !.set = FALSE]
    /\ metadata' = timer.saves /\ buckets' = buckets \cup {"address"} /\ lastSave' = "timer"
    /\ UNCHANGED <<inFile, phase, config, current, domainOf, addressOf, asking, runs, given, answer,
                   resetFailed>>

(* Store.Reset, and the flush of the Clash API. *)
Reset ==
    /\ phase = "running"
    /\ FakeIPReset
    /\ metadata' = IF ResetWorks THEN NoMetadata ELSE metadata
    /\ answer' = NoAnswer
    /\ UNCHANGED <<inFile, phase, config, current, timer, asking, runs, given, lastSave>>

(* Store.Close *)
SavedAtStart == <<config, [f \in Families |-> FirstOf(config, f)]>>
Saved == <<config, current>>

Close ==
    /\ phase = "running" /\ asking = NotAsking
    /\ phase' = "closing"
    /\ IF inFile THEN metadata' = Saved /\ buckets' = buckets \cup {"address"} /\ lastSave' = "close"
                 ELSE UNCHANGED <<metadata, buckets, lastSave>>
    /\ UNCHANGED <<inFile, config, current, domainOf, addressOf, timer, asking, runs, given, answer,
                   resetFailed>>

(* The program ends: after Close, or by a crash. *)
End ==
    /\ phase # "stopped"
    /\ phase' = "stopped" /\ asking' = NotAsking
    /\ UNCHANGED <<inFile, config, current, domainOf, addressOf, buckets, metadata, timer, runs, given,
                   answer, lastSave, resetFailed>>
-----------------------------------------------------------------------------
Next ==
    \/ \E c \in Configs : Start(c)
    \/ \E p \in Callers : \/ \E d \in Domains, f \in Families : Ask(p, d, f)
                          \/ CreateFound(p) \/ CreateNew(p)
    \/ SaveMetadata \/ Reset \/ Close \/ End

Spec == Init /\ [][Next]_vars
-----------------------------------------------------------------------------
(* The tables agree, whatever calls for the same domain, reassignments,    *)
(* resets, crashes and restarts there were: a domain has an address        *)
(* exactly when the address leads back to it.                              *)
TablesAgree ==
    \A a \in Addresses, d \in Domains : domainOf[a] = d <=> addressOf[FamilyOf(a)][d] = a

(* Create answers with addresses of the configured range, without its      *)
(* network address, the one after it, and its broadcast address, unless    *)
(* the last reset of the table failed.                                     *)
Usable(c, f) == c[f].first + 2 .. c[f].last - 1
GivenUsable == answer.address # 0 /\ ~resetFailed => answer.address \in Usable(config, answer.family)

(* An address given out in this run is given to another domain only when   *)
(* all usable ones of its family have been given, and it is the one given  *)
(* longest ago.                                                            *)
OldestFirst ==
    [][\A p \in Callers : CreateNew(p) =>
         LET a == answer'.address
         IN  <<a, a>> \in given => \A b \in Usable(config, asking[p][2]) : <<a, b>> \in given]_vars

(* After an orderly end in which the timer did not fire after Close, and a *)
(* start with the same ranges, the addresses given out before are still    *)
(* known and the turn goes on where it was.                                *)
RestartContinues ==
    [][\A c \in Configs : Start(c) /\ inFile /\ lastSave = "close" /\ c = config =>
         domainOf' = domainOf /\ addressOf' = addressOf /\ current' = current]_vars

(* The addresses that a fakeip server answers with are of its configured   *)
(* range, which fails after a reset that failed.                           *)
GivenInRange == answer.address # 0 => answer.address \in Within(config[answer.family])
=============================================================================
