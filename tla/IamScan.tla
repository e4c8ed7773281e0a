------------------------------- MODULE IamScan -------------------------------
(***************************************************************************)
(* iam.Scan (internal/iam/analyzer.go): one goroutine per principal behind *)
(* a counting semaphore, all of them appending to one Result under one     *)
(* mutex, and the provider they read through.                              *)
(*                                                                         *)
(* The account is chosen once, in Init, and never changes: what a scan     *)
(* says can then be compared with what a complete reading would have said. *)
(* A failed read has one of two shapes, and Faults says which the provider *)
(* has: "error" returns an error to the scanner (the IAMProvider contract),*)
(* "warn" keeps what was read so far, records a warning on the provider    *)
(* and returns success (what the AWS provider's pagers do).                *)
(***************************************************************************)
EXTENDS IamAnalyze, FiniteSets

CONSTANTS
  Matches,        \* the principals PrincipalFilter lets through
  Concurrency,    \* ScanOptions.Concurrency
  MinSeverity,    \* ScanOptions.MinSeverity
  Requests,       \* the values of ScanOptions.Days
  Limit,          \* cloud.LookbackLimit of the provider; 0 = unbounded
  HasAccountID,   \* whether ListPrincipals fills Metadata["account_id"]
  Faults,         \* the shapes a failed provider read takes
  MaxFaults,      \* bound: how many reads of one scan fail
  Accounts,       \* the accounts: what each principal holds and has done
  NoOne           \* nobody holds the mutex

ASSUME ScanAssumption ==
  /\ IsFiniteSet(Principal)
  /\ Matches \subseteq Principal
  /\ Concurrency \in Int
  /\ Requests \subseteq Int
  /\ Limit \in Nat
  /\ HasAccountID \in BOOLEAN
  /\ Faults \subseteq {"error", "warn"}
  /\ MaxFaults \in Nat
  /\ Accounts \subseteq [Principal ->
       [granted : SUBSET Permission, recent : SUBSET Permission, older : SUBSET Permission]]
  /\ NoOne \notin Principal

VARIABLES
  days,       \* ScanOptions.Days of this scan
  account,    \* the truth: per principal, the grants and the audit-log history
  main,       \* where Scan itself stands
  queue,      \* toScan not yet handed to a goroutine
  sem,        \* the tokens in the semaphore channel, named by their depositors
  pc,         \* where each principal's goroutine stands
  err,        \* which provider call returned an error to it, if any
  granted, used,  \* its local answers
  mu,         \* who holds the mutex
  snap,       \* the slice headers a holder read before it writes them back
  result,     \* the shared Result under construction
  scanned,    \* the atomic counter behind Result.Scanned
  done,       \* doneCount, the attempts Progress has been told of
  warnings    \* what the provider could not read: a line each in its own record, by the reading that left it

input    == <<days, account>>
provider == <<input, warnings>>
local    == <<err, granted, used>>
counters == <<scanned, done>>
vars     == <<days, account, main, queue, sem, pc, err, granted, used, mu, snap, result,
              scanned, done, warnings>>

Slots == IF Concurrency <= 0 THEN 10 ELSE Concurrency

ObservedDays == IF Limit > 0 /\ Limit < days THEN Limit ELSE days
Short        == ObservedDays < days

(* "older" is history beyond the provider's retention: a bounded log never *)
(* answers with it, whatever `since` says.                                 *)
LogAnswer(p) == account[p].recent \cup (IF Limit = 0 THEN account[p].older ELSE {})

(* What the window the caller asked for really contains.                   *)
Activity(p) == account[p].recent \cup (IF Limit = 0 \/ Short THEN account[p].older ELSE {})

(* Seeded fault: a short window is a field of the Result and nothing else.  *)
WindowNoteDropped == {}

WindowNote == IF Short THEN {<<"window", NoOne>>} ELSE {}

EmptyResult == [incomplete |-> {}, used |-> [p \in Principal |-> {}], findings |-> {}]

(* The findings a principal contributes, from the answers its goroutine    *)
(* holds and from the truth.                                               *)
Kept(p) == AboveFloor(Analyze(p, granted[p], used[p], HasAccountID), MinSeverity)
Whole(p) == AboveFloor(Analyze(p, account[p].granted, Activity(p), HasAccountID), MinSeverity)

-----------------------------------------------------------------------------
Init ==
  /\ days \in Requests
  /\ account \in Accounts
  /\ main = "list"
  /\ queue = {}
  /\ sem = {}
  /\ pc = [p \in Principal |-> "idle"]
  /\ err = [p \in Principal |-> "none"]
  /\ granted = [p \in Principal |-> {}]
  /\ used = [p \in Principal |-> {}]
  /\ mu = NoOne
  /\ snap = [p \in Principal |-> EmptyResult]
  /\ result = EmptyResult
  /\ scanned = 0
  /\ done = 0
  /\ warnings = {}

(* A provider may fail in this way now.                                    *)
MayFail(fault) ==
  /\ fault \in Faults
  /\ Cardinality({p \in Principal : err[p] # "none"}) + Cardinality(warnings) < MaxFaults

Goto(p, label) == pc' = [pc EXCEPT ![p] = label]

(* ListPrincipals, the filter, and the window entry Scan opens Incomplete  *)
(* with.  A listing that failed partway is short and warned about; one     *)
(* that returned an error ends the scan with an empty Result.              *)
Listed(L) ==
  /\ queue' = L \cap Matches
  /\ result' = [result EXCEPT !.incomplete = WindowNote]
  /\ main' = "spawn"

ListPrincipals ==
  /\ main = "list"
  /\ \/ Listed(Principal) /\ UNCHANGED warnings
     \/ /\ MayFail("warn")
        /\ \E L \in SUBSET Principal : Listed(L)
        /\ warnings' = warnings \cup {<<"list", NoOne>>}
     \/ /\ MayFail("error")
        /\ main' = "failed"
        /\ UNCHANGED <<queue, result, warnings>>
  /\ UNCHANGED <<input, sem, pc, local, mu, snap, counters>>

(* Seeded fault: the token is taken after the goroutine is started.         *)
SpawnOneTooMany(p) ==
  /\ main = "spawn"
  /\ p \in queue
  /\ Cardinality(sem) <= Slots
  /\ queue' = queue \ {p}
  /\ sem' = sem \cup {p}
  /\ Goto(p, "granted")
  /\ UNCHANGED <<provider, main, local, mu, snap, result, counters>>

(* sem <- struct{}{} and g.Go: the loop blocks while the channel is full.  *)
Spawn(p) ==
  /\ main = "spawn"
  /\ p \in queue
  /\ Cardinality(sem) < Slots
  /\ queue' = queue \ {p}
  /\ sem' = sem \cup {p}
  /\ Goto(p, "granted")
  /\ UNCHANGED <<provider, main, local, mu, snap, result, counters>>

Wait ==
  /\ main = "spawn"
  /\ queue = {}
  /\ main' = "wait"
  /\ UNCHANGED <<provider, queue, sem, pc, local, mu, snap, result, counters>>

(* Seeded fault: Scan returns as soon as everything has been spawned.       *)
ReturnUnjoined ==
  /\ main = "wait"
  /\ main' = "returned"
  /\ UNCHANGED <<provider, queue, sem, pc, local, mu, snap, result, counters>>

(* g.Wait returns once every goroutine has run its deferred call.          *)
Return ==
  /\ main = "wait"
  /\ \A p \in Principal : pc[p] \in {"idle", "finished"}
  /\ main' = "returned"
  /\ UNCHANGED <<provider, queue, sem, pc, local, mu, snap, result, counters>>

-----------------------------------------------------------------------------
(* The provider calls of one goroutine.                                    *)
GrantedPermissions(p) ==
  /\ pc[p] = "granted"
  /\ \/ /\ granted' = [granted EXCEPT ![p] = account[p].granted]
        /\ Goto(p, "used")
        /\ UNCHANGED <<err, warnings>>
     \/ /\ MayFail("warn")
        /\ \E S \in SUBSET account[p].granted : granted' = [granted EXCEPT ![p] = S]
        /\ warnings' = warnings \cup {<<"granted", p>>}
        /\ Goto(p, "used")
        /\ UNCHANGED err
     \/ /\ MayFail("error")
        /\ err' = [err EXCEPT ![p] = "granted"]
        /\ Goto(p, "wantIncomplete")
        /\ UNCHANGED <<granted, warnings>>
  /\ UNCHANGED <<input, main, queue, sem, used, mu, snap, result, counters>>

(* Seeded fault: the error is dropped and the empty answer is analysed.     *)
UsedPermissionsErrDropped(p) ==
  /\ pc[p] = "used"
  /\ \/ used' = [used EXCEPT ![p] = LogAnswer(p)]
     \/ MayFail("error") /\ UNCHANGED used
  /\ Goto(p, "scanned")
  /\ UNCHANGED <<input, main, queue, sem, err, granted, mu, snap, result, counters, warnings>>

(* Seeded fault: the goroutine forgets which call failed.                   *)
UsedPermissionsErrUnnamed(p) ==
  /\ pc[p] = "used"
  /\ \/ used' = [used EXCEPT ![p] = LogAnswer(p)] /\ Goto(p, "scanned")
     \/ MayFail("error") /\ Goto(p, "wantIncomplete") /\ UNCHANGED used
  /\ UNCHANGED <<input, main, queue, sem, err, granted, mu, snap, result, counters, warnings>>

UsedPermissions(p) ==
  /\ pc[p] = "used"
  /\ \/ /\ used' = [used EXCEPT ![p] = LogAnswer(p)]
        /\ Goto(p, "scanned")
        /\ UNCHANGED <<err, warnings>>
     \/ /\ MayFail("warn")
        /\ \E S \in SUBSET LogAnswer(p) : used' = [used EXCEPT ![p] = S]
        /\ warnings' = warnings \cup {<<"used", p>>}
        /\ Goto(p, "scanned")
        /\ UNCHANGED err
     \/ /\ MayFail("error")
        /\ err' = [err EXCEPT ![p] = "used"]
        /\ Goto(p, "wantIncomplete")
        /\ UNCHANGED <<used, warnings>>
  /\ UNCHANGED <<input, main, queue, sem, granted, mu, snap, result, counters>>

(* Where the goroutine goes once its used-set is dealt with: to the lock   *)
(* if it has findings to append, to the deferred call if it has none.      *)
AfterAnalysis(p) == IF Kept(p) # {} THEN "wantFindings" ELSE "release"

(* scanned.Add(1), and the guard that keeps an empty used-set out of the   *)
(* map.                                                                    *)
CountScanned(p) ==
  /\ pc[p] = "scanned"
  /\ scanned' = scanned + 1
  /\ Goto(p, IF used[p] # {} THEN "wantUsed" ELSE AfterAnalysis(p))
  /\ UNCHANGED <<provider, main, queue, sem, local, mu, snap, result, done>>

(* mu.Lock.  append reads the slice header and writes it back, so a holder *)
(* works from the Result it found on entry.                                *)
Section == [wantIncomplete |-> "inIncomplete", wantUsed |-> "inUsed", wantFindings |-> "inFindings"]

(* Seeded fault: the append is not under the mutex.                         *)
LockIgnored(p) ==
  /\ pc[p] \in DOMAIN Section
  /\ mu' = p
  /\ snap' = [snap EXCEPT ![p] = result]
  /\ Goto(p, Section[pc[p]])
  /\ UNCHANGED <<provider, main, queue, sem, local, result, counters>>

Lock(p) ==
  /\ pc[p] \in DOMAIN Section
  /\ mu = NoOne
  /\ mu' = p
  /\ snap' = [snap EXCEPT ![p] = result]
  /\ Goto(p, Section[pc[p]])
  /\ UNCHANGED <<provider, main, queue, sem, local, result, counters>>

Unlock(p) ==
  /\ mu' = NoOne
  /\ snap' = [snap EXCEPT ![p] = EmptyResult]

AppendIncomplete(p) ==
  /\ pc[p] = "inIncomplete"
  /\ result' = [result EXCEPT !.incomplete = snap[p].incomplete \cup {<<err[p], p>>}]
  /\ Unlock(p)
  /\ Goto(p, "release")
  /\ UNCHANGED <<provider, main, queue, sem, local, counters>>

StoreUsed(p) ==
  /\ pc[p] = "inUsed"
  /\ result' = [result EXCEPT !.used = [snap[p].used EXCEPT ![p] = used[p]]]
  /\ Unlock(p)
  /\ Goto(p, AfterAnalysis(p))
  /\ UNCHANGED <<provider, main, queue, sem, local, counters>>

AppendFindings(p) ==
  /\ pc[p] = "inFindings"
  /\ result' = [result EXCEPT !.findings = snap[p].findings \cup Kept(p)]
  /\ Unlock(p)
  /\ Goto(p, "release")
  /\ UNCHANGED <<provider, main, queue, sem, local, counters>>

(* Seeded fault: the token is never given back.                             *)
ReleaseLeaked(p) ==
  /\ pc[p] = "release"
  /\ Goto(p, "tally")
  /\ UNCHANGED <<provider, main, queue, sem, local, mu, snap, result, counters>>

(* The deferred call: the token goes back first, then the attempt is       *)
(* counted.                                                                *)
Release(p) ==
  /\ pc[p] = "release"
  /\ sem' = sem \ {p}
  /\ Goto(p, "tally")
  /\ UNCHANGED <<provider, main, queue, local, mu, snap, result, counters>>

(* doneCount.Add and the Progress callback it feeds.                       *)
Finish(p) ==
  /\ pc[p] = "tally"
  /\ done' = done + 1
  /\ Goto(p, "finished")
  /\ UNCHANGED <<provider, main, queue, sem, local, mu, snap, result, scanned>>

Worker(p) ==
  \/ GrantedPermissions(p) \/ UsedPermissions(p) \/ CountScanned(p)
  \/ Lock(p) \/ AppendIncomplete(p) \/ StoreUsed(p) \/ AppendFindings(p)
  \/ Release(p) \/ Finish(p)

Main == ListPrincipals \/ (\E p \in Principal : Spawn(p)) \/ Wait \/ Return

Ended == main \in {"returned", "failed"}

(* The process stops here; the disjunct keeps the end of a scan apart from *)
(* a deadlock.                                                             *)
Terminated == Ended /\ UNCHANGED vars

Next == Main \/ (\E p \in Principal : Worker(p)) \/ Terminated

Spec == Init /\ [][Next]_vars

(* Go runs every runnable goroutine, and every provider call returns: each *)
(* AWS operation carries a deadline (awsOpTimeout).                        *)
FairSpec == Spec /\ WF_vars(Main) /\ \A p \in Principal : WF_vars(Worker(p))

-----------------------------------------------------------------------------
Labels == {"idle", "granted", "used", "scanned", "wantIncomplete", "wantUsed", "wantFindings",
           "inIncomplete", "inUsed", "inFindings", "release", "tally", "finished"}

ResultType == [incomplete : SUBSET ({"window", "granted", "used"} \X (Principal \cup {NoOne})),
               used       : [Principal -> SUBSET Permission],
               findings   : SUBSET Finding]

(* Every variable ranges over what the Go types and the program counter    *)
(* admit.                                                                  *)
TypeOK ==
  /\ days \in Requests
  /\ account \in Accounts
  /\ main \in {"list", "spawn", "wait", "returned", "failed"}
  /\ queue \subseteq Principal
  /\ sem \subseteq Principal
  /\ pc \in [Principal -> Labels]
  /\ err \in [Principal -> {"none", "granted", "used"}]
  /\ granted \in [Principal -> SUBSET Permission]
  /\ used \in [Principal -> SUBSET Permission]
  /\ mu \in Principal \cup {NoOne}
  /\ snap \in [Principal -> ResultType]
  /\ result \in ResultType
  /\ scanned \in Nat
  /\ done \in Nat
  /\ warnings \subseteq {"list", "granted", "used"} \X (Principal \cup {NoOne})

(* The principals with a goroutine, and those whose comparison was made.   *)
Attempted == {p \in Principal : pc[p] # "idle"}
Analysed  == {p \in Attempted : err[p] = "none" /\ pc[p] \notin {"granted", "used", "scanned"}}
UnreadPrincipals == {p \in Principal : \E w \in {"granted", "used"} : <<w, p>> \in result.incomplete}

(* No more than Concurrency provider calls are ever in flight, whatever    *)
(* order goroutines start, fail and give their tokens back in: the         *)
(* semaphore of Scan bounds the load on a throttled API.                   *)
BoundedReads == Cardinality({p \in Principal : pc[p] \in {"granted", "used"}}) <= Slots

(* A returned Result accounts for every attempt: the findings of each      *)
(* analysed principal are all there and nobody else's are, each of the     *)
(* others is named in Incomplete, Scanned counts the analysed only           *)
(* (Result.Scanned) and doneCount every attempt.  A lost append breaks it. *)
NothingLost ==
  main = "returned" =>
    /\ result.findings = UNION {Kept(p) : p \in Analysed}
    /\ UnreadPrincipals = Attempted \ Analysed
    /\ \A p \in Principal : result.used[p] = IF p \in Analysed THEN used[p] ELSE {}
    /\ scanned = Cardinality(Analysed)
    /\ done = Cardinality(Attempted)

(* A scan that neither lists an Incomplete entry nor left a warning on its *)
(* provider read everything: its findings are exactly those of the whole   *)
(* account over the whole window the caller asked for.  This is what makes *)
(* an empty report evidence of a clean account (cloud.IncompleteReporter). *)
CleanScanIsWhole ==
  (main = "returned" /\ result.incomplete = {} /\ warnings = {}) =>
    result.findings = UNION {Whole(p) : p \in Matches}

(* A finding that a complete reading would not have produced is never      *)
(* published without a trace: the audit log of that very principal was     *)
(* cut short and warned about, or the window itself was narrower than the  *)
(* request and says so.  A principal whose read returned an error adds no  *)
(* finding at all, which is why Scan returns before analyze.  The warning  *)
(* is left by that principal's reading but does not name it                *)
(* (cloudtrail.go:66): a reader learns that one was cut short, not whose.  *)
InventedVerdictIsTraced ==
  \A f \in result.findings :
    \/ f \in Whole(f.principal)
    \/ <<"used", f.principal>> \in warnings
    \/ Short /\ <<"window", NoOne>> \in result.incomplete

(* Scan returns: every attempt ends, every token is given back and the     *)
(* mutex is always released, so the loop never blocks for good.            *)
Terminates == <>Ended
=============================================================================
