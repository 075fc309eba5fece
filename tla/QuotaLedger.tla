---------------------------- MODULE QuotaLedger ----------------------------
(***************************************************************************)
(* What the quotas of an organization promise: an admission is one         *)
(* indivisible step, taken only while there is room under the limits the   *)
(* request was given, and nothing else ever adds to a count.  No lock,     *)
(* transaction, audit row or failure appears here: module QuotaAdmission   *)
(* says how the requests are meant to keep this promise.                   *)
(***************************************************************************)
EXTENDS Integers, FiniteSets

CONSTANTS
    Requests,   \* who may be admitted, each once
    Kinds,      \* what is admitted
    Stocks,     \* the kinds that hold quota while they live, not for a day
    LimitRows,  \* limits a request may be given
    Horizon,    \* how long an evaluation counts as active
    DayLength

VARIABLES
    now,     \* the clock
    entries  \* kind, stamp, terms and state of each admitted request

vars == <<now, entries>>

Day(t) == t \div DayLength

Init ==
    /\ now = 0
    /\ entries = [r \in {} |-> 0]

\* What the quota of a kind counts, and the evaluations that count as active.
Used(k) ==
    {r \in DOMAIN entries :
        /\ entries[r].kind = k
        /\ IF k \in Stocks THEN entries[r].state = "live" ELSE Day(entries[r].stamp) >= Day(now)}

Active ==
    {r \in DOMAIN entries :
        /\ entries[r].kind = "evaluation" /\ entries[r].state = "live"
        /\ entries[r].stamp >= now - Horizon}

\* The stamp is a time at which the request was under way already.
Admit(r) ==
    /\ r \notin DOMAIN entries
    /\ \E k \in Kinds, t \in 0..now, terms \in LimitRows :
          /\ Cardinality(Used(k)) < terms[k]
          /\ k = "evaluation" => Cardinality(Active) < terms["concurrent"]
          /\ entries' = [x \in DOMAIN entries \cup {r} |->
                            IF x = r THEN [kind |-> k, stamp |-> t, terms |-> terms, state |-> "live"]
                                     ELSE entries[x]]
    /\ UNCHANGED now

\* A run reaches a terminal status, a row is deleted, a test is over.
End(r) ==
    /\ r \in DOMAIN entries /\ entries[r].state = "live"
    /\ entries' = [entries EXCEPT ![r].state = "ended"]
    /\ UNCHANGED now

Tick ==
    /\ now' = now + 1
    /\ UNCHANGED entries

Next == Tick \/ \E r \in Requests : Admit(r) \/ End(r)

Spec == Init /\ [][Next]_vars

=============================================================================
