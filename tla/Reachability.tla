---------------------------- MODULE Reachability ----------------------------
(***************************************************************************)
(* Whether this profile can be dialled directly: the addresses it may      *)
(* claim, the servers it asks, what they answer and the verdict            *)
(* (reachability.rs of crates/transport/runtime, autonat_driver.rs and     *)
(* candidate_scope.rs of crates/transport/libp2p and the vendored AutoNAT  *)
(* client).                                                                *)
(*                                                                         *)
(* Every timestamp is kept as the time left before it stops to matter.     *)
(***************************************************************************)
EXTENDS Naturals, FiniteSets, FiniteSetsExt, Sequences, SequencesExt, Maps

CONSTANTS
    Addresses,        \* addresses this profile may be told it has
    Probeable,        \* those `is_probeable_address` accepts
    Servers,          \* AutoNAT servers
    NoServer,         \* none of them
    Threshold,        \* `required_distinct_successes`
    EvidenceTTL,      \* `success_evidence_ttl_ms`
    Refresh,          \* `refresh_interval_ms`
    RetryBase,        \* RETRY_BASE_MS, and SILENCE_MS
    RetryCap,         \* the longest `retry_backoff_ms`
    CrateTick,        \* CRATE_TICK_MS
    MaxTracked,       \* MAX_TRACKED_CANDIDATES
    MaxObservedEver,  \* MAX_OBSERVED_EVER
    MaxLearnedServers \* MAX_LEARNED_SERVERS

ASSUME ReachabilityAssumption ==
    /\ IsFiniteSet(Addresses) /\ IsFiniteSet(Servers)
    /\ Probeable \subseteq Addresses /\ NoServer \notin Servers
    /\ {Threshold, EvidenceTTL, Refresh, RetryBase, MaxTracked} \subseteq Nat \ {0}
    /\ {RetryCap, CrateTick, MaxObservedEver, MaxLearnedServers} \subseteq Nat
    /\ Refresh < EvidenceTTL

\* `retry_backoff_ms`, and the failures past which it stays the same.
RetryBackoff(failures) == Min({RetryBase * 2^failures, RetryCap})
MaxFailures == Min({n \in 0..RetryCap : RetryBase * 2^n >= RetryCap})

Less(n) == IF n > 0 THEN n - 1 ELSE 0

-----------------------------------------------------------------------------
(* ReachabilityManager. *)

\* `Evidence` of one server on one address: what is left of its last success
\* and of its last failure; 0 if there is none or it lapsed.
Silent == [success |-> 0, failure |-> 0]

Unknown == [state |-> "Unknown", verified |-> {}, until |-> 0]

\* `ReachabilityManager::new`.
NewManager ==
    [candidates |-> {}, servers |-> {}, verdict |-> Unknown,
     evidence |-> [a \in Addresses |-> [s \in Servers |-> Silent]]]

Saying(m, a) == {s \in Servers : m.evidence[a][s].success > 0 /\ m.evidence[a][s].failure = 0}
Denying(m, a) == {s \in Servers : m.evidence[a][s].failure > 0}
Reversed(m, a) == {s \in Denying(m, a) : m.evidence[a][s].success > 0}
Said(m, a) == Saying(m, a) \cup Reversed(m, a)

\* The rule of `derive` for one address.
IsVerified(m, a) ==
    /\ \/ Cardinality(Saying(m, a)) >= Threshold
       \/ /\ a \in m.verdict.verified /\ Saying(m, a) # {}
          /\ Cardinality(Said(m, a)) >= Threshold
    /\ Cardinality(Denying(m, a)) < 2

\* Mutant of LeavesIn: the first success to lapse ends the verdict.
LeavesWithTheFirst(m, a) == Min({m.evidence[a][s].success : s \in Said(m, a)})

\* `evidence_until_ms` of one address, as the time left: when too few servers
\* have said reachable, or none is left that does not contradict itself.
LeavesIn(m, a) ==
    LET left(s) == m.evidence[a][s].success
        needed == Min({Threshold, Cardinality(Said(m, a))})
        countRunsOut == Max({n \in 1..EvidenceTTL :
                                Cardinality({s \in Said(m, a) : left(s) >= n}) >= needed})
    IN  Min({countRunsOut, Max({left(s) : s \in Saying(m, a)})})

\* `derive`.
Derive(m) ==
    LET verified == {a \in m.candidates : IsVerified(m, a)} IN
    IF verified # {}
    THEN [state |-> "VerifiedPublic", verified |-> verified,
          until |-> Min({LeavesIn(m, a) : a \in verified})]
    ELSE IF \E a \in m.candidates : Denying(m, a) # {}
    THEN [Unknown EXCEPT !.state = "NotVerified"]
    ELSE Unknown

\* `rederive`, `expire_evidence`.
Rederive(m) == [m EXCEPT !.verdict = Derive(m)]

\* `set_candidates`: evidence about an address that is gone is dropped.
SetCandidates(m, candidates) ==
    Rederive([m EXCEPT !.candidates = candidates,
                       !.evidence = [a \in Addresses |->
                           IF a \in candidates THEN @[a] ELSE [s \in Servers |-> Silent]]])

\* `remove_server`.
RemoveServer(m, server) ==
    Rederive([m EXCEPT !.servers = @ \ {server},
                       !.evidence = [a \in Addresses |-> [@[a] EXCEPT ![server] = Silent]]])

\* `record_outcome`: refused for a server or an address that is not known (any more).
Knows(m, a, server) == server \in m.servers /\ a \in m.candidates
RecordOutcome(m, a, server, reachable) ==
    IF ~Knows(m, a, server) THEN m
    ELSE Rederive([m EXCEPT !.evidence[a][server] =
                       IF reachable THEN [success |-> EvidenceTTL, failure |-> 0]
                       ELSE [@ EXCEPT !.failure = EvidenceTTL]])

\* `network_changed` of the manager.
ForgetEvidence(m) ==
    [m EXCEPT !.evidence = NewManager.evidence, !.verdict = Unknown]

\* `change`: whether the verdict or the set it names moved.
Changed(before, after) ==
    before.verdict.state # after.verdict.state \/ before.verdict.verified # after.verdict.verified

AgeManager(m) ==
    [m EXCEPT !.evidence = [a \in Addresses |-> [s \in Servers |->
                   [success |-> Less(@[a][s].success), failure |-> Less(@[a][s].failure)]]],
              !.verdict.until = Less(@)]
=============================================================================
