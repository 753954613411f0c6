--------------------------- MODULE AutonatDriver ----------------------------
(***************************************************************************)
(* The Swarm loop's side of reachability (autonat_driver.rs): which        *)
(* addresses are offered (candidate_scope.rs), which servers are dialled,  *)
(* when an address is tested again, and the vendored AutoNAT client that   *)
(* tests it (third_party/libp2p-autonat, v2/client/behaviour.rs).          *)
(***************************************************************************)
EXTENDS Reachability

\* `Tracked`: a re-test is due in `in`, or after a silence of `idle`.
Seen == [armed |-> FALSE, in |-> 0, idle |-> RetryBase, failures |-> 0]
Due(entry, in) == [entry EXCEPT !.armed = TRUE, !.in = in, !.idle = RetryBase]

\* `DialTarget`.
NewTarget(source) == [source |-> source, inFlight |-> FALSE, wait |-> 0, attempts |-> 0]

\* `AutonatState`: the manager, the schedule, the targets and what is advertised;
\* `ScopedCandidates`: `listeners`, `observed` with the time each claim has left,
\* and `ever`; the client: `tests`, the status of each candidate with the server
\* asked; `links`, the servers this profile is connected to by a dial of its own,
\* each with whether the client knows it as a server; and the Swarm's `external`.
NewAutonatState(static) ==
    [manager |-> NewManager, schedule |-> EmptyMap, advertised |-> {},
     targets |-> [s \in static |-> NewTarget("Static")],
     listeners |-> {}, observed |-> EmptyMap, ever |-> {},
     tests |-> EmptyMap, links |-> EmptyMap, external |-> {}]

-----------------------------------------------------------------------------
(* The AutoNAT client. *)

Untested == [st |-> "Untested", by |-> NoServer]

\* `on_swarm_event` on a candidate.
OnCandidate(au, a) == IF a \in DOMAIN au.tests THEN au ELSE [au EXCEPT !.tests = MapPut(@, a, Untested)]

\* `retest`.
Retest(au, a) == IF a \in DOMAIN au.tests THEN [au EXCEPT !.tests[a] = Untested] ELSE au

\* `issue_dial_requests_for_untested_candidates`: a server for each address.
IssueDialRequests(au, asked) ==
    [au EXCEPT !.tests = [a \in DOMAIN au.tests |->
        IF a \in DOMAIN asked THEN [st |-> "Pending", by |-> asked[a]] ELSE @[a]]]

\* The server a test waits for answers, if the test was not superseded.
Ends(au, a, status) == [au EXCEPT !.tests[a] = [Untested EXCEPT !.st = status]]

-----------------------------------------------------------------------------
(* ScopedCandidates. *)

\* `offer_listener`.
OfferListener(au, a) ==
    IF a \notin Probeable THEN au
    ELSE IF a \notin au.listeners /\ Cardinality(au.listeners) >= MaxTracked THEN au
    ELSE OnCandidate([au EXCEPT !.listeners = @ \cup {a}], a)

\* `admit_candidate` and what the client does with the claim.
AdmitCandidate(au, a) ==
    IF a \notin Probeable THEN au
    ELSE IF a \in au.listeners THEN OnCandidate(au, a)
    ELSE IF a \in DOMAIN au.observed THEN OnCandidate([au EXCEPT !.observed[a] = EvidenceTTL], a)
    ELSE IF \/ Cardinality(DOMAIN au.observed) >= MaxTracked
            \/ a \notin au.ever /\ Cardinality(au.ever) >= MaxObservedEver
    THEN au
    ELSE OnCandidate([au EXCEPT !.ever = @ \cup {a}, !.observed = MapPut(@, a, EvidenceTTL)], a)

\* `prune_observed`.
PruneObserved(au) ==
    [au EXCEPT !.observed = MapDrop(@, {a \in DOMAIN @ : @[a] = 0})]

\* `candidates`, and the truncation of `set_candidates`: listeners first.
Counted(au) ==
    LET room == MaxTracked - Cardinality(au.listeners)
        claims == DOMAIN au.observed \ au.listeners
        fit == Min({room, Cardinality(claims)})
    IN  au.listeners \cup (CHOOSE c \in SUBSET claims : Cardinality(c) = fit)

-----------------------------------------------------------------------------
(* The driver. *)

\* A step of the manager and `publish` if it changed the verdict.
Publish(au, manager) ==
    LET verified == manager.verdict.verified IN
    IF ~Changed(au.manager, manager) THEN [au EXCEPT !.manager = manager]
    ELSE [au EXCEPT !.manager = manager, !.advertised = verified,
                    !.external = (@ \ (au.advertised \ verified)) \cup (verified \ au.advertised)]

\* `ConnectivityChanged` events of a step, as the states they carry.
Events(before, after) ==
    IF Changed(before.manager, after.manager) THEN <<after.manager.verdict.state>> ELSE <<>>

\* `connected_servers`.
ConnectedServers(au) == Cardinality(au.manager.servers \cap DOMAIN au.links)

\* When a re-test after a success is due: at the interval, or before the first
\* address leaves the verified set.
RefreshDue(verdict) ==
    IF verdict.state = "VerifiedPublic"
    THEN Min({Refresh, Max({IF verdict.until > RetryBase THEN verdict.until - RetryBase ELSE 0,
                            CrateTick})})
    ELSE Refresh

\* `reschedule`.
Reschedule(au, a, reachable) ==
    LET entry == IF a \in DOMAIN au.schedule THEN au.schedule[a] ELSE Seen
        verdict == au.manager.verdict
        next == IF ~reachable
                THEN [Due(entry, RetryBackoff(entry.failures))
                         EXCEPT !.failures = Min({@ + 1, MaxFailures})]
                ELSE [Due(entry, IF a \in verdict.verified \/ ConnectedServers(au) < Threshold
                                 THEN RefreshDue(verdict) ELSE RetryBase) EXCEPT !.failures = 0]
    IN  [au EXCEPT !.schedule = MapPut(@, a, next)]

\* `handle_autonat` on an outcome: record, schedule, keep the claim alive, publish.
Outcome(au, a, server, reachable) ==
    LET told == Publish(au, RecordOutcome(au.manager, a, server, reachable))
        kept == IF reachable /\ a \in DOMAIN told.observed
                THEN [told EXCEPT !.observed[a] = EvidenceTTL] ELSE told
    IN  IF Knows(au.manager, a, server) THEN Reschedule(kept, a, reachable) ELSE au

\* `offer_server`: Identify from a server this profile dialled.
OfferServer(au, s, serves) ==
    IF ~serves \/ s \notin DOMAIN au.links THEN au
    ELSE LET settled == IF s \in DOMAIN au.targets
                        THEN [au EXCEPT !.targets[s].attempts = 0, !.targets[s].wait = 0] ELSE au
         IN  [settled EXCEPT !.manager.servers = @ \cup {s}]

\* `learn_server`.
LearnServer(au, s, serves, authorized) ==
    LET learned == {t \in DOMAIN au.targets : au.targets[t].source = "Identify"} IN
    IF ~(serves /\ s \in authorized)
    THEN [au EXCEPT !.targets = MapDrop(@, {s} \cap learned)]
    ELSE IF s \in DOMAIN au.targets \/ Cardinality(learned) >= MaxLearnedServers THEN au
    ELSE [au EXCEPT !.targets = MapPut(@, s, NewTarget("Identify"))]

\* `settle_static`, on a connection or a failed dial.
Settle(au, s) ==
    IF s \in DOMAIN au.targets THEN [au EXCEPT !.targets[s].inFlight = FALSE] ELSE au

\* `retest_all`.
RetestAll(au, jitter) ==
    [au EXCEPT !.schedule = [a \in DOMAIN @ |-> [Due(@[a], jitter) EXCEPT !.failures = 0]]]

\* `network_changed`: what was heard is forgotten, what is bound is offered and
\* everything is tested again.
NetworkMoved(au, bound, jitter) ==
    LET unsaid == [Publish(au, ForgetEvidence(au.manager)) EXCEPT !.listeners = {}]
        offered == FoldSet(LAMBDA a, x : OfferListener(x, a), unsaid, bound)
    IN  RetestAll(offered, jitter)

\* `reconcile`, the dials: `dials` says how the attempts at each target ended.
DueTargets(au) ==
    {s \in DOMAIN au.targets : /\ s \notin DOMAIN au.links
                               /\ ~au.targets[s].inFlight /\ au.targets[s].wait = 0}
DialTargets(au, dials) ==
    LET attempt(t, how) ==
            IF how = "paced" THEN [t EXCEPT !.wait = RetryBase]
            ELSE [t EXCEPT !.inFlight = how = "ticketed", !.wait = RetryBackoff(t.attempts),
                           !.attempts = Min({@ + 1, MaxFailures})]
    IN  [au EXCEPT !.targets = [s \in DOMAIN @ |->
            IF s \in DueTargets(au) THEN attempt(@[s], dials[s]) ELSE @[s]]]

\* Mutant of FireRetests: an address whose test was lost waits for its outcome.
FireArmedRetests(au) ==
    LET due == {a \in DOMAIN au.schedule : au.schedule[a].armed /\ au.schedule[a].in = 0}
        rested == [au EXCEPT !.schedule = [a \in DOMAIN @ |->
            IF a \in due THEN [@[a] EXCEPT !.armed = FALSE, !.in = 0, !.idle = RetryBase] ELSE @[a]]]
    IN  FoldSet(LAMBDA a, x : Retest(x, a), rested, due)

\* `reconcile`, the re-tests that are due.
FireRetests(au) ==
    LET due == {a \in DOMAIN au.schedule :
                   IF au.schedule[a].armed THEN au.schedule[a].in = 0 ELSE au.schedule[a].idle = 0}
        rested == [au EXCEPT !.schedule = [a \in DOMAIN @ |->
            IF a \in due THEN [@[a] EXCEPT !.armed = FALSE, !.in = 0, !.idle = RetryBase] ELSE @[a]]]
    IN  FoldSet(LAMBDA a, x : Retest(x, a), rested, due)

\* `reconcile`, the schedule: one entry for each counted address.
TrackCounted(au) ==
    [au EXCEPT !.schedule = [a \in au.manager.candidates |->
        IF a \in DOMAIN @ THEN @[a] ELSE Seen]]

\* `reconcile`: its states, one for each step of the manager, the last one last.
ReconcileSteps(au, authorized, bound, dials) ==
    LET revoked == SetToSeq(au.manager.servers \ authorized)
        removed[n \in 0..Len(revoked)] ==
            IF n = 0 THEN <<au>>
            ELSE LET last == Last(removed[n - 1])
                 IN  Append(removed[n - 1], Publish(last, RemoveServer(last.manager, revoked[n])))
        servers == removed[Len(revoked)]
        kept == [Last(servers) EXCEPT !.targets =
                    MapDrop(@, {s \in DOMAIN @ : @[s].source = "Identify" /\ s \notin authorized})]
        offered == PruneObserved(FoldSet(LAMBDA a, x : OfferListener(x, a), kept, bound))
        counted == Publish(offered, SetCandidates(offered.manager, Counted(offered)))
    IN  servers \o <<counted, FireRetests(DialTargets(TrackCounted(counted), dials))>>

AgeAutonat(au) ==
    [au EXCEPT !.manager = AgeManager(@),
               !.observed = [a \in DOMAIN @ |-> Less(@[a])],
               !.targets = [s \in DOMAIN @ |-> [@[s] EXCEPT !.wait = Less(@)]],
               !.schedule = [a \in DOMAIN @ |->
                   IF @[a].armed THEN [@[a] EXCEPT !.in = Less(@)] ELSE [@[a] EXCEPT !.idle = Less(@)]]]
=============================================================================
