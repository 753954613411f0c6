--------------------------- MODULE OverlaysProofs ---------------------------
(***************************************************************************)
(* The trust overlay and the endpoint overlay keep the laws on which the   *)
(* theorems of OverlayAdminProofs rest, and so have what they promise.     *)
(***************************************************************************)
EXTENDS Overlays, FiniteSetTheorems, TLAPS

TrustLives(c) == SUBSET Peers
EndpointLives(c) ==
    [enabled : [DOMAIN c.enabled -> BOOLEAN], default : Endpoints \cup {NoDefault}]

-----------------------------------------------------------------------------
(* The trust overlay. *)

\* A configuration and a change, taken apart.
LEMMA TrustParts ==
  ASSUME NEW c \in TrustConfigs, NEW o \in TrustChanges
  PROVE  /\ Configured(c) \subseteq Peers /\ IsFiniteSet(Configured(c)) /\ Local \notin Configured(c)
         /\ Cardinality(Configured(c)) <= MaxAllowed /\ Cardinality(Configured(c)) \in Nat
         /\ o.added \subseteq Peers /\ o.revoked \subseteq Peers
         /\ IsFiniteSet(o.added) /\ IsFiniteSet(o.revoked)
         /\ o = [added |-> o.added, revoked |-> o.revoked]
<1>1. c \subseteq Peers /\ IsFiniteSet(c) /\ Cardinality(Configured(c)) <= MaxAllowed
  BY OverlayAssumption, Zenon
<1>2. IsFiniteSet(Configured(c))
  BY <1>1, FS_Subset, Zenon DEF Configured
<1>3. Cardinality(Configured(c)) \in Nat
  BY <1>2, FS_CardinalityType, Zenon
<1> QED BY <1>1, <1>2, <1>3, Zenon DEF TrustChanges, Configured

\* A change is its two sets.
LEMMA TrustChange ==
  ASSUME NEW a \in SUBSET Peers, NEW r \in SUBSET Peers, IsFiniteSet(a), IsFiniteSet(r)
  PROVE  [added |-> a, revoked |-> r] \in TrustChanges
BY Zenon DEF TrustChanges

\* Normalising drops what says nothing, and has nothing more to drop.
LEMMA TrustNormal ==
  ASSUME NEW c \in TrustConfigs, NEW o \in TrustChanges
  PROVE  /\ NormaliseTrust(o, c) \in TrustChanges
         /\ NormaliseTrust(NormaliseTrust(o, c), c) = NormaliseTrust(o, c)
         /\ TrustReadable(o) => TrustReadable(NormaliseTrust(o, c))
         /\ EffectiveTrust(o, c) \in TrustLives(c)
         /\ IsFiniteSet(EffectiveTrust(o, c))
<1> DEFINE a == o.added \ Configured(c)
           r == o.revoked \cap Configured(c)
<1>1. /\ IsFiniteSet(a) /\ Cardinality(a) <= Cardinality(o.added)
      /\ IsFiniteSet(r) /\ Cardinality(r) <= Cardinality(o.revoked)
      /\ a \subseteq Peers /\ r \subseteq Peers
  BY TrustParts, FS_Subset, Zenon
<1>2. NormaliseTrust(o, c) = [added |-> a, revoked |-> r]
  BY Zenon DEF NormaliseTrust
<1>3. NormaliseTrust(o, c) \in TrustChanges
  BY <1>1, <1>2, TrustChange, Zenon
<1>4. NormaliseTrust(NormaliseTrust(o, c), c) = NormaliseTrust(o, c)
  <2>1. a \ Configured(c) = a /\ r \cap Configured(c) = r
    BY Zenon
  <2> QED BY <1>2, <2>1, Zenon DEF NormaliseTrust
<1>5. TrustReadable(o) => TrustReadable(NormaliseTrust(o, c))
  <2> SUFFICES ASSUME TrustReadable(o) PROVE TrustReadable([added |-> a, revoked |-> r])
    BY <1>2, Zenon
  <2>1. Cardinality(o.added) \in Nat /\ Cardinality(o.revoked) \in Nat
        /\ Cardinality(a) \in Nat /\ Cardinality(r) \in Nat /\ MaxAllowed \in Nat
    BY <1>1, TrustParts, FS_CardinalityType, OverlayAssumption, Zenon
  <2>2. Cardinality(a) <= MaxAllowed /\ Cardinality(r) <= MaxAllowed
    BY <1>1, <2>1 DEF TrustReadable
  <2>3. a \cap r = {}
    BY Zenon
  <2> QED BY <2>2, <2>3, Zenon DEF TrustReadable
<1>6. IsFiniteSet(EffectiveTrust(o, c)) /\ EffectiveTrust(o, c) \subseteq Peers
  <2>1. IsFiniteSet(Configured(c) \cup o.added)
    BY TrustParts, FS_Union, Zenon
  <2>2. EffectiveTrust(o, c) \subseteq Configured(c) \cup o.added
    BY Zenon DEF EffectiveTrust
  <2> QED BY <2>1, <2>2, TrustParts, FS_Subset, Zenon
<1> QED BY <1>3, <1>4, <1>5, <1>6, Zenon DEF TrustLives

\* A set that is not refused does what was asked, and leaves a change that is
\* normal, is read and fits.
LEMMA TrustMove ==
  ASSUME NEW c \in TrustConfigs, NEW o \in TrustChanges, NEW ask \in TrustAsks, NEW now \in TrustLives(c),
         NormaliseTrust(o, c) = o, ~DeniesTrust(now, o, c, ask)
  PROVE  /\ MoveTrust(o, c, ask) \in TrustChanges
         /\ TrustHolds(ask, EffectiveTrust(MoveTrust(o, c, ask), c))
         /\ MoveTrust(o, c, ask) # o =>
               /\ TrustReadable(MoveTrust(o, c, ask)) /\ TrustFits(MoveTrust(o, c, ask), c)
               /\ NormaliseTrust(MoveTrust(o, c, ask), c) = MoveTrust(o, c, ask)
<1> DEFINE C == Configured(c)
           p == ask.peer
           m == MoveTrust(o, c, ask)
<1>1. p \in Peers /\ ask.allowed \in BOOLEAN /\ (ask.allowed => p # Local)
  BY OverlayAssumption, Zenon DEF DeniesTrust
<1>2. o.added \cap C = {} /\ o.revoked \subseteq C
  <2>1. o.added = o.added \ C /\ o.revoked = o.revoked \cap C
    BY DEF NormaliseTrust
  <2> QED BY <2>1, Zenon
<1>3. \/ ask.allowed /\ p \in C /\ m.added = o.added /\ m.revoked = o.revoked \ {p}
      \/ ask.allowed /\ p \notin C /\ m.added = o.added \cup {p} /\ m.revoked = o.revoked
      \/ ~ask.allowed /\ p \in C /\ m.added = o.added /\ m.revoked = o.revoked \cup {p}
      \/ ~ask.allowed /\ p \notin C /\ m.added = o.added \ {p} /\ m.revoked = o.revoked
  <2>1. CASE ask.allowed /\ p \in C
    BY <2>1, TrustParts DEF MoveTrust
  <2>2. CASE ask.allowed /\ p \notin C
    BY <2>2, TrustParts DEF MoveTrust
  <2>3. CASE ~ask.allowed /\ p \in C
    BY <2>3, TrustParts DEF MoveTrust
  <2>4. CASE ~ask.allowed /\ p \notin C
    BY <2>4, TrustParts DEF MoveTrust
  <2> QED BY <2>1, <2>2, <2>3, <2>4, Zenon
<1>4. m = [added |-> m.added, revoked |-> m.revoked]
  BY <1>1, TrustParts, Zenon DEF MoveTrust
<1> HIDE DEF m
<1>5. IsFiniteSet(m.added) /\ IsFiniteSet(m.revoked)
  <2>1. IsFiniteSet(o.added \cup {p}) /\ IsFiniteSet(o.revoked \cup {p})
    BY TrustParts, FS_AddElement, Zenon
  <2>2. m.added \subseteq o.added \cup {p} /\ m.revoked \subseteq o.revoked \cup {p}
    BY <1>3, Zenon
  <2> QED BY <2>1, <2>2, FS_Subset, Zenon
<1>6. m \in TrustChanges
  <2>1. m.added \subseteq Peers /\ m.revoked \subseteq Peers
    BY <1>1, <1>3, TrustParts, Zenon
  <2> QED BY <1>4, <1>5, <2>1, TrustChange, Zenon
<1>7. m.added \cap C = {} /\ m.revoked \subseteq C
  BY <1>2, <1>3, Zenon
<1>8. TrustHolds(ask, EffectiveTrust(m, c))
  <2>1. p \in EffectiveTrust(m, c) <=> ask.allowed
    BY <1>2, <1>3, Zenon DEF EffectiveTrust
  <2> QED BY <1>1, <2>1 DEF TrustHolds
<1>9. NormaliseTrust(m, c) = m
  <2>1. m.added \ C = m.added /\ m.revoked \cap C = m.revoked
    BY <1>7, Zenon
  <2> QED BY <1>4, <2>1, Zenon DEF NormaliseTrust
<1>10. ASSUME m # o PROVE TrustReadable(m) /\ TrustFits(m, c)
  <2>1. TrustFits(m, c)
    BY <1>10, Zenon DEF DeniesTrust, m
  <2>2. m.added \subseteq EffectiveTrust(m, c)
    BY <1>7, Zenon DEF EffectiveTrust
  <2>3. /\ Cardinality(m.added) <= Cardinality(EffectiveTrust(m, c))
        /\ Cardinality(m.revoked) <= Cardinality(C)
    BY <1>6, <1>7, <2>2, TrustNormal, TrustParts, FS_Subset, Zenon
  <2>4. /\ Cardinality(m.added) \in Nat /\ Cardinality(EffectiveTrust(m, c)) \in Nat
        /\ Cardinality(m.revoked) \in Nat /\ Cardinality(C) \in Nat /\ MaxAllowed \in Nat
        /\ Cardinality(C) <= MaxAllowed
    BY <1>5, <1>6, TrustNormal, TrustParts, FS_CardinalityType, OverlayAssumption, Zenon
  <2>5. Cardinality(m.added) <= MaxAllowed /\ Cardinality(m.revoked) <= MaxAllowed
    BY <2>1, <2>3, <2>4 DEF TrustFits
  <2>6. m.added \cap m.revoked = {}
    BY <1>7, Zenon
  <2> QED BY <2>1, <2>5, <2>6, Zenon DEF TrustReadable
<1> QED BY <1>6, <1>8, <1>9, <1>10, Zenon DEF m

-----------------------------------------------------------------------------
(* The endpoint overlay. *)

\* A configuration, taken apart.
LEMMA EndpointConfig ==
  ASSUME NEW c \in EndpointConfigs
  PROVE  /\ DOMAIN c.enabled \subseteq Endpoints /\ c.enabled \in [DOMAIN c.enabled -> BOOLEAN]
         /\ c.default \in Endpoints \cup {NoDefault} /\ c.default # AsConfigured
         /\ NoDefault \notin Endpoints /\ AsConfigured \notin Endpoints /\ AsConfigured # NoDefault
<1>1. /\ c.enabled \in UNION {[S -> BOOLEAN] : S \in SUBSET Endpoints}
      /\ c.default \in Endpoints \cup {NoDefault}
      /\ NoDefault \notin Endpoints /\ AsConfigured \notin Endpoints \cup {NoDefault}
  BY OverlayAssumption, Zenon
<1>2. PICK S \in SUBSET Endpoints : c.enabled \in [S -> BOOLEAN]
  BY <1>1, Zenon
<1>3. DOMAIN c.enabled = S
  BY <1>2, Zenon
<1> QED BY <1>1, <1>2, <1>3, Zenon

\* A change is a partial map and a default.
LEMMA EndpointChange ==
  ASSUME NEW S \in SUBSET Endpoints, NEW f \in [S -> BOOLEAN],
         NEW d \in Endpoints \cup {NoDefault, AsConfigured}
  PROVE  [enabled |-> f, default |-> d] \in EndpointChanges
<1>1. f \in UNION {[T -> BOOLEAN] : T \in SUBSET Endpoints}
  BY Zenon
<1> QED BY <1>1, Zenon DEF EndpointChanges

LEMMA EndpointParts ==
  ASSUME NEW o \in EndpointChanges
  PROVE  /\ DOMAIN o.enabled \subseteq Endpoints /\ o.enabled \in [DOMAIN o.enabled -> BOOLEAN]
         /\ o.default \in Endpoints \cup {NoDefault, AsConfigured}
         /\ o = [enabled |-> o.enabled, default |-> o.default]
<1>1. /\ o.enabled \in UNION {[S -> BOOLEAN] : S \in SUBSET Endpoints}
      /\ o.default \in Endpoints \cup {NoDefault, AsConfigured}
      /\ o = [enabled |-> o.enabled, default |-> o.default]
  BY Zenon DEF EndpointChanges
<1>2. PICK S \in SUBSET Endpoints : o.enabled \in [S -> BOOLEAN]
  BY <1>1, Zenon
<1>3. DOMAIN o.enabled = S
  BY <1>2, Zenon
<1> QED BY <1>1, <1>2, <1>3, Zenon

\* What is in force is a total map of the configured endpoints and a default.
LEMMA EndpointEffective ==
  ASSUME NEW c \in EndpointConfigs, NEW o \in EndpointChanges
  PROVE  EffectiveEndpoints(o, c) \in EndpointLives(c)
<1>1. \A e \in DOMAIN c.enabled : IsEnabled(o.enabled, c, e) \in BOOLEAN
  BY EndpointConfig, EndpointParts, Zenon DEF IsEnabled
<1>2. [e \in DOMAIN c.enabled |-> IsEnabled(o.enabled, c, e)] \in [DOMAIN c.enabled -> BOOLEAN]
  BY <1>1, Zenon
<1>3. (IF o.default = AsConfigured THEN c.default ELSE o.default) \in Endpoints \cup {NoDefault}
  BY EndpointConfig, EndpointParts, Zenon
<1> QED BY <1>2, <1>3, Zenon DEF EffectiveEndpoints, EndpointLives

\* What normalising leaves alone.
LEMMA EndpointFixed ==
  ASSUME NEW c \in EndpointConfigs, NEW o \in EndpointChanges,
         DOMAIN o.enabled \subseteq DOMAIN c.enabled,
         \A e \in DOMAIN o.enabled : o.enabled[e] # c.enabled[e],
         o.default \in DOMAIN c.enabled \cup {NoDefault, AsConfigured}, o.default # c.default,
         o.default \in DOMAIN c.enabled => IsEnabled(o.enabled, c, o.default),
         o.default = AsConfigured => c.default = NoDefault \/ IsEnabled(o.enabled, c, c.default)
  PROVE  NormaliseEndpoints(o, c) = o
<1> DEFINE K == {x \in DOMAIN o.enabled \cap DOMAIN c.enabled : o.enabled[x] # c.enabled[x]}
           f == [e \in K |-> o.enabled[e]]
<1>1. K = DOMAIN o.enabled
  BY Zenon
<1>2. f = o.enabled
  BY <1>1, EndpointParts, Zenon
<1>3. NormaliseEndpoints(o, c).enabled = f
  BY Zenon DEF NormaliseEndpoints
<1> HIDE DEF f
<1>4. NormaliseEndpoints(o, c).default = o.default
  BY <1>2, EndpointConfig DEF NormaliseEndpoints, f
<1>5. NormaliseEndpoints(o, c) =
        [enabled |-> NormaliseEndpoints(o, c).enabled, default |-> NormaliseEndpoints(o, c).default]
  BY Zenon DEF NormaliseEndpoints
<1> QED BY <1>2, <1>3, <1>4, <1>5, EndpointParts, Zenon

\* Normalising drops what says nothing, and has nothing more to drop.
LEMMA EndpointNormal ==
  ASSUME NEW c \in EndpointConfigs, NEW o \in EndpointChanges
  PROVE  /\ NormaliseEndpoints(o, c) \in EndpointChanges
         /\ NormaliseEndpoints(NormaliseEndpoints(o, c), c) = NormaliseEndpoints(o, c)
<1> DEFINE n == NormaliseEndpoints(o, c)
           K == {x \in DOMAIN o.enabled \cap DOMAIN c.enabled : o.enabled[x] # c.enabled[x]}
           f == [e \in K |-> o.enabled[e]]
           stale == \/ o.default \notin DOMAIN c.enabled \cup {NoDefault, AsConfigured}
                    \/ o.default = c.default
           own == IF stale \/ (o.default \in DOMAIN c.enabled /\ ~IsEnabled(f, c, o.default))
                  THEN AsConfigured ELSE o.default
           cleared == own = AsConfigured /\ c.default # NoDefault /\ ~IsEnabled(f, c, c.default)
           d == IF cleared THEN NoDefault ELSE own
<1>1. n = [enabled |-> f, default |-> d]
  BY Zenon DEF NormaliseEndpoints
<1>2. K \subseteq Endpoints /\ f \in [K -> BOOLEAN] /\ DOMAIN f = K /\ K \subseteq DOMAIN c.enabled
      /\ \A e \in K : f[e] # c.enabled[e]
  BY EndpointParts, Zenon
<1> HIDE DEF f, n
<1>3. own \in DOMAIN c.enabled \cup {NoDefault, AsConfigured} /\ own # c.default
      /\ (own \in DOMAIN c.enabled => IsEnabled(f, c, own))
  BY EndpointConfig, Zenon
<1> HIDE DEF own
<1>4. /\ d \in DOMAIN c.enabled \cup {NoDefault, AsConfigured} /\ d # c.default
      /\ d \in DOMAIN c.enabled => IsEnabled(f, c, d)
      /\ d = AsConfigured => c.default = NoDefault \/ IsEnabled(f, c, c.default)
  BY <1>3, EndpointConfig, Zenon
<1> HIDE DEF d, K
<1>5. d \in Endpoints \cup {NoDefault, AsConfigured}
  BY <1>4, EndpointConfig, Zenon
<1>6. n \in EndpointChanges /\ n.enabled = f /\ n.default = d
  BY <1>1, <1>2, <1>5, EndpointChange, Zenon
<1>7. NormaliseEndpoints(n, c) = n
  BY <1>2, <1>4, <1>6, EndpointFixed, Zenon
<1> QED BY <1>6, <1>7, Zenon DEF n

\* A set that the substrate does not refuse does what was asked.
LEMMA EndpointSet ==
  ASSUME NEW c \in EndpointConfigs, NEW now \in EndpointLives(c), NEW ask \in EndpointAsks,
         ~SetRefuses(now, ask)
  PROVE  Set(now, ask) \in EndpointLives(c) /\ EndpointHolds(ask, Set(now, ask))
<1>1. /\ now.enabled \in [DOMAIN c.enabled -> BOOLEAN] /\ now.default \in Endpoints \cup {NoDefault}
      /\ now = [enabled |-> now.enabled, default |-> now.default]
  BY Zenon DEF EndpointLives
<1>2. CASE ask.what = "default"
  <2>1. ask.to \in Endpoints \cup {NoDefault}
    BY <1>2, OverlayAssumption, Zenon
  <2>2. Set(now, ask) = [enabled |-> now.enabled, default |-> ask.to]
    BY <1>1, <1>2, Zenon DEF Set
  <2> QED BY <1>1, <1>2, <2>1, <2>2 DEF EndpointLives, EndpointHolds
<1>3. CASE ask.what # "default"
  <2>1. ask.to \in BOOLEAN /\ ask.endpoint \in DOMAIN c.enabled
    BY <1>1, <1>3, OverlayAssumption, Zenon DEF SetRefuses
  <2> DEFINE f == [now.enabled EXCEPT ![ask.endpoint] = ask.to]
             d == IF ~ask.to /\ now.default = ask.endpoint THEN NoDefault ELSE now.default
  <2>2. Set(now, ask) = [enabled |-> f, default |-> d]
    BY <1>1, <1>3, Zenon DEF Set
  <2>3. f \in [DOMAIN c.enabled -> BOOLEAN] /\ f[ask.endpoint] = ask.to /\ DOMAIN f = DOMAIN c.enabled
    BY <1>1, <2>1, Zenon
  <2>4. d \in Endpoints \cup {NoDefault}
    BY <1>1, Zenon
  <2> HIDE DEF f, d
  <2> QED BY <1>3, <2>1, <2>2, <2>3, <2>4 DEF EndpointLives, EndpointHolds
<1> QED BY <1>2, <1>3, Zenon

\* `recording` makes what it records.
LEMMA EndpointRecording ==
  ASSUME NEW c \in EndpointConfigs, NEW s \in EndpointLives(c)
  PROVE  /\ Recording(c, s) \in EndpointChanges
         /\ EffectiveEndpoints(Recording(c, s), c) = s
         /\ Valid(s) => NormaliseEndpoints(Recording(c, s), c) = Recording(c, s)
<1> DEFINE D == DOMAIN c.enabled
           K == {e \in D : s.enabled[e] # c.enabled[e]}
           f == [e \in K |-> s.enabled[e]]
           d == IF s.default = c.default THEN AsConfigured ELSE s.default
           m == Recording(c, s)
<1>1. /\ s.enabled \in [D -> BOOLEAN] /\ s.default \in Endpoints \cup {NoDefault}
      /\ s = [enabled |-> s.enabled, default |-> s.default]
  BY Zenon DEF EndpointLives
<1>2. m = [enabled |-> f, default |-> d]
  BY Zenon DEF Recording
<1>3. /\ K \subseteq Endpoints /\ K \subseteq D /\ f \in [K -> BOOLEAN] /\ DOMAIN f = K
      /\ \A e \in K : f[e] = s.enabled[e] /\ f[e] # c.enabled[e]
  BY <1>1, EndpointConfig, Zenon
<1>4. \A e \in D : IsEnabled(f, c, e) = s.enabled[e]
  <2> SUFFICES ASSUME NEW e \in D PROVE IsEnabled(f, c, e) = s.enabled[e]
    BY Zenon
  <2>1. CASE e \in K
    BY <1>3, <2>1, Zenon DEF IsEnabled
  <2>2. CASE e \notin K
    <3>1. c.enabled[e] = s.enabled[e] /\ c.enabled[e] \in BOOLEAN /\ e \notin DOMAIN f
      BY <1>3, <2>2, EndpointConfig, Zenon
    <3> QED BY <3>1, Zenon DEF IsEnabled
  <2> QED BY <2>1, <2>2, Zenon
<1> HIDE DEF f, m, K
<1>5. /\ d \in Endpoints \cup {NoDefault, AsConfigured} /\ d # c.default
      /\ (IF d = AsConfigured THEN c.default ELSE d) = s.default
  BY <1>1, EndpointConfig, Zenon
<1>6. m \in EndpointChanges /\ m.enabled = f /\ m.default = d
  BY <1>2, <1>3, <1>5, EndpointChange, Zenon
<1>7. EffectiveEndpoints(m, c) = s
  <2>1. [e \in D |-> IsEnabled(f, c, e)] = s.enabled
    BY <1>1, <1>4, Zenon
  <2> QED BY <1>1, <1>5, <1>6, <2>1, Zenon DEF EffectiveEndpoints
<1>8. ASSUME Valid(s) PROVE NormaliseEndpoints(m, c) = m
  <2>1. DOMAIN s.enabled = D
    BY <1>1, Zenon
  <2>2. s.default = NoDefault \/ (s.default \in D /\ s.enabled[s.default])
    BY <1>8, <2>1, Zenon DEF Valid
  <2>3. /\ d \in D \cup {NoDefault, AsConfigured}
        /\ d \in D => d = s.default
        /\ d = AsConfigured => s.default = c.default
    BY <1>1, <2>2, EndpointConfig, Zenon
  <2>4. d \in D => IsEnabled(f, c, d)
    BY <1>4, <2>2, <2>3, EndpointConfig, Zenon
  <2>5. d = AsConfigured => c.default = NoDefault \/ IsEnabled(f, c, c.default)
    BY <1>4, <2>2, <2>3, Zenon
  <2> HIDE DEF d
  <2> QED BY <1>3, <1>5, <1>6, <2>3, <2>4, <2>5, EndpointFixed, Zenon
<1> QED BY <1>6, <1>7, <1>8, Zenon DEF m

LEMMA EndpointMove ==
  ASSUME NEW c \in EndpointConfigs, NEW o \in EndpointChanges, NEW ask \in EndpointAsks,
         NEW now \in EndpointLives(c), ~DeniesEndpoints(now, o, c, ask)
  PROVE  /\ MoveEndpoints(o, c, ask) \in EndpointChanges
         /\ EndpointHolds(ask, EffectiveEndpoints(MoveEndpoints(o, c, ask), c))
         /\ MoveEndpoints(o, c, ask) # o =>
               /\ EndpointsFit(MoveEndpoints(o, c, ask), c)
               /\ NormaliseEndpoints(MoveEndpoints(o, c, ask), c) = MoveEndpoints(o, c, ask)
<1> DEFINE was == EffectiveEndpoints(o, c)
           s == Set(was, ask)
<1>1. was \in EndpointLives(c) /\ ~SetRefuses(was, ask)
  BY EndpointEffective, Zenon DEF DeniesEndpoints
<1> HIDE DEF was
<1>2. s \in EndpointLives(c) /\ EndpointHolds(ask, s)
  BY <1>1, EndpointSet, Zenon
<1>3. MoveEndpoints(o, c, ask) = Recording(c, s)
  BY Zenon DEF MoveEndpoints, was
<1> HIDE DEF s
<1>4. /\ Recording(c, s) \in EndpointChanges /\ EffectiveEndpoints(Recording(c, s), c) = s
      /\ Valid(s) => NormaliseEndpoints(Recording(c, s), c) = Recording(c, s)
  BY <1>2, EndpointRecording, Zenon
<1>5. MoveEndpoints(o, c, ask) # o => EndpointsFit(MoveEndpoints(o, c, ask), c)
  BY Zenon DEF DeniesEndpoints
<1> QED BY <1>2, <1>3, <1>4, <1>5, Zenon DEF EndpointsFit

-----------------------------------------------------------------------------
(* Both keep the laws. *)

TrustAdmin == INSTANCE OverlayAdminProofs WITH
    Configs <- TrustConfigs, Asks <- TrustAsks, ChecksFirst <- TRUE, Empty <- NoTrustChange,
    Readable <- TrustReadable, Normalise <- NormaliseTrust, Effective <- EffectiveTrust,
    Fits <- TrustFits, Move <- MoveTrust, Denies <- DeniesTrust, Publish <- PublishTrust,
    Refuses <- TrustRefuses, Holds <- TrustHolds, Changes <- TrustChanges, Lives <- TrustLives

EndpointAdmin == INSTANCE OverlayAdminProofs WITH
    Configs <- EndpointConfigs, Asks <- EndpointAsks, ChecksFirst <- FALSE, Empty <- NoEndpointChange,
    Readable <- EndpointsReadable, Normalise <- NormaliseEndpoints, Effective <- EffectiveEndpoints,
    Fits <- EndpointsFit, Move <- MoveEndpoints, Denies <- DeniesEndpoints, Publish <- Set,
    Refuses <- SetRefuses, Holds <- EndpointHolds, Changes <- EndpointChanges, Lives <- EndpointLives

LEMMA TrustLaws == TrustAdmin!OverlayLaws
<1>1. NoTrustChange \in TrustChanges /\ TrustReadable(NoTrustChange)
  <2>1. {} \in SUBSET Peers /\ IsFiniteSet({}) /\ Cardinality({}) = 0 /\ {} \cap {} = {}
    BY FS_EmptySet, Zenon
  <2>2. NoTrustChange \in TrustChanges
    BY <2>1, Zenon DEF NoTrustChange, TrustChanges
  <2>3. 0 <= MaxAllowed
    BY OverlayAssumption
  <2> QED BY <2>1, <2>2, <2>3, Zenon DEF NoTrustChange, TrustReadable
<1>2. Absent \notin TrustChanges /\ Torn \notin TrustChanges /\ Absent # Torn
  BY OverlayAssumption, Zenon
<1>3. ASSUME NEW ask \in TrustAsks, NEW c \in TrustConfigs, NEW now \in TrustLives(c)
      PROVE  PublishTrust(now, ask) \in TrustLives(c) /\ TrustHolds(ask, PublishTrust(now, ask))
  <2>1. ask.peer \in Peers /\ ask.allowed \in BOOLEAN
    BY OverlayAssumption, Zenon
  <2>2. ask.peer \in PublishTrust(now, ask) <=> ask.allowed
    BY Zenon DEF PublishTrust
  <2> QED BY <2>1, <2>2 DEF PublishTrust, TrustHolds, TrustLives
<1> QED BY <1>1, <1>2, <1>3, TrustNormal, TrustMove, Zenon DEF TrustAdmin!OverlayLaws

LEMMA EndpointLaws == EndpointAdmin!OverlayLaws
<1>1. NoEndpointChange \in EndpointChanges
  <2>1. EmptyMap \in [{} -> BOOLEAN]
    BY Zenon DEF EmptyMap
  <2> QED BY <2>1, EndpointChange, Zenon DEF NoEndpointChange
<1>2. Absent \notin EndpointChanges /\ Torn \notin EndpointChanges /\ Absent # Torn
  BY OverlayAssumption, Zenon
<1> QED
  BY <1>1, <1>2, EndpointNormal, EndpointEffective, EndpointMove, EndpointSet
  DEF EndpointAdmin!OverlayLaws, EndpointsReadable

-----------------------------------------------------------------------------
(* The two together: each behaviour is one of the instances proved about. *)

LEMMA TrustIsAdmin == (Trust!Init => TrustAdmin!Init) /\ (Trust!Next => TrustAdmin!Next)
<1>1. Trust!Init => TrustAdmin!Init
  BY Zenon DEF Trust!Init, TrustAdmin!Init, Trust!NoJob, TrustAdmin!NoJob, Trust!NoAnswer,
         TrustAdmin!NoAnswer, Trust!Unasked, TrustAdmin!Unasked
<1>2. Trust!WriteFailed => TrustAdmin!WriteFailed
  BY Zenon DEF Trust!WriteFailed, TrustAdmin!WriteFailed, Trust!NoJob, TrustAdmin!NoJob, Trust!Answered,
         TrustAdmin!Answered
<1>3. \A at \in {"fill", "rename", "sync"} : Trust!Advance(at) => TrustAdmin!Advance(at)
  BY Zenon DEF Trust!Advance, TrustAdmin!Advance
<1>4. \A ask \in TrustAsks : Trust!Ask(ask) => TrustAdmin!Ask(ask)
  BY Zenon DEF Trust!Ask, TrustAdmin!Ask, Trust!NoJob, TrustAdmin!NoJob, Trust!NoAnswer,
         TrustAdmin!NoAnswer, Trust!Unasked, TrustAdmin!Unasked, Trust!Writes, TrustAdmin!Writes
<1>5. Trust!CreateTemp => TrustAdmin!CreateTemp
  BY <1>2, <1>3, Zenon DEF Trust!CreateTemp, TrustAdmin!CreateTemp
<1>6. Trust!FillTemp => TrustAdmin!FillTemp
  BY <1>2, <1>3, Zenon DEF Trust!FillTemp, TrustAdmin!FillTemp
<1>7. Trust!RenameTemp => TrustAdmin!RenameTemp
  <2>1. \A S : Trust!Cardinality(S) = TrustAdmin!Cardinality(S)
    BY Zenon DEF Trust!Cardinality, TrustAdmin!Cardinality
  <2> QED
    BY <1>2, <1>3, <2>1, Zenon DEF Trust!RenameTemp, TrustAdmin!RenameTemp
<1>8. Trust!SyncDirectory => TrustAdmin!SyncDirectory
  BY Zenon DEF Trust!SyncDirectory, TrustAdmin!SyncDirectory, Trust!WriteDone, TrustAdmin!WriteDone,
         Trust!WriteUnsynced, TrustAdmin!WriteUnsynced, Trust!Serve, TrustAdmin!Serve, Trust!Writes,
         TrustAdmin!Writes, Trust!NoJob, TrustAdmin!NoJob, Trust!Answered, TrustAdmin!Answered
<1>9. Trust!PublishSet => TrustAdmin!PublishSet
  BY Zenon DEF Trust!PublishSet, TrustAdmin!PublishSet, Trust!NoJob, TrustAdmin!NoJob, Trust!Answered,
         TrustAdmin!Answered, Trust!Restore, TrustAdmin!Restore, Trust!Writes, TrustAdmin!Writes
<1>10. Trust!Start => TrustAdmin!Start
  BY Zenon DEF Trust!Start, TrustAdmin!Start, Trust!DocOf, TrustAdmin!DocOf, Trust!Writes,
         TrustAdmin!Writes, Trust!Serve, TrustAdmin!Serve, Trust!NoAnswer, TrustAdmin!NoAnswer,
         Trust!Unasked, TrustAdmin!Unasked
<1>11. Trust!Crash => TrustAdmin!Crash
  BY Zenon DEF Trust!Crash, TrustAdmin!Crash, Trust!Running, TrustAdmin!Running, Trust!Ends,
         TrustAdmin!Ends, Trust!NoJob, TrustAdmin!NoJob, Trust!NoAnswer, TrustAdmin!NoAnswer,
         Trust!Unasked, TrustAdmin!Unasked
<1>12. Trust!PowerLoss => TrustAdmin!PowerLoss
  BY Zenon DEF Trust!PowerLoss, TrustAdmin!PowerLoss, Trust!Ends, TrustAdmin!Ends, Trust!NoJob,
         TrustAdmin!NoJob, Trust!NoAnswer, TrustAdmin!NoAnswer, Trust!Unasked, TrustAdmin!Unasked
<1>13. Trust!Writeback => TrustAdmin!Writeback
  BY Zenon DEF Trust!Writeback, TrustAdmin!Writeback
<1>14. Trust!EditConfig => TrustAdmin!EditConfig
  BY Zenon DEF Trust!EditConfig, TrustAdmin!EditConfig, Trust!Running, TrustAdmin!Running
<1> QED
  BY <1>1, <1>4, <1>5, <1>6, <1>7, <1>8, <1>9, <1>10, <1>11, <1>12, <1>13, <1>14, Zenon DEF Trust!Next, TrustAdmin!Next

LEMMA EndpointIsAdmin == (Endpoint!Init => EndpointAdmin!Init) /\ (Endpoint!Next => EndpointAdmin!Next)
<1>1. Endpoint!Init => EndpointAdmin!Init
  BY Zenon DEF Endpoint!Init, EndpointAdmin!Init, Endpoint!NoJob, EndpointAdmin!NoJob, Endpoint!NoAnswer,
         EndpointAdmin!NoAnswer, Endpoint!Unasked, EndpointAdmin!Unasked
<1>2. Endpoint!WriteFailed => EndpointAdmin!WriteFailed
  BY Zenon DEF Endpoint!WriteFailed, EndpointAdmin!WriteFailed, Endpoint!NoJob, EndpointAdmin!NoJob,
         Endpoint!Answered, EndpointAdmin!Answered
<1>3. \A at \in {"fill", "rename", "sync"} : Endpoint!Advance(at) => EndpointAdmin!Advance(at)
  BY Zenon DEF Endpoint!Advance, EndpointAdmin!Advance
<1>4. \A ask \in EndpointAsks : Endpoint!Ask(ask) => EndpointAdmin!Ask(ask)
  BY Zenon DEF Endpoint!Ask, EndpointAdmin!Ask, Endpoint!NoJob, EndpointAdmin!NoJob, Endpoint!NoAnswer,
         EndpointAdmin!NoAnswer, Endpoint!Unasked, EndpointAdmin!Unasked, Endpoint!Writes,
         EndpointAdmin!Writes
<1>5. Endpoint!CreateTemp => EndpointAdmin!CreateTemp
  BY <1>2, <1>3, Zenon DEF Endpoint!CreateTemp, EndpointAdmin!CreateTemp
<1>6. Endpoint!FillTemp => EndpointAdmin!FillTemp
  BY <1>2, <1>3, Zenon DEF Endpoint!FillTemp, EndpointAdmin!FillTemp
<1>7. Endpoint!RenameTemp => EndpointAdmin!RenameTemp
  <2>1. \A S : Endpoint!Cardinality(S) = EndpointAdmin!Cardinality(S)
    BY Zenon DEF Endpoint!Cardinality, EndpointAdmin!Cardinality
  <2> QED
    BY <1>2, <1>3, <2>1, Zenon DEF Endpoint!RenameTemp, EndpointAdmin!RenameTemp
<1>8. Endpoint!SyncDirectory => EndpointAdmin!SyncDirectory
  BY Zenon DEF Endpoint!SyncDirectory, EndpointAdmin!SyncDirectory, Endpoint!WriteDone,
         EndpointAdmin!WriteDone, Endpoint!WriteUnsynced, EndpointAdmin!WriteUnsynced,
         Endpoint!Serve, EndpointAdmin!Serve, Endpoint!Writes, EndpointAdmin!Writes, Endpoint!NoJob,
         EndpointAdmin!NoJob, Endpoint!Answered, EndpointAdmin!Answered
<1>9. Endpoint!PublishSet => EndpointAdmin!PublishSet
  BY Zenon DEF Endpoint!PublishSet, EndpointAdmin!PublishSet, Endpoint!NoJob, EndpointAdmin!NoJob,
         Endpoint!Answered, EndpointAdmin!Answered, Endpoint!Restore, EndpointAdmin!Restore,
         Endpoint!Writes, EndpointAdmin!Writes
<1>10. Endpoint!Start => EndpointAdmin!Start
  BY Zenon DEF Endpoint!Start, EndpointAdmin!Start, Endpoint!DocOf, EndpointAdmin!DocOf, Endpoint!Writes,
         EndpointAdmin!Writes, Endpoint!Serve, EndpointAdmin!Serve, Endpoint!NoAnswer,
         EndpointAdmin!NoAnswer, Endpoint!Unasked, EndpointAdmin!Unasked
<1>11. Endpoint!Crash => EndpointAdmin!Crash
  BY Zenon DEF Endpoint!Crash, EndpointAdmin!Crash, Endpoint!Running, EndpointAdmin!Running,
         Endpoint!Ends, EndpointAdmin!Ends, Endpoint!NoJob, EndpointAdmin!NoJob, Endpoint!NoAnswer,
         EndpointAdmin!NoAnswer, Endpoint!Unasked, EndpointAdmin!Unasked
<1>12. Endpoint!PowerLoss => EndpointAdmin!PowerLoss
  BY Zenon DEF Endpoint!PowerLoss, EndpointAdmin!PowerLoss, Endpoint!Ends, EndpointAdmin!Ends,
         Endpoint!NoJob, EndpointAdmin!NoJob, Endpoint!NoAnswer, EndpointAdmin!NoAnswer,
         Endpoint!Unasked, EndpointAdmin!Unasked
<1>13. Endpoint!Writeback => EndpointAdmin!Writeback
  BY Zenon DEF Endpoint!Writeback, EndpointAdmin!Writeback
<1>14. Endpoint!EditConfig => EndpointAdmin!EditConfig
  BY Zenon DEF Endpoint!EditConfig, EndpointAdmin!EditConfig, Endpoint!Running, EndpointAdmin!Running
<1> QED
  BY <1>1, <1>4, <1>5, <1>6, <1>7, <1>8, <1>9, <1>10, <1>11, <1>12, <1>13, <1>14, Zenon DEF Endpoint!Next, EndpointAdmin!Next

Both == Each(TrustAdmin!OverlayInv, EndpointAdmin!OverlayInv)

LEMMA BothInit == Init => Both
<1>1. TrustAdmin!Init => TrustAdmin!OverlayInv
  BY TrustLaws, TrustAdmin!OverlayInit, Zenon
<1>2. EndpointAdmin!Init => EndpointAdmin!OverlayInv
  BY EndpointLaws, EndpointAdmin!OverlayInit, Zenon
<1> QED BY <1>1, <1>2, TrustIsAdmin, EndpointIsAdmin, Zenon DEF Init, Both, Each

LEMMA BothStep == Both /\ [Next]_vars => Both'
<1> SUFFICES ASSUME Both, [Next]_vars PROVE Both'
  BY Zenon
<1>1. kind' = kind
  BY Zenon DEF Next, vars
<1>2. CASE kind = "trust"
  <2>1. [TrustAdmin!Next]_(TrustAdmin!vars)
    BY <1>2, TrustIsAdmin, Zenon DEF Next, vars, TrustAdmin!vars
  <2>2. TrustAdmin!OverlayInv'
    BY <1>2, <2>1, TrustLaws, TrustAdmin!OverlayStep, Zenon DEF Both, Each
  <2> QED BY <1>1, <1>2, <2>2, Zenon DEF Both, Each
<1>3. CASE kind # "trust"
  <2>1. [EndpointAdmin!Next]_(EndpointAdmin!vars)
    BY <1>3, EndpointIsAdmin, Zenon DEF Next, vars, EndpointAdmin!vars
  <2>2. EndpointAdmin!OverlayInv'
    BY <1>3, <2>1, EndpointLaws, EndpointAdmin!OverlayStep, Zenon DEF Both, Each
  <2> QED BY <1>1, <1>3, <2>2, Zenon DEF Both, Each
<1> QED BY <1>2, <1>3, Zenon

\* The inductive invariant of both sets (runtime.rs `set_trust`, `set_endpoints`;
\* persist.rs `write_atomic_with_mode`): what a set has written, put back or
\* published agrees with the file and with the overlay that is kept, at each step
\* the process may die at.
THEOREM OverlaysInvariant == Spec => []Both
BY BothInit, BothStep, PTL DEF Spec

\* Whatever write fails, the overlay the driver keeps is the one the next start
\* reads (runtime.rs `set_trust`, `set_endpoints`).
THEOREM KeptIsAlwaysOnFile == Spec => []KeptIsOnFile
<1>1. Both => KeptIsOnFile
  BY Zenon DEF Both, Each, KeptIsOnFile, TrustAdmin!OverlayInv, EndpointAdmin!OverlayInv,
         TrustAdmin!KeptIsOnFile, EndpointAdmin!KeptIsOnFile, Trust!KeptIsOnFile, Endpoint!KeptIsOnFile,
         TrustAdmin!DocOf, EndpointAdmin!DocOf, Trust!DocOf, Endpoint!DocOf
<1> QED BY <1>1, OverlaysInvariant, PTL

\* An `ok` is in force and on file, and one that wrote survives a loss of power
\* (runtime.rs `set_trust`; persist.rs `fsync_dir`).
THEOREM OkIsAlwaysKept == Spec => []OkIsKept
<1>1. TrustAdmin!OverlayInv => Trust!OkIsKept
  BY Zenon DEF TrustAdmin!OverlayInv, TrustAdmin!OkOK, Trust!OkIsKept, Trust!Idle, TrustAdmin!DocOf, Trust!DocOf
<1>2. EndpointAdmin!OverlayInv => Endpoint!OkIsKept
  BY Zenon DEF EndpointAdmin!OverlayInv, EndpointAdmin!OkOK, Endpoint!OkIsKept, Endpoint!Idle,
         EndpointAdmin!DocOf, Endpoint!DocOf
<1>3. Both => OkIsKept
  BY <1>1, <1>2, Zenon DEF Both, Each, OkIsKept
<1> QED BY <1>3, OverlaysInvariant, PTL

\* A crash or a power loss at any step of a set leaves a file that the next start
\* with the same configuration loads (profile-config `load_within`).
THEOREM NextStartAlwaysLoads == Spec => []NextStartLoads
<1>1. TrustAdmin!OverlayInv => Trust!NextStartLoads
  <2>1. TrustAdmin!OverlayInv => TrustAdmin!NextStartLoads
    BY TrustLaws, TrustAdmin!InvLoads, Zenon
  <2> QED BY <2>1, Zenon DEF TrustAdmin!NextStartLoads, Trust!NextStartLoads, TrustAdmin!DocOf, Trust!DocOf
<1>2. EndpointAdmin!OverlayInv => Endpoint!NextStartLoads
  <2>1. EndpointAdmin!OverlayInv => EndpointAdmin!NextStartLoads
    BY EndpointLaws, EndpointAdmin!InvLoads, Zenon
  <2> QED BY <2>1, Zenon DEF EndpointAdmin!NextStartLoads, Endpoint!NextStartLoads, EndpointAdmin!DocOf,
                      Endpoint!DocOf
<1>3. Both => NextStartLoads
  BY <1>1, <1>2, Zenon DEF Both, Each, NextStartLoads
<1> QED BY <1>3, OverlaysInvariant, PTL
=============================================================================
