------------------------- MODULE ChatDispatchProofs -------------------------
(***************************************************************************)
(* Proofs about UpstreamRouting, for every number of callers, keys and     *)
(* models, every limit, window and duration and every length of behaviour, *)
(* and about ChatDispatch above it, for every number of requests, keys and *)
(* rules, every retry count, sub-provider count, budget and answer of      *)
(* upstreams.                                                              *)
(***************************************************************************)
EXTENDS ChatDispatch, FiniteSetTheorems, SequenceTheorems, TLAPS

-----------------------------------------------------------------------------
(* Upstream routing.                                                       *)

\* The types of the durations and limits, apart from the rest of the assumption.
LEMMA ConstantTypes ==
    /\ Minute \in Nat /\ HitWindow \in Nat /\ ExhaustWindow \in Nat
    /\ Midnight \in Nat /\ MaxTime \in Nat /\ Midnight > MaxTime
    /\ KeyRpm \in Nat \ {0} /\ MaxConcurrency \in Nat \ {0}
    /\ Transient \in Nat \ {0} /\ Overload \in Nat \ {0} /\ Default \in Nat \ {0}
    /\ Ceiling \in Nat \ {0}
BY RoutingConstants

\* What _trim_numeric_window leaves is the window without its first entries.
LEMMA TrimmedSuffix ==
    ASSUME NEW s \in Seq(Nat), NEW t \in Nat, NEW w \in Nat
    PROVE  LET n == Cardinality(Outdated(s, t, w))
           IN  /\ n \in 0 .. Len(s)
               /\ Trimmed(s, t, w) \in Seq(Nat)
               /\ Len(Trimmed(s, t, w)) = Len(s) - n
               /\ \A i \in 1 .. Len(s) - n : Trimmed(s, t, w)[i] = s[i + n]
<1> DEFINE n == Cardinality(Outdated(s, t, w))
<1>1. Outdated(s, t, w) \subseteq 1 .. Len(s) /\ Len(s) \in Nat
  <2>1. DOMAIN s = 1 .. Len(s) /\ Len(s) \in Nat BY LenProperties
  <2> QED BY <2>1 DEF Outdated
<1>2. IsFiniteSet(1 .. Len(s)) /\ Cardinality(1 .. Len(s)) = Len(s)
  <2>1. Len(s) \in Int /\ (1 > Len(s) => Len(s) = 0) BY <1>1
  <2> QED BY <2>1, FS_Interval
<1>3. n \in 0 .. Len(s)
  BY <1>1, <1>2, FS_Subset, FS_CardinalityType
<1>4. Trimmed(s, t, w) = SubSeq(s, n + 1, Len(s))
  BY DEF Trimmed
<1> HIDE DEF n
<1>5. n + 1 \in 1 .. Len(s) + 1 /\ Len(s) \in (n + 1) - 1 .. Len(s)
  BY <1>1, <1>3
<1>6. /\ SubSeq(s, n + 1, Len(s)) \in Seq(Nat)
      /\ Len(SubSeq(s, n + 1, Len(s))) = Len(s) - (n + 1) + 1
      /\ \A i \in 1 .. Len(s) - (n + 1) + 1 : SubSeq(s, n + 1, Len(s))[i] = s[(n + 1) + i - 1]
  <2>1. \A i \in n + 1 .. Len(s) : s[i] \in Nat
    <3>1. \A i \in 1 .. Len(s) : s[i] \in Nat BY ElementOfSeq
    <3> QED BY <1>1, <1>3, <3>1
  <2>2. n + 1 \in Int /\ Len(s) \in Int BY <1>1, <1>3
  <2>3. (n + 1 <= Len(s) \/ Len(s) - (n + 1) + 1 = 0) BY <1>1, <1>3
  <2> QED BY <2>1, <2>2, <2>3, SubSeqProperties
<1>7. Len(s) - (n + 1) + 1 = Len(s) - n /\ \A i \in 1 .. Len(s) - n : (n + 1) + i - 1 = i + n
  BY <1>1, <1>3
<1> QED BY <1>3, <1>4, <1>6, <1>7 DEF n

\* So a trimmed window is a window.
LEMMA TrimmedType ==
    ASSUME NEW s \in Seq(Nat), NEW t \in Nat, NEW w \in Nat
    PROVE  Trimmed(s, t, w) \in Seq(Nat)
BY TrimmedSuffix

---------------------------------------------------------------------------
(* What the methods of the object keep.                                    *)

\* A 429 counts as an exhaustion only when no cooldown is running and then
\* starts one: an exhaustion recorded now has a cooldown beyond now.
Episodes(rt, t) ==
    \A r \in Refs :
        /\ \A i \in DOMAIN rt.exhaust[r] :
              rt.exhaust[r][i] <= t /\ (rt.exhaust[r][i] = t => rt.cool[r] > t)
        /\ \A i, j \in DOMAIN rt.exhaust[r] : i < j => rt.exhaust[r][i] < rt.exhaust[r][j]

\* A window at time t: in the order of its times, and none of the last minute's
\* is missing its place.
Recent(s, t) ==
    \A i \in DOMAIN s :
        /\ s[i] <= t /\ t <= s[i] + Minute
        /\ \A j \in DOMAIN s : i <= j => s[i] <= s[j]

\* What belongs to the starts through a key, in its two forms.
LEMMA StartsMember ==
    ASSUME NEW rt, NEW k, NEW p
    PROVE  /\ p \in StartsThrough(rt, k)
                 <=> \E m \in Models : p \in {m} \X DOMAIN rt.starts[<<m, k>>]
           /\ p \in StartsThrough(rt, k)
                 <=> /\ p = <<p[1], p[2]>> /\ p[1] \in Models
                     /\ p[2] \in DOMAIN rt.starts[<<p[1], k>>]
<1>1. p \in StartsThrough(rt, k) <=> \E m \in Models : p \in {m} \X DOMAIN rt.starts[<<m, k>>]
  BY DEF StartsThrough
<1>2. ASSUME NEW m \in Models, p \in {m} \X DOMAIN rt.starts[<<m, k>>]
      PROVE  p = <<p[1], p[2]>> /\ p[1] = m /\ p[2] \in DOMAIN rt.starts[<<m, k>>]
  BY <1>2
<1>3. ASSUME p = <<p[1], p[2]>>, p[2] \in DOMAIN rt.starts[<<p[1], k>>]
      PROVE  p \in {p[1]} \X DOMAIN rt.starts[<<p[1], k>>]
  BY <1>3
<1> QED BY <1>1, <1>2, <1>3

\* Every start a model's window remembers has a place of its own in the window
\* the models share, with the same time.
Placed(rt, k, place) ==
    /\ place \in [StartsThrough(rt, k) -> DOMAIN rt.shared[k]]
    /\ \A p, q \in StartsThrough(rt, k) : place[p] = place[q] => p = q
    /\ \A p \in StartsThrough(rt, k) : rt.starts[<<p[1], k>>][p[2]] = rt.shared[k][place[p]]

\* The windows of the models and the one they share, at time t.
Windows(rt, t) ==
    /\ \A r \in Refs : Recent(rt.starts[r], t)
    /\ \A k \in Keys :
          /\ Recent(rt.shared[k], t)
          /\ Len(rt.shared[k]) <= KeyRpm
          /\ \E place : Placed(rt, k, place)

\* The state of the object at time t: in its type, its episodes apart and its
\* windows in step.
Sound(rt, t) ==
    /\ t \in Nat /\ t <= MaxTime
    /\ rt \in RouteType
    /\ Episodes(rt, t)
    /\ Windows(rt, t)

\* A step that leaves the exhaustion windows alone keeps the episodes apart if
\* every cooldown it writes over one that is running is running too.
LEMMA EpisodesKept ==
    ASSUME NEW rt, NEW new, NEW t, Episodes(rt, t), new.exhaust = rt.exhaust,
           \A r \in Refs : rt.cool[r] > t => new.cool[r] > t
    PROVE  Episodes(new, t)
BY DEF Episodes

\* Who writes neither kind of window keeps them in step.
LEMMA WindowsKept ==
    ASSUME NEW rt, NEW new, NEW t, Windows(rt, t), new.starts = rt.starts, new.shared = rt.shared
    PROVE  Windows(new, t)
<1>1. \A k : StartsThrough(new, k) = StartsThrough(rt, k) BY DEF StartsThrough
<1>2. \A k, place : Placed(rt, k, place) => Placed(new, k, place) BY <1>1 DEF Placed
<1> QED BY <1>2 DEF Windows

\* Who writes neither cooldowns nor windows keeps the object sound.
LEMMA SoundStep ==
    ASSUME NEW rt, NEW new, NEW t, Sound(rt, t), new \in RouteType,
           new.exhaust = rt.exhaust, new.cool = rt.cool,
           new.starts = rt.starts, new.shared = rt.shared
    PROVE  Sound(new, t)
BY EpisodesKept, WindowsKept DEF Sound

\* A new value of the right type in a field of the object.
LEMMA FieldTypes ==
    ASSUME NEW rt \in RouteType
    PROVE  /\ \A f \in [Refs -> Nat] : [rt EXCEPT !.cool = f] \in RouteType
           /\ \A f \in [Refs -> Nat] : [rt EXCEPT !.zero = f] \in RouteType
           /\ \A f \in [Refs -> Seq(Nat)] : [rt EXCEPT !.hits = f] \in RouteType
           /\ \A f \in [Refs -> Seq(Nat)] : [rt EXCEPT !.exhaust = f] \in RouteType
           /\ \A f \in [Refs -> Seq(Nat)] : [rt EXCEPT !.starts = f] \in RouteType
           /\ \A f \in [Keys -> Seq(Nat)] : [rt EXCEPT !.shared = f] \in RouteType
           /\ \A f \in [Keys -> Nat] : [rt EXCEPT !.active = f] \in RouteType
           /\ \A f \in [Scopes -> Nat] : [rt EXCEPT !.paused = f] \in RouteType
           /\ \A n \in Nat : [rt EXCEPT !.pauses = n] \in RouteType
           /\ \A f \in [Refs -> BOOLEAN] : [rt EXCEPT !.midnight = f] \in RouteType
           /\ \A f \in SUBSET Models : [rt EXCEPT !.unforced = f] \in RouteType
BY DEF RouteType

\* acquire_concurrency counts a slot and nothing else.
LEMMA AcquireSound ==
    ASSUME NEW rt, Sound(rt, now), NEW k \in Keys
    PROVE  /\ Sound(AcquireConcurrency(rt, k), now)
           /\ AcquireConcurrency(rt, k).active = [rt.active EXCEPT ![k] = @ + 1]
<1> DEFINE f == [rt.active EXCEPT ![k] = @ + 1]
<1>1. rt \in RouteType BY DEF Sound
<1>2. rt.active \in [Keys -> Nat] BY <1>1 DEF RouteType
<1>3. f \in [Keys -> Nat] BY <1>2
<1>4. AcquireConcurrency(rt, k) = [rt EXCEPT !.active = f] BY DEF AcquireConcurrency
<1> HIDE DEF f
<1>5. [rt EXCEPT !.active = f] \in RouteType BY <1>1, <1>3, FieldTypes
<1>6. /\ [rt EXCEPT !.active = f].active = f
      /\ [rt EXCEPT !.active = f].exhaust = rt.exhaust
      /\ [rt EXCEPT !.active = f].cool = rt.cool
      /\ [rt EXCEPT !.active = f].starts = rt.starts /\ [rt EXCEPT !.active = f].shared = rt.shared
  BY <1>1 DEF RouteType
<1> QED BY <1>4, <1>5, <1>6, SoundStep DEF f

\* Nor does its release.
LEMMA ReleaseSound ==
    ASSUME NEW rt, Sound(rt, now), NEW k \in Keys
    PROVE  /\ Sound(ReleaseConcurrency(rt, k), now)
           /\ ReleaseConcurrency(rt, k).active =
                 [rt.active EXCEPT ![k] = IF @ <= 1 THEN 0 ELSE @ - 1]
<1> DEFINE f == [rt.active EXCEPT ![k] = IF @ <= 1 THEN 0 ELSE @ - 1]
<1>1. rt \in RouteType BY DEF Sound
<1>2. rt.active \in [Keys -> Nat] BY <1>1 DEF RouteType
<1>3. f \in [Keys -> Nat] BY <1>2
<1>4. ReleaseConcurrency(rt, k) = [rt EXCEPT !.active = f] BY DEF ReleaseConcurrency
<1> HIDE DEF f
<1>5. [rt EXCEPT !.active = f] \in RouteType BY <1>1, <1>3, FieldTypes
<1>6. /\ [rt EXCEPT !.active = f].active = f
      /\ [rt EXCEPT !.active = f].exhaust = rt.exhaust
      /\ [rt EXCEPT !.active = f].cool = rt.cool
      /\ [rt EXCEPT !.active = f].starts = rt.starts /\ [rt EXCEPT !.active = f].shared = rt.shared
  BY <1>1 DEF RouteType
<1> QED BY ZenonT(60), <1>4, <1>5, <1>6, SoundStep DEF f

\* What is still inside the minute stays.
LEMMA TrimmedAll ==
    ASSUME NEW s \in Seq(Nat), NEW t \in Nat, Recent(s, t)
    PROVE  Trimmed(s, t, Minute) = s
<1> DEFINE n == Cardinality(Outdated(s, t, Minute))
<1>1. Minute \in Nat BY ConstantTypes
<1>2. Outdated(s, t, Minute) = {}
  <2>1. ASSUME NEW i \in DOMAIN s PROVE ~ (s[i] + Minute < t)
    <3>1. s[i] \in Nat BY ElementOfSeq
    <3> QED BY <1>1, <3>1 DEF Recent
  <2> QED BY <2>1 DEF Outdated
<1>3. n = 0 BY <1>2, FS_EmptySet
<1>4. /\ Trimmed(s, t, Minute) \in Seq(Nat)
      /\ Len(Trimmed(s, t, Minute)) = Len(s) - n
      /\ \A i \in 1 .. Len(s) - n : Trimmed(s, t, Minute)[i] = s[i + n]
  BY <1>1, TrimmedSuffix
<1> HIDE DEF n
<1>5. Len(s) \in Nat BY LenProperties
<1>6. Len(s) - n = Len(s) /\ \A i \in 1 .. Len(s) : i + n = i BY <1>3, <1>5
<1> QED BY <1>4, <1>6, SeqEqual

\* The window with the start of an attempt at its end.
LEMMA AppendRecent ==
    ASSUME NEW s \in Seq(Nat), NEW t \in Nat, Recent(s, t)
    PROVE  Recent(Append(s, t), t)
<1> DEFINE u == Append(s, t)
<1>1. /\ Len(s) \in Nat /\ DOMAIN s = 1 .. Len(s) /\ DOMAIN u = 1 .. Len(s) + 1
      /\ \A i \in 1 .. Len(s) : u[i] = s[i]
      /\ u[Len(s) + 1] = t
  BY AppendProperties, LenProperties
<1>2. \A i \in 1 .. Len(s) : s[i] \in Nat BY ElementOfSeq
<1> HIDE DEF u
<1>3. ASSUME NEW i \in DOMAIN u
      PROVE  u[i] <= t /\ t <= u[i] + Minute /\ \A j \in DOMAIN u : i <= j => u[i] <= u[j]
  <2>1. CASE i = Len(s) + 1
    <3>1. \A j \in DOMAIN u : i <= j => j = i BY <1>1, <2>1
    <3> QED BY <1>1, <2>1, <3>1, ConstantTypes
  <2>2. CASE i \in 1 .. Len(s)
    <3>1. u[i] = s[i] /\ s[i] <= t /\ t <= s[i] + Minute BY <1>1, <2>2 DEF Recent
    <3>2. ASSUME NEW j \in DOMAIN u, i <= j PROVE u[i] <= u[j]
      <4>1. CASE j = Len(s) + 1 BY <1>1, <3>1, <4>1
      <4>2. CASE j \in 1 .. Len(s) BY <1>1, <2>2, <3>2, <4>2 DEF Recent
      <4> QED BY <1>1, <4>1, <4>2
    <3> QED BY <3>1, <3>2
  <2> QED BY <1>1, <2>1, <2>2
<1> QED BY <1>3 DEF Recent, u

\* A start enters the window of its model and the shared one.
LEMMA WindowsAppend ==
    ASSUME NEW rt, NEW w, NEW t \in Nat, NEW m \in Models, NEW k \in Keys, Windows(rt, t),
           rt.starts \in [Refs -> Seq(Nat)], rt.shared \in [Keys -> Seq(Nat)],
           Len(rt.shared[k]) < KeyRpm,
           w.starts = [rt.starts EXCEPT ![<<m, k>>] = Append(@, t)],
           w.shared = [rt.shared EXCEPT ![k] = Append(@, t)]
    PROVE  Windows(w, t)
<1>1. /\ <<m, k>> \in Refs
      /\ rt.starts[<<m, k>>] \in Seq(Nat) /\ rt.shared[k] \in Seq(Nat)
  BY DEF Refs
<1>2. /\ w.shared[k] = Append(rt.shared[k], t)
      /\ w.starts[<<m, k>>] = Append(rt.starts[<<m, k>>], t)
      /\ \A r \in Refs : r # <<m, k>> => w.starts[r] = rt.starts[r]
      /\ \A l \in Keys : l # k => w.shared[l] = rt.shared[l]
  BY <1>1
<1>3. ASSUME NEW r \in Refs PROVE Recent(w.starts[r], t)
  BY <1>1, <1>2, AppendRecent DEF Windows
<1>4. ASSUME NEW l \in Keys, l # k
      PROVE  /\ Recent(w.shared[l], t) /\ Len(w.shared[l]) <= KeyRpm
             /\ \E place : Placed(w, l, place)
  <2>1. PICK place : Placed(rt, l, place) BY DEF Windows
  <2>2. w.shared[l] = rt.shared[l] /\ \A n \in Models : w.starts[<<n, l>>] = rt.starts[<<n, l>>]
    BY <1>2, <1>4 DEF Refs
  <2>3. \A p : p \in StartsThrough(w, l) <=> p \in StartsThrough(rt, l)
    <3>1. ASSUME NEW p, p[1] \in Models
          PROVE  w.starts[<<p[1], l>>] = rt.starts[<<p[1], l>>]
      BY <2>2, <3>1
    <3>2. ASSUME NEW p PROVE p \in StartsThrough(w, l) <=> p \in StartsThrough(rt, l)
      <4>1. p \in StartsThrough(w, l) <=> /\ p = <<p[1], p[2]>> /\ p[1] \in Models
                                           /\ p[2] \in DOMAIN w.starts[<<p[1], l>>]
        BY StartsMember
      <4>2. p \in StartsThrough(rt, l) <=> /\ p = <<p[1], p[2]>> /\ p[1] \in Models
                                            /\ p[2] \in DOMAIN rt.starts[<<p[1], l>>]
        BY StartsMember
      <4> QED BY <3>1, <4>1, <4>2
    <3> QED BY <3>2
  <2>4. ASSUME NEW p \in StartsThrough(w, l)
        PROVE  w.starts[<<p[1], l>>][p[2]] = w.shared[l][place[p]]
    <3>1. p[1] \in Models BY StartsMember
    <3> QED BY <2>1, <2>2, <2>3, <3>1 DEF Placed
  <2>5. Placed(w, l, place) BY ZenonT(60), <2>1, <2>2, <2>3, <2>4 DEF Placed
  <2> QED BY <2>2, <2>5 DEF Windows
<1>5. Recent(w.shared[k], t) /\ Len(w.shared[k]) <= KeyRpm
  <2>1. Len(rt.shared[k]) \in Nat /\ KeyRpm \in Nat BY <1>1, LenProperties, ConstantTypes
  <2>2. Len(w.shared[k]) = Len(rt.shared[k]) + 1 BY <1>1, <1>2, AppendProperties
  <2>3. Recent(w.shared[k], t) BY <1>1, <1>2, AppendRecent DEF Windows
  <2> QED BY <2>1, <2>2, <2>3
<1>6. \E place : Placed(w, k, place)
  <2> DEFINE old == StartsThrough(rt, k)
             count == Len(rt.starts[<<m, k>>])
             last == Len(rt.shared[k]) + 1
             fresh == <<m, count + 1>>
  <2>1. PICK place : Placed(rt, k, place) BY DEF Windows
  <2>2. /\ count \in Nat /\ last \in Nat
        /\ DOMAIN rt.shared[k] = 1 .. last - 1 /\ DOMAIN w.shared[k] = 1 .. last
        /\ DOMAIN rt.starts[<<m, k>>] = 1 .. count
        /\ DOMAIN w.starts[<<m, k>>] = 1 .. count + 1
    BY <1>1, <1>2, LenProperties, AppendProperties
  <2>3. /\ w.shared[k][last] = t /\ w.starts[<<m, k>>][count + 1] = t
        /\ \A i \in 1 .. last - 1 : w.shared[k][i] = rt.shared[k][i]
        /\ \A i \in 1 .. count : w.starts[<<m, k>>][i] = rt.starts[<<m, k>>][i]
    BY <1>1, <1>2, LenProperties, AppendProperties
  <2> HIDE DEF count, last
  <2>4. ASSUME NEW p \in StartsThrough(w, k)
        PROVE  p = fresh \/ p \in old
    <3>1. p = <<p[1], p[2]>> /\ p[1] \in Models /\ p[2] \in DOMAIN w.starts[<<p[1], k>>]
      BY StartsMember
    <3>2. CASE p[1] = m /\ p[2] = count + 1 BY <3>1, <3>2
    <3>3. CASE p[1] = m /\ p[2] # count + 1
      <4>1. p[2] \in DOMAIN rt.starts[<<p[1], k>>] BY <2>2, <3>1, <3>3
      <4> QED BY <3>1, <4>1, StartsMember
    <3>4. CASE p[1] # m
      <4>1. p[2] \in DOMAIN rt.starts[<<p[1], k>>] BY <1>2, <3>1, <3>4 DEF Refs
      <4> QED BY <3>1, <4>1, StartsMember
    <3> QED BY <3>2, <3>3, <3>4
  <2>5. fresh \notin old
    <3>1. fresh \in old => fresh[2] \in DOMAIN rt.starts[<<fresh[1], k>>] BY StartsMember
    <3> QED BY <2>2, <3>1
  <2>6. \A p \in old : w.starts[<<p[1], k>>][p[2]] = rt.starts[<<p[1], k>>][p[2]]
    <3>1. ASSUME NEW p \in old
          PROVE  p[1] \in Models /\ p[2] \in DOMAIN rt.starts[<<p[1], k>>]
      BY StartsMember
    <3>2. ASSUME NEW p \in old, p[1] = m
          PROVE  w.starts[<<p[1], k>>][p[2]] = rt.starts[<<p[1], k>>][p[2]]
      BY <2>2, <2>3, <3>1, <3>2
    <3>3. ASSUME NEW p \in old, p[1] # m
          PROVE  w.starts[<<p[1], k>>][p[2]] = rt.starts[<<p[1], k>>][p[2]]
      <4>1. <<p[1], k>> \in Refs /\ <<p[1], k>> # <<m, k>> BY <3>1, <3>3 DEF Refs
      <4> QED BY <1>2, <4>1
    <3> QED BY <3>2, <3>3
  <2> DEFINE place2 == [p \in StartsThrough(w, k) |-> IF p = fresh THEN last ELSE place[p]]
  <2>7. \A p \in StartsThrough(w, k) : p # fresh => place2[p] = place[p] /\ place[p] \in 1 .. last - 1
    BY <2>1, <2>2, <2>4 DEF Placed
  <2>8. \A p \in StartsThrough(w, k) : p = fresh => place2[p] = last OBVIOUS
  <2>9. place2 \in [StartsThrough(w, k) -> DOMAIN w.shared[k]]
    BY <2>2, <2>7
  <2> HIDE DEF place2, fresh
  <2>11. \A p, q \in StartsThrough(w, k) : place2[p] = place2[q] => p = q
    BY SMTT(30), <2>1, <2>2, <2>4, <2>7, <2>8 DEF Placed
  <2>10. \A p \in StartsThrough(w, k) : w.starts[<<p[1], k>>][p[2]] = w.shared[k][place2[p]]
    <3>1. ASSUME NEW p \in StartsThrough(w, k), p = fresh
          PROVE  w.starts[<<p[1], k>>][p[2]] = w.shared[k][place2[p]]
      BY <2>3, <2>8, <3>1 DEF fresh
    <3>2. ASSUME NEW p \in StartsThrough(w, k), p # fresh
          PROVE  w.starts[<<p[1], k>>][p[2]] = w.shared[k][place2[p]]
      <4>1. p \in old /\ place2[p] = place[p] /\ place[p] \in 1 .. last - 1 BY <2>4, <2>7, <3>2
      <4>2. rt.starts[<<p[1], k>>][p[2]] = rt.shared[k][place[p]] BY <2>1, <4>1 DEF Placed
      <4> QED BY <2>3, <2>6, <4>1, <4>2
    <3> QED BY <3>1, <3>2
  <2> QED BY <2>9, <2>10, <2>11 DEF Placed
<1> QED BY <1>3, <1>4, <1>5, <1>6 DEF Windows

\* record_attempt_start, once the shared quota let it through.
LEMMA RecordStartSound ==
    ASSUME NEW rt, Sound(rt, now), NEW m \in Models, NEW k \in Keys, ~ KeyQuotaBlocks(rt, k)
    PROVE  /\ Sound(RecordAttemptStart(rt, m, k), now)
           /\ RecordAttemptStart(rt, m, k).active = rt.active
<1> DEFINE f == [rt.starts EXCEPT ![<<m, k>>] = Append(@, now)]
           g == [rt.shared EXCEPT ![k] = Append(@, now)]
           mid == [rt EXCEPT !.starts = f]
           new == [mid EXCEPT !.shared = g]
<1>1. rt \in RouteType /\ now \in Nat /\ Windows(rt, now) BY DEF Sound
<1>2. /\ rt.starts \in [Refs -> Seq(Nat)] /\ rt.shared \in [Keys -> Seq(Nat)] /\ <<m, k>> \in Refs
      /\ rt.starts[<<m, k>>] \in Seq(Nat) /\ rt.shared[k] \in Seq(Nat)
  BY <1>1 DEF RouteType, Refs
<1>3. /\ Since(rt.starts[<<m, k>>], Minute) = rt.starts[<<m, k>>]
      /\ Since(rt.shared[k], Minute) = rt.shared[k]
  BY <1>1, <1>2, TrimmedAll DEF Since, Windows
<1>4. Len(rt.shared[k]) < KeyRpm
  <2>1. Len(rt.shared[k]) \in Nat /\ KeyRpm \in Nat BY <1>2, LenProperties, ConstantTypes
  <2> QED BY <1>3, <2>1 DEF KeyQuotaBlocks, KeyStarts
<1>5. f \in [Refs -> Seq(Nat)] /\ g \in [Keys -> Seq(Nat)]
  BY <1>1, <1>2, AppendProperties
<1>6. RecordAttemptStart(rt, m, k) = new
  BY <1>1, <1>3 DEF RecordAttemptStart, RouteType
<1>7. /\ new.active = rt.active /\ new.exhaust = rt.exhaust /\ new.cool = rt.cool
      /\ new.starts = f /\ new.shared = g
  BY <1>1 DEF RouteType
<1>8. mid \in RouteType /\ new \in RouteType
  <2> HIDE DEF f, g
  <2>1. mid \in RouteType BY <1>1, <1>5, FieldTypes
  <2> QED BY <1>5, <2>1, FieldTypes
<1> HIDE DEF new
<1>9. Windows(new, now) BY <1>1, <1>2, <1>4, <1>7, WindowsAppend
<1>11. Episodes(new, now) BY <1>7, EpisodesKept DEF Sound
<1> QED BY <1>6, <1>7, <1>8, <1>9, <1>11 DEF Sound

\* record_observed_limit writes no cooldown and no window.
LEMMA ObserveSound ==
    ASSUME NEW rt, Sound(rt, now), NEW r \in Refs, NEW reset \in Nat
    PROVE  /\ Sound(ObserveRemaining(rt, r, reset), now)
           /\ ObserveRemaining(rt, r, reset).active = rt.active
<1> DEFINE f == [rt.zero EXCEPT ![r] = reset]
<1>1. rt \in RouteType BY DEF Sound
<1>2. f \in [Refs -> Nat] BY <1>1 DEF RouteType
<1>3. ObserveRemaining(rt, r, reset) = [rt EXCEPT !.zero = f] BY DEF ObserveRemaining
<1> HIDE DEF f
<1>4. [rt EXCEPT !.zero = f] \in RouteType BY <1>1, <1>2, FieldTypes
<1>5. /\ [rt EXCEPT !.zero = f].active = rt.active
      /\ [rt EXCEPT !.zero = f].exhaust = rt.exhaust
      /\ [rt EXCEPT !.zero = f].cool = rt.cool
      /\ [rt EXCEPT !.zero = f].starts = rt.starts /\ [rt EXCEPT !.zero = f].shared = rt.shared
  BY <1>1 DEF RouteType
<1> QED BY <1>3, <1>4, <1>5, SoundStep

\* Nor does record_forced_tool_choice_unsupported.
LEMMA UnforcedSound ==
    ASSUME NEW rt, Sound(rt, now), NEW m \in Models
    PROVE  /\ Sound(LearnUnforced(rt, m), now)
           /\ LearnUnforced(rt, m).active = rt.active
<1> DEFINE f == rt.unforced \cup {m}
<1>1. rt \in RouteType BY DEF Sound
<1>2. f \in SUBSET Models BY <1>1 DEF RouteType
<1>3. LearnUnforced(rt, m) = [rt EXCEPT !.unforced = f] BY DEF LearnUnforced
<1> HIDE DEF f
<1>4. [rt EXCEPT !.unforced = f] \in RouteType BY <1>1, <1>2, FieldTypes
<1>5. /\ [rt EXCEPT !.unforced = f].active = rt.active
      /\ [rt EXCEPT !.unforced = f].exhaust = rt.exhaust
      /\ [rt EXCEPT !.unforced = f].cool = rt.cool
      /\ [rt EXCEPT !.unforced = f].starts = rt.starts /\ [rt EXCEPT !.unforced = f].shared = rt.shared
  BY <1>1 DEF RouteType
<1> QED BY <1>3, <1>4, <1>5, SoundStep

\* A success ends the cooldown together with the exhaustions that set it.
LEMMA HealthySound ==
    ASSUME NEW rt, Sound(rt, now), NEW r \in Refs
    PROVE  /\ Sound(MarkHealthy(rt, r), now)
           /\ MarkHealthy(rt, r).active = rt.active
<1> DEFINE cool == [rt.cool EXCEPT ![r] = 0]
           hits == [rt.hits EXCEPT ![r] = <<>>]
           exhaust == [rt.exhaust EXCEPT ![r] = <<>>]
           midnight == [rt.midnight EXCEPT ![r] = FALSE]
           new == [[[[rt EXCEPT !.cool = cool] EXCEPT !.hits = hits] EXCEPT !.exhaust = exhaust]
                      EXCEPT !.midnight = midnight]
<1>1. rt \in RouteType BY DEF Sound
<1>2. /\ cool \in [Refs -> Nat] /\ hits \in [Refs -> Seq(Nat)]
      /\ exhaust \in [Refs -> Seq(Nat)] /\ midnight \in [Refs -> BOOLEAN]
  BY <1>1, EmptySeq DEF RouteType
<1>3. MarkHealthy(rt, r) = new BY <1>1 DEF MarkHealthy, RouteType
<1>4. Episodes([cool |-> cool, exhaust |-> exhaust], now)
  BY SMTT(30), <1>1 DEF Episodes, Sound, RouteType
<1> HIDE DEF cool, hits, exhaust, midnight
<1>5. new \in RouteType BY <1>1, <1>2, FieldTypes
<1>6. /\ new.active = rt.active /\ new.cool = cool /\ new.exhaust = exhaust
      /\ new.starts = rt.starts /\ new.shared = rt.shared
  BY <1>1 DEF RouteType
<1>7. Episodes(new, now) BY <1>4, <1>6 DEF Episodes
<1>8. Windows(new, now) BY <1>6, WindowsKept DEF Sound
<1> QED BY <1>3, <1>5, <1>6, <1>7, <1>8 DEF Sound

---------------------------------------------------------------------------
(* Failures.                                                               *)

\* The mark of a spent daily quota touches nothing the invariant speaks of.
LEMMA MidnightSound ==
    ASSUME NEW rt, Sound(rt, now), NEW r \in Refs, NEW b \in BOOLEAN
    PROVE  /\ Sound([rt EXCEPT !.midnight[r] = b], now)
           /\ [rt EXCEPT !.midnight[r] = b].active = rt.active
<1> DEFINE f == [rt.midnight EXCEPT ![r] = b]
<1>1. rt \in RouteType BY DEF Sound
<1>2. f \in [Refs -> BOOLEAN] BY <1>1 DEF RouteType
<1>3. [rt EXCEPT !.midnight[r] = b] = [rt EXCEPT !.midnight = f] OBVIOUS
<1> HIDE DEF f
<1>4. [rt EXCEPT !.midnight = f] \in RouteType BY <1>1, <1>2, FieldTypes
<1>5. /\ [rt EXCEPT !.midnight = f].active = rt.active
      /\ [rt EXCEPT !.midnight = f].exhaust = rt.exhaust
      /\ [rt EXCEPT !.midnight = f].cool = rt.cool
      /\ [rt EXCEPT !.midnight = f].starts = rt.starts
      /\ [rt EXCEPT !.midnight = f].shared = rt.shared
  BY <1>1 DEF RouteType
<1> DEFINE new == [rt EXCEPT !.midnight = f]
<1> HIDE DEF new
<1>6. Sound(new, now) BY <1>4, <1>5, SoundStep DEF new
<1> QED BY <1>3, <1>5, <1>6 DEF new

\* A cooldown that lies ahead may be written over any other.
LEMMA CoolSound ==
    ASSUME NEW rt, Sound(rt, now), NEW r \in Refs, NEW until \in Nat, until > now
    PROVE  /\ Sound([rt EXCEPT !.cool[r] = until], now)
           /\ [rt EXCEPT !.cool[r] = until].active = rt.active
           /\ [rt EXCEPT !.cool[r] = until].cool = [rt.cool EXCEPT ![r] = until]
           /\ [rt EXCEPT !.cool[r] = until].midnight = rt.midnight
           /\ [rt EXCEPT !.cool[r] = until].hits = rt.hits
           /\ [rt EXCEPT !.cool[r] = until].exhaust = rt.exhaust
<1> DEFINE f == [rt.cool EXCEPT ![r] = until]
           new == [rt EXCEPT !.cool = f]
<1>1. rt \in RouteType BY DEF Sound
<1>2. f \in [Refs -> Nat] BY <1>1 DEF RouteType
<1>3. [rt EXCEPT !.cool[r] = until] = new OBVIOUS
<1>4. \A q \in Refs : rt.cool[q] > now => f[q] > now BY <1>1 DEF RouteType
<1> HIDE DEF f
<1>5. new \in RouteType BY <1>1, <1>2, FieldTypes
<1>6. /\ new.active = rt.active /\ new.exhaust = rt.exhaust /\ new.cool = f
      /\ new.starts = rt.starts /\ new.shared = rt.shared
      /\ new.midnight = rt.midnight /\ new.hits = rt.hits
  BY <1>1 DEF RouteType
<1> HIDE DEF new
<1>7. Episodes(new, now) BY <1>4, <1>6, EpisodesKept DEF Sound
<1>8. Windows(new, now) BY <1>6, WindowsKept DEF Sound
<1>9. Sound(new, now) BY <1>5, <1>7, <1>8 DEF Sound
<1> QED BY <1>3, <1>6, <1>9 DEF f

\* A cooldown of a positive length lies ahead, at most the ceiling away.
LEMMA CoolForSound ==
    ASSUME NEW rt, Sound(rt, now), NEW r \in Refs, NEW seconds \in Nat \ {0}
    PROVE  /\ Sound(CoolFor(rt, r, seconds), now)
           /\ CoolFor(rt, r, seconds).active = rt.active
           /\ CoolFor(rt, r, seconds).cool[r] = now + Smaller(seconds, Ceiling)
           /\ \A q \in Refs : q # r => CoolFor(rt, r, seconds).cool[q] = rt.cool[q]
           /\ CoolFor(rt, r, seconds).midnight = rt.midnight
           /\ CoolFor(rt, r, seconds).hits = rt.hits
           /\ CoolFor(rt, r, seconds).exhaust = rt.exhaust
<1> DEFINE until == now + Smaller(seconds, Ceiling)
<1>1. until \in Nat /\ until > now BY ConstantTypes DEF Sound, Smaller
<1>2. rt.cool \in [Refs -> Nat] BY DEF Sound, RouteType
<1>3. CoolFor(rt, r, seconds) = [rt EXCEPT !.cool[r] = until] BY DEF CoolFor
<1> HIDE DEF until
<1>4. [rt.cool EXCEPT ![r] = until][r] = until
      /\ \A q \in Refs : q # r => [rt.cool EXCEPT ![r] = until][q] = rt.cool[q]
  BY <1>2
<1>5. /\ Sound([rt EXCEPT !.cool[r] = until], now)
      /\ [rt EXCEPT !.cool[r] = until].active = rt.active
      /\ [rt EXCEPT !.cool[r] = until].cool = [rt.cool EXCEPT ![r] = until]
      /\ [rt EXCEPT !.cool[r] = until].midnight = rt.midnight
      /\ [rt EXCEPT !.cool[r] = until].hits = rt.hits
      /\ [rt EXCEPT !.cool[r] = until].exhaust = rt.exhaust
  BY <1>1, CoolSound
<1> QED BY <1>3, <1>4, <1>5 DEF until

\* The windows a counted exhaustion writes.
WithHits(rt, r, hits, exhausted) == [rt EXCEPT !.hits[r] = hits, !.exhaust[r] = exhausted]

\* An exhaustion is recorded when no cooldown is running, and starts one.
LEMMA ExhaustionSound ==
    ASSUME NEW rt, Sound(rt, now), NEW r \in Refs, ~ Cooling(rt, r),
           NEW cooled, Sound(cooled, now), cooled.exhaust = rt.exhaust, cooled.cool[r] > now,
           NEW hits \in Seq(Nat)
    PROVE  LET new == WithHits(cooled, r, hits, Append(Since(rt.exhaust[r], ExhaustWindow), now))
           IN  Sound(new, now) /\ new.active = cooled.active /\ new.cool = cooled.cool
<1> DEFINE kept == Since(rt.exhaust[r], ExhaustWindow)
           longer == Append(kept, now)
           f == [cooled.hits EXCEPT ![r] = hits]
           g == [cooled.exhaust EXCEPT ![r] = longer]
           mid == [cooled EXCEPT !.hits = f]
           new == [mid EXCEPT !.exhaust = g]
<1>1. /\ rt \in RouteType /\ cooled \in RouteType /\ now \in Nat
      /\ rt.exhaust[r] \in Seq(Nat) /\ rt.cool[r] \in Nat
  BY DEF Sound, RouteType
<1>2. PICK n : /\ n \in 0 .. Len(rt.exhaust[r])
               /\ kept \in Seq(Nat) /\ Len(kept) = Len(rt.exhaust[r]) - n
               /\ \A i \in 1 .. Len(rt.exhaust[r]) - n : kept[i] = rt.exhaust[r][i + n]
  <2> DEFINE c == Cardinality(Outdated(rt.exhaust[r], now, ExhaustWindow))
  <2>1. ExhaustWindow \in Nat BY ConstantTypes
  <2>2. /\ c \in 0 .. Len(rt.exhaust[r])
        /\ kept \in Seq(Nat) /\ Len(kept) = Len(rt.exhaust[r]) - c
        /\ \A i \in 1 .. Len(rt.exhaust[r]) - c : kept[i] = rt.exhaust[r][i + c]
    BY <1>1, <2>1, TrimmedSuffix DEF Since
  <2> HIDE DEF c, kept
  <2> QED BY <2>2
<1>3. /\ Len(rt.exhaust[r]) \in Nat /\ DOMAIN rt.exhaust[r] = 1 .. Len(rt.exhaust[r])
      /\ \A i \in 1 .. Len(rt.exhaust[r]) : rt.exhaust[r][i] \in Nat
  BY <1>1, LenProperties, ElementOfSeq
<1>4. \A i \in DOMAIN rt.exhaust[r] : rt.exhaust[r][i] < now
  BY <1>1, <1>3 DEF Sound, Episodes, Cooling
<1>5. /\ longer \in Seq(Nat) /\ DOMAIN longer = 1 .. Len(kept) + 1 /\ Len(kept) \in Nat
      /\ longer[Len(kept) + 1] = now
      /\ \A i \in 1 .. Len(kept) : longer[i] = kept[i]
  <2>1. kept \in Seq(Nat) /\ now \in Nat BY <1>1, <1>2
  <2> HIDE DEF kept
  <2> QED BY <2>1, AppendProperties, LenProperties
<1> HIDE DEF longer, kept
<1>6. \A i \in 1 .. Len(kept) : longer[i] < now /\ longer[i] \in Nat
  <2>1. ASSUME NEW i \in 1 .. Len(kept) PROVE longer[i] < now /\ longer[i] \in Nat
    <3>1. i + n \in DOMAIN rt.exhaust[r] BY <1>2, <1>3
    <3>2. longer[i] = rt.exhaust[r][i + n] BY <1>2, <1>5
    <3> QED BY <1>3, <1>4, <3>1, <3>2
  <2> QED BY <2>1
<1>7. \A i, j \in 1 .. Len(kept) : i < j => longer[i] < longer[j]
  <2>1. \A i, j \in DOMAIN rt.exhaust[r] : i < j => rt.exhaust[r][i] < rt.exhaust[r][j]
    BY DEF Sound, Episodes
  <2>2. ASSUME NEW i \in 1 .. Len(kept), NEW j \in 1 .. Len(kept), i < j PROVE longer[i] < longer[j]
    <3>1. i + n \in DOMAIN rt.exhaust[r] /\ j + n \in DOMAIN rt.exhaust[r] /\ i + n < j + n
      BY <1>2, <1>3, <2>2
    <3>2. rt.exhaust[r][i + n] < rt.exhaust[r][j + n] BY <2>1, <3>1
    <3> QED BY <1>2, <1>5, <3>2
  <2> QED BY <2>2
<1>8. /\ \A i \in DOMAIN longer : longer[i] <= now
      /\ \A i, j \in DOMAIN longer : i < j => longer[i] < longer[j]
  <2>1. \A i \in DOMAIN longer : i = Len(kept) + 1 \/ i \in 1 .. Len(kept) BY <1>5
  <2>2. ASSUME NEW i \in DOMAIN longer PROVE longer[i] <= now
    <3>1. CASE i = Len(kept) + 1 BY <1>1, <1>5, <3>1
    <3>2. CASE i \in 1 .. Len(kept)
      <4>1. longer[i] < now /\ longer[i] \in Nat BY <1>6, <3>2
      <4> QED BY <1>1, <4>1
    <3> QED BY <2>1, <3>1, <3>2
  <2>3. ASSUME NEW i \in DOMAIN longer, NEW j \in DOMAIN longer, i < j
        PROVE  longer[i] < longer[j]
    <3>1. i \in 1 .. Len(kept) BY <1>5, <2>1, <2>3
    <3>2. CASE j = Len(kept) + 1 BY <1>5, <1>6, <3>1, <3>2
    <3>3. CASE j \in 1 .. Len(kept) BY <1>7, <2>3, <3>1, <3>3
    <3> QED BY <2>1, <3>2, <3>3
  <2> QED BY <2>2, <2>3
<1>9. f \in [Refs -> Seq(Nat)] /\ g \in [Refs -> Seq(Nat)] BY <1>1, <1>5 DEF RouteType
<1>10. WithHits(cooled, r, hits, longer) = new
  BY <1>1 DEF RouteType, WithHits
<1>11. g[r] = longer /\ \A q \in Refs : q # r => g[q] = cooled.exhaust[q]
  BY <1>1 DEF RouteType
<1> HIDE DEF f, g
<1>12. mid \in RouteType /\ new \in RouteType
  <2>1. mid \in RouteType BY <1>1, <1>9, FieldTypes
  <2> QED BY <1>9, <2>1, FieldTypes
<1>13. /\ new.active = cooled.active /\ new.cool = cooled.cool /\ new.exhaust = g
       /\ new.starts = cooled.starts /\ new.shared = cooled.shared
  BY <1>1 DEF RouteType
<1> HIDE DEF new
<1>14. Windows(new, now) BY <1>13, WindowsKept DEF Sound
<1>15. Episodes(new, now)
  <2>1. ASSUME NEW q \in Refs
        PROVE  /\ \A i \in DOMAIN g[q] : g[q][i] <= now /\ (g[q][i] = now => cooled.cool[q] > now)
               /\ \A i, j \in DOMAIN g[q] : i < j => g[q][i] < g[q][j]
    <3>1. CASE q = r BY <1>8, <1>11, <3>1
    <3>2. CASE q # r BY <1>11, <3>2 DEF Sound, Episodes
    <3> QED BY <3>1, <3>2
  <2> QED BY <1>13, <2>1 DEF Episodes
<1>16. Sound(new, now) BY <1>12, <1>14, <1>15 DEF Sound
<1> QED BY <1>10, <1>13, <1>16 DEF longer, kept

\* The 429 branch: it keeps the object sound and a running cooldown at least as long.
LEMMA RateLimitedSound ==
    ASSUME NEW rt, Sound(rt, now), NEW r \in Refs, NEW floor \in Nat
    PROVE  /\ Sound(RateLimited(rt, r, floor), now)
           /\ RateLimited(rt, r, floor).active = rt.active
           /\ \A q \in Refs : q # r => RateLimited(rt, r, floor).cool[q] = rt.cool[q]
           /\ RateLimited(rt, r, floor).cool[r] > now
           /\ Cooling(rt, r) => RateLimited(rt, r, floor).cool[r] >= Smaller(rt.cool[r], now + Ceiling)
<1> DEFINE hits == Append(Since(rt.hits[r], HitWindow), now)
           exhausted == Append(Since(rt.exhaust[r], ExhaustWindow), now)
           rung == Ladder[Smaller(Len(exhausted), Len(Ladder))]
<1>1. /\ rt \in RouteType /\ now \in Nat /\ rt.cool[r] \in Nat
      /\ rt.hits[r] \in Seq(Nat) /\ rt.exhaust[r] \in Seq(Nat)
  BY DEF Sound, RouteType
<1>2. /\ Since(rt.hits[r], HitWindow) \in Seq(Nat) /\ Since(rt.exhaust[r], ExhaustWindow) \in Seq(Nat)
  BY <1>1, ConstantTypes, TrimmedType DEF Since
<1>3. hits \in Seq(Nat) /\ Len(exhausted) \in Nat \ {0}
  BY <1>1, <1>2, AppendProperties, LenProperties
<1>4. rung \in Nat \ {0}
  <2>1. Ladder \in Seq(Nat \ {0}) /\ Ladder # <<>> BY RoutingConstants
  <2>2. Len(Ladder) \in Nat /\ Len(Ladder) # 0 BY <2>1, EmptySeq, LenProperties
  <2> HIDE DEF exhausted
  <2>3. Smaller(Len(exhausted), Len(Ladder)) \in 1 .. Len(Ladder) BY <1>3, <2>2 DEF Smaller
  <2> QED BY <2>1, <2>3, ElementOfSeq
<1>5. \A seconds \in Nat \ {0} :
         /\ Sound(CoolFor(rt, r, seconds), now)
         /\ CoolFor(rt, r, seconds).active = rt.active
         /\ CoolFor(rt, r, seconds).cool[r] = now + Smaller(seconds, Ceiling)
         /\ now + Smaller(seconds, Ceiling) > now
         /\ now + Smaller(seconds, Ceiling) <= now + Ceiling
         /\ \A q \in Refs : q # r => CoolFor(rt, r, seconds).cool[q] = rt.cool[q]
         /\ CoolFor(rt, r, seconds).exhaust = rt.exhaust
         /\ CoolFor(rt, r, seconds).hits = rt.hits
  <2> HIDE DEF hits, exhausted, rung
  <2> SUFFICES ASSUME NEW seconds \in Nat \ {0}
               PROVE  /\ Sound(CoolFor(rt, r, seconds), now)
                      /\ CoolFor(rt, r, seconds).active = rt.active
                      /\ CoolFor(rt, r, seconds).cool[r] = now + Smaller(seconds, Ceiling)
                      /\ now + Smaller(seconds, Ceiling) > now
                      /\ now + Smaller(seconds, Ceiling) <= now + Ceiling
                      /\ \A q \in Refs : q # r => CoolFor(rt, r, seconds).cool[q] = rt.cool[q]
                      /\ CoolFor(rt, r, seconds).exhaust = rt.exhaust
                      /\ CoolFor(rt, r, seconds).hits = rt.hits
    OBVIOUS
  <2>1. Smaller(seconds, Ceiling) \in Nat \ {0} /\ Smaller(seconds, Ceiling) <= Ceiling
    BY ConstantTypes DEF Smaller
  <2>2. /\ now + Smaller(seconds, Ceiling) > now
        /\ now + Smaller(seconds, Ceiling) <= now + Ceiling
    BY <1>1, <2>1, ConstantTypes
  <2> QED BY <2>2, CoolForSound
<1>6. CASE Cooling(rt, r)
  <2> DEFINE seconds == Larger(rt.cool[r] - now, floor)
  <2>1. rt.cool[r] > now /\ seconds \in Nat \ {0} /\ seconds >= rt.cool[r] - now
    BY <1>1, <1>6 DEF Cooling, Larger
  <2>2. RateLimited(rt, r, floor) = CoolFor(rt, r, seconds) BY <1>6 DEF RateLimited
  <2> HIDE DEF seconds
  <2>3. now + Smaller(seconds, Ceiling) >= Smaller(rt.cool[r], now + Ceiling)
    BY <1>1, <2>1, ConstantTypes DEF Smaller
  <2> QED BY <1>5, <2>1, <2>2, <2>3
<1>7. CASE ~ Cooling(rt, r) /\ Len(hits) >= 2
  <2> DEFINE seconds == Larger(rung, floor)
             cooled == CoolFor(rt, r, seconds)
             new == WithHits(cooled, r, hits, exhausted)
  <2>1. seconds \in Nat \ {0}
    <3> HIDE DEF rung
    <3> QED BY <1>4 DEF Larger
  <2>2. RateLimited(rt, r, floor) = new BY <1>7 DEF RateLimited, WithHits
  <2>3. ~ (rt.cool[r] > now) BY <1>7 DEF Cooling
  <2> HIDE DEF seconds, hits
  <2>4. /\ Sound(cooled, now) /\ cooled.active = rt.active /\ cooled.exhaust = rt.exhaust
        /\ cooled.cool[r] > now
        /\ \A q \in Refs : q # r => cooled.cool[q] = rt.cool[q]
    BY <1>5, <2>1
  <2> HIDE DEF cooled
  <2>5. Sound(new, now) /\ new.active = cooled.active /\ new.cool = cooled.cool
    BY <1>3, <1>7, <2>4, ExhaustionSound
  <2> HIDE DEF new
  <2> QED BY <1>7, <2>2, <2>3, <2>4, <2>5
<1>8. CASE ~ Cooling(rt, r) /\ ~ (Len(hits) >= 2)
  <2> DEFINE seconds == Larger(Transient, floor)
             cooled == CoolFor(rt, r, seconds)
             f == [cooled.hits EXCEPT ![r] = hits]
             new == [cooled EXCEPT !.hits = f]
  <2>1. seconds \in Nat \ {0} BY ConstantTypes DEF Larger
  <2>2. RateLimited(rt, r, floor) = new BY <1>8 DEF RateLimited
  <2>3. ~ (rt.cool[r] > now) BY <1>8 DEF Cooling
  <2> HIDE DEF seconds, hits
  <2>4. /\ Sound(cooled, now) /\ cooled.active = rt.active /\ cooled.exhaust = rt.exhaust
        /\ cooled.cool[r] > now
        /\ \A q \in Refs : q # r => cooled.cool[q] = rt.cool[q]
    BY <1>5, <2>1
  <2> HIDE DEF cooled
  <2>5. cooled \in RouteType BY <2>4 DEF Sound
  <2>6. f \in [Refs -> Seq(Nat)] BY <1>3, <2>5 DEF RouteType
  <2> HIDE DEF f
  <2>7. new \in RouteType BY <2>5, <2>6, FieldTypes
  <2>8. /\ new.active = cooled.active /\ new.cool = cooled.cool /\ new.exhaust = cooled.exhaust
        /\ new.starts = cooled.starts /\ new.shared = cooled.shared
    BY <2>5 DEF RouteType
  <2> HIDE DEF new
  <2>9. Sound(new, now) BY <2>4, <2>7, <2>8, SoundStep
  <2> QED BY <1>8, <2>2, <2>3, <2>4, <2>8, <2>9
<1> QED BY <1>6, <1>7, <1>8

\* What a failure does to a cooldown: of another key and model nothing, of its own
\* nothing or one that lies ahead, and a 429 cuts none short.
CoolsWell(rt, new, r, kind) ==
    /\ \A q \in Refs : q # r => new.cool[q] = rt.cool[q]
    /\ new.cool[r] = rt.cool[r] \/ new.cool[r] > now
    /\ kind = "rate_limit" /\ Cooling(rt, r) => new.cool[r] >= Smaller(rt.cool[r], now + Ceiling)

\* record_failure, for every kind of failure.
LEMMA FailureSound ==
    ASSUME NEW rt, Sound(rt, now), NEW r \in Refs, NEW kind, NEW floor \in Nat
    PROVE  /\ Sound(RecordFailure(rt, r, kind, floor), now)
           /\ RecordFailure(rt, r, kind, floor).active = rt.active
           /\ CoolsWell(rt, RecordFailure(rt, r, kind, floor), r, kind)
<1>1. rt \in RouteType /\ now \in Nat /\ now <= MaxTime /\ rt.cool \in [Refs -> Nat] BY DEF Sound, RouteType
<1>0. ASSUME NEW seconds \in Nat \ {0}
      PROVE  /\ Sound(CoolFor(rt, r, seconds), now) /\ CoolFor(rt, r, seconds).active = rt.active
             /\ CoolFor(rt, r, seconds).cool[r] > now
             /\ \A q \in Refs : q # r => CoolFor(rt, r, seconds).cool[q] = rt.cool[q]
  <2>1. now + Smaller(seconds, Ceiling) > now BY <1>1, ConstantTypes DEF Smaller
  <2> QED BY <2>1, CoolForSound
<1>2. CASE kind = "daily"
  <2> DEFINE cooled == CoolFor(rt, r, UntilMidnight(floor))
             b == cooled.midnight[r] \/ floor = 0
             new == [cooled EXCEPT !.midnight[r] = b]
  <2>1. UntilMidnight(floor) \in Nat \ {0} BY <1>1, ConstantTypes DEF UntilMidnight
  <2>2. RecordFailure(rt, r, kind, floor) = new
    BY <1>2 DEF RecordFailure
  <2>3. /\ Sound(cooled, now) /\ cooled.active = rt.active /\ cooled.cool[r] > now
        /\ \A q \in Refs : q # r => cooled.cool[q] = rt.cool[q]
    BY <1>0, <2>1
  <2>4. b \in BOOLEAN OBVIOUS
  <2> HIDE DEF cooled, b
  <2>5. new.cool = cooled.cool BY <2>3 DEF Sound, RouteType
  <2>6. Sound(new, now) /\ new.active = rt.active BY <2>3, <2>4, MidnightSound
  <2> HIDE DEF new
  <2> QED BY <1>2, <2>2, <2>3, <2>5, <2>6 DEF CoolsWell
<1>3. CASE kind = "overload"
  <2>1. Larger(Overload, floor) \in Nat \ {0} BY ConstantTypes DEF Larger
  <2>2. RecordFailure(rt, r, kind, floor) = CoolFor(rt, r, Larger(Overload, floor))
    BY <1>3 DEF RecordFailure
  <2> QED BY <1>0, <1>3, <2>1, <2>2 DEF CoolsWell
<1>4. CASE kind = "rate_limit"
  <2>1. RecordFailure(rt, r, kind, floor) = RateLimited(rt, r, floor) BY <1>4 DEF RecordFailure
  <2> QED BY <2>1, RateLimitedSound DEF CoolsWell
<1>8. ASSUME NEW until \in Nat, until > now, RecordFailure(rt, r, kind, floor) = [rt EXCEPT !.cool[r] = until],
             kind # "rate_limit"
      PROVE  /\ Sound(RecordFailure(rt, r, kind, floor), now)
             /\ RecordFailure(rt, r, kind, floor).active = rt.active
             /\ CoolsWell(rt, RecordFailure(rt, r, kind, floor), r, kind)
  <2> DEFINE new == [rt EXCEPT !.cool[r] = until]
  <2>1. Sound(new, now) /\ new.active = rt.active /\ new.cool = [rt.cool EXCEPT ![r] = until]
    BY <1>8, CoolSound
  <2>2. new.cool[r] = until /\ \A q \in Refs : q # r => new.cool[q] = rt.cool[q]
    BY <1>1, <2>1
  <2> HIDE DEF new
  <2>3. CoolsWell(rt, new, r, kind) BY <1>8, <2>2 DEF CoolsWell
  <2> QED BY <1>8, <2>1, <2>3 DEF new
<1>5. CASE kind = "transient"
  <2> DEFINE until == now + (IF floor > 0 THEN floor ELSE Default)
  <2>1. until \in Nat /\ until > now BY <1>1, ConstantTypes
  <2>2. RecordFailure(rt, r, kind, floor) = [rt EXCEPT !.cool[r] = until]
    BY <1>5 DEF RecordFailure
  <2> HIDE DEF until
  <2> QED BY <1>5, <1>8, <2>1, <2>2
<1>6. CASE kind = "denied"
  <2> DEFINE until == now + Default
  <2>1. until \in Nat /\ until > now BY <1>1, ConstantTypes
  <2>2. RecordFailure(rt, r, kind, floor) = [rt EXCEPT !.cool[r] = until]
    BY <1>6 DEF RecordFailure
  <2> HIDE DEF until
  <2> QED BY <1>6, <1>8, <2>1, <2>2
<1>7. CASE kind \notin {"daily", "overload", "rate_limit", "transient", "denied"}
  <2>1. RecordFailure(rt, r, kind, floor) = rt BY <1>7 DEF RecordFailure
  <2> QED BY <1>7, <2>1 DEF CoolsWell
<1> QED BY <1>2, <1>3, <1>4, <1>5, <1>6, <1>7

---------------------------------------------------------------------------
(* Time and pauses.                                                        *)

\* As a window is in order, what is out of it at the next tick is its head.
LEMMA OutdatedHead ==
    ASSUME NEW s \in Seq(Nat), NEW t \in Nat, Recent(s, t)
    PROVE  Outdated(s, t + 1, Minute) = 1 .. Cardinality(Outdated(s, t + 1, Minute))
<1> DEFINE old == Outdated(s, t + 1, Minute)
           n == Cardinality(old)
<1>1. /\ Len(s) \in Nat /\ DOMAIN s = 1 .. Len(s) /\ \A i \in 1 .. Len(s) : s[i] \in Nat
      /\ Minute \in Nat
  BY LenProperties, ElementOfSeq, ConstantTypes
<1>2. old \subseteq 1 .. Len(s) BY <1>1 DEF Outdated
<1>3. \A i \in old : \A j \in 1 .. i : j \in old
  <2>1. ASSUME NEW i \in old, NEW j \in 1 .. i PROVE j \in old
    <3>1. i \in 1 .. Len(s) /\ j \in 1 .. Len(s) /\ j <= i BY <1>1, <1>2
    <3>2. s[j] <= s[i] BY <1>1, <3>1 DEF Recent
    <3>3. s[i] + Minute < t + 1 BY DEF Outdated
    <3>4. s[j] + Minute < t + 1 BY <1>1, <3>1, <3>2, <3>3
    <3> QED BY <1>1, <3>1, <3>4 DEF Outdated
  <2> QED BY <2>1
<1> HIDE DEF old
<1>4. IsFiniteSet(1 .. Len(s))
  <2>1. 1 \in Int /\ Len(s) \in Int BY <1>1
  <2> QED BY <2>1, FS_Interval
<1>5. IsFiniteSet(old) /\ n \in Nat BY <1>2, <1>4, FS_Subset, FS_CardinalityType
<1>6. ASSUME NEW i \in old PROVE i \in 1 .. n
  <2>1. i \in Nat \ {0} /\ 1 .. i \subseteq old BY <1>1, <1>2, <1>3
  <2>2. Cardinality(1 .. i) = i
    <3>1. 1 \in Int /\ i \in Int /\ ~ (1 > i) /\ i - 1 + 1 = i BY <2>1
    <3> QED BY <3>1, FS_Interval
  <2>3. i <= n BY <1>5, <2>1, <2>2, FS_Subset
  <2> QED BY <1>5, <2>1, <2>3
<1>7. IsFiniteSet(1 .. n) /\ Cardinality(1 .. n) = n
  <2>1. 1 \in Int /\ n \in Int /\ (1 > n => n = 0) /\ n - 1 + 1 = n BY <1>5
  <2> HIDE DEF n
  <2> QED BY <2>1, FS_Interval
<1>8. old \subseteq 1 .. n BY <1>6
<1>9. old = 1 .. n BY <1>7, <1>8, FS_Subset
<1> QED BY <1>9 DEF old

\* A window one tick later: it has lost its first n entries, the outdated ones.
Tailed(s, u, t, n) ==
    /\ n \in 0 .. Len(s)
    /\ u \in Seq(Nat) /\ Len(u) = Len(s) - n
    /\ \A i \in 1 .. Len(s) - n : u[i] = s[i + n]
    /\ \A i \in 1 .. Len(s) : (s[i] + Minute < t + 1) <=> i <= n

\* Trimming at the next tick cuts exactly the outdated head.
LEMMA TrimmedTail ==
    ASSUME NEW s \in Seq(Nat), NEW t \in Nat, Recent(s, t)
    PROVE  Tailed(s, Trimmed(s, t + 1, Minute), t, Cardinality(Outdated(s, t + 1, Minute)))
<1> DEFINE n == Cardinality(Outdated(s, t + 1, Minute))
           u == Trimmed(s, t + 1, Minute)
<1>1. t + 1 \in Nat /\ Minute \in Nat BY ConstantTypes
<1>2. /\ n \in 0 .. Len(s)
      /\ u \in Seq(Nat) /\ Len(u) = Len(s) - n
      /\ \A i \in 1 .. Len(s) - n : u[i] = s[i + n]
  BY <1>1, TrimmedSuffix
<1>3. Outdated(s, t + 1, Minute) = 1 .. n BY OutdatedHead
<1>4. Len(s) \in Nat /\ DOMAIN s = 1 .. Len(s) BY LenProperties
<1> HIDE DEF n
<1>5. \A i \in 1 .. Len(s) : (s[i] + Minute < t + 1) <=> i <= n
  <2>1. ASSUME NEW i \in 1 .. Len(s) PROVE (s[i] + Minute < t + 1) <=> i <= n
    <3>1. (s[i] + Minute < t + 1) <=> i \in 1 .. n BY <1>3, <1>4 DEF Outdated
    <3>2. i \in 1 .. n <=> i <= n BY <1>2, <1>4
    <3> QED BY <3>1, <3>2
  <2> QED BY <2>1
<1> QED BY <1>2, <1>5 DEF Tailed, n

\* What is left is a window of the next tick.
LEMMA TailedRecent ==
    ASSUME NEW s \in Seq(Nat), NEW t \in Nat, Recent(s, t), NEW u, NEW n, Tailed(s, u, t, n)
    PROVE  Recent(u, t + 1)
<1>1. /\ Len(s) \in Nat /\ DOMAIN s = 1 .. Len(s) /\ \A i \in 1 .. Len(s) : s[i] \in Nat
      /\ u \in Seq(Nat) /\ n \in 0 .. Len(s) /\ DOMAIN u = 1 .. Len(s) - n
      /\ Minute \in Nat
  BY LenProperties, ElementOfSeq, ConstantTypes DEF Tailed
<1>2. ASSUME NEW i \in DOMAIN u
      PROVE  i + n \in 1 .. Len(s) /\ ~ (i + n <= n) /\ u[i] = s[i + n]
  <2>1. i \in 1 .. Len(s) - n BY <1>1
  <2>2. i + n \in 1 .. Len(s) /\ ~ (i + n <= n) BY SMTT(30), <1>1, <2>1
  <2> QED BY <2>1, <2>2 DEF Tailed
<1>3. ASSUME NEW i \in DOMAIN u PROVE u[i] <= t + 1 /\ t + 1 <= u[i] + Minute
  <2>1. i + n \in 1 .. Len(s) /\ ~ (i + n <= n) /\ u[i] = s[i + n] BY <1>1, <1>2
  <2>2. s[i + n] <= t /\ s[i + n] \in Nat BY <1>1, <2>1 DEF Recent
  <2>3. ~ (s[i + n] + Minute < t + 1) BY <2>1 DEF Tailed
  <2>4. Minute \in Nat BY <1>1
  <2> QED BY <2>1, <2>2, <2>3, <2>4
<1>4. ASSUME NEW i \in DOMAIN u, NEW j \in DOMAIN u, i <= j PROVE u[i] <= u[j]
  <2>1. i + n <= j + n BY <1>1, <1>4
  <2> QED BY <1>1, <1>2, <2>1 DEF Recent
<1> QED BY <1>3, <1>4 DEF Recent

\* Positions after a head of b entries, seen without it ...
LEMMA ShiftDown ==
    ASSUME NEW a \in Nat, NEW b \in 0 .. a, NEW x \in b + 1 .. a
    PROVE  x \in Nat /\ x - b \in 1 .. a - b /\ (x - b) + b = x
OBVIOUS

\* ... and positions without the head, seen with it.
LEMMA ShiftUp ==
    ASSUME NEW a \in Nat, NEW b \in 0 .. a, NEW x \in 1 .. a - b
    PROVE  x \in Nat /\ x + b \in 1 .. a /\ x + b > b
OBVIOUS

\* At a tick every window loses its outdated entries.
LEMMA WindowsTrimmed ==
    ASSUME NEW rt, NEW w, NEW t \in Nat, Windows(rt, t),
           rt.starts \in [Refs -> Seq(Nat)], rt.shared \in [Keys -> Seq(Nat)],
           w.starts = [r \in Refs |-> Trimmed(rt.starts[r], t + 1, Minute)],
           w.shared = [k \in Keys |-> Trimmed(rt.shared[k], t + 1, Minute)]
    PROVE  Windows(w, t + 1)
<1> DEFINE gone(r) == Cardinality(Outdated(rt.starts[r], t + 1, Minute))
           lost(k) == Cardinality(Outdated(rt.shared[k], t + 1, Minute))
<1>1. ASSUME NEW r \in Refs
      PROVE  /\ rt.starts[r] \in Seq(Nat) /\ Recent(rt.starts[r], t)
             /\ Tailed(rt.starts[r], w.starts[r], t, gone(r)) /\ Recent(w.starts[r], t + 1)
  <2>1. rt.starts[r] \in Seq(Nat) /\ Recent(rt.starts[r], t) BY DEF Windows
  <2>2. Tailed(rt.starts[r], w.starts[r], t, gone(r)) BY <2>1, TrimmedTail
  <2> HIDE DEF gone
  <2>3. Recent(w.starts[r], t + 1) BY <2>1, <2>2, TailedRecent
  <2> QED BY <2>1, <2>2, <2>3
<1>2. ASSUME NEW k \in Keys
      PROVE  /\ rt.shared[k] \in Seq(Nat) /\ Recent(rt.shared[k], t)
             /\ Tailed(rt.shared[k], w.shared[k], t, lost(k)) /\ Recent(w.shared[k], t + 1)
             /\ Len(w.shared[k]) <= KeyRpm
  <2>1. rt.shared[k] \in Seq(Nat) /\ Recent(rt.shared[k], t) /\ Len(rt.shared[k]) <= KeyRpm
    BY DEF Windows
  <2>2. Tailed(rt.shared[k], w.shared[k], t, lost(k)) BY <2>1, TrimmedTail
  <2> HIDE DEF lost
  <2>3. Recent(w.shared[k], t + 1) BY <2>1, <2>2, TailedRecent
  <2>4. Len(w.shared[k]) <= KeyRpm
    <3>1. Len(rt.shared[k]) \in Nat /\ KeyRpm \in Nat BY <2>1, LenProperties, ConstantTypes
    <3> QED BY <2>1, <2>2, <3>1 DEF Tailed
  <2> QED BY <2>1, <2>2, <2>3, <2>4
<1> HIDE DEF gone, lost
<1>3. ASSUME NEW k \in Keys PROVE \E place : Placed(w, k, place)
  <2>1. PICK place : Placed(rt, k, place) BY DEF Windows
  <2> DEFINE before(p) == <<p[1], p[2] + gone(<<p[1], k>>)>>
             place2 == [p \in StartsThrough(w, k) |-> place[before(p)] - lost(k)]
  <2>2. /\ rt.shared[k] \in Seq(Nat) /\ Len(rt.shared[k]) \in Nat /\ lost(k) \in 0 .. Len(rt.shared[k])
        /\ DOMAIN rt.shared[k] = 1 .. Len(rt.shared[k])
        /\ DOMAIN w.shared[k] = 1 .. Len(rt.shared[k]) - lost(k)
    BY <1>2, LenProperties DEF Tailed
  <2>3. ASSUME NEW p \in StartsThrough(w, k)
        PROVE  /\ p = <<p[1], p[2]>> /\ p[1] \in Models /\ p[2] \in Nat
               /\ gone(<<p[1], k>>) \in Nat
               /\ before(p) \in StartsThrough(rt, k)
               /\ w.starts[<<p[1], k>>][p[2]] = rt.starts[<<p[1], k>>][before(p)[2]]
               /\ place[before(p)] \in lost(k) + 1 .. Len(rt.shared[k])
    <3> DEFINE r == <<p[1], k>>
               s == rt.starts[r]
    <3>1. p = <<p[1], p[2]>> /\ p[1] \in Models /\ p[2] \in DOMAIN w.starts[r]
      BY StartsMember
    <3>2. r \in Refs BY <3>1 DEF Refs
    <3>3. s \in Seq(Nat) /\ Tailed(s, w.starts[r], t, gone(r)) BY <1>1, <3>2
    <3> HIDE DEF r
    <3>4. /\ Len(s) \in Nat /\ DOMAIN s = 1 .. Len(s) /\ gone(r) \in 0 .. Len(s)
          /\ DOMAIN w.starts[r] = 1 .. Len(s) - gone(r)
          /\ \A i \in 1 .. Len(s) : s[i] \in Nat
      BY <3>3, LenProperties, ElementOfSeq DEF Tailed
    <3>5. p[2] \in Nat /\ p[2] + gone(r) \in 1 .. Len(s) /\ p[2] + gone(r) > gone(r)
      <4>1. p[2] \in 1 .. Len(s) - gone(r) BY <3>1, <3>4
      <4> QED BY <3>4, <4>1, ShiftUp
    <3>6. w.starts[r][p[2]] = s[p[2] + gone(r)] /\ ~ (s[p[2] + gone(r)] + Minute < t + 1)
      <4>1. p[2] \in 1 .. Len(s) - gone(r) BY <3>1, <3>4
      <4>2. ~ (p[2] + gone(r) <= gone(r)) BY <3>4, <3>5
      <4> QED BY <3>3, <3>5, <4>1, <4>2 DEF Tailed
    <3>7. before(p)[1] = p[1] /\ before(p)[2] = p[2] + gone(r) /\ before(p) = <<before(p)[1], before(p)[2]>>
      BY DEF r
    <3> HIDE DEF before
    <3>8. before(p) \in StartsThrough(rt, k)
      <4>1. before(p)[1] \in Models /\ before(p)[2] \in DOMAIN rt.starts[<<before(p)[1], k>>]
        BY <3>1, <3>4, <3>5, <3>7 DEF r
      <4> QED BY <3>7, <4>1, StartsMember
    <3>9. /\ place[before(p)] \in 1 .. Len(rt.shared[k])
          /\ s[p[2] + gone(r)] = rt.shared[k][place[before(p)]]
      BY <2>1, <2>2, <3>7, <3>8 DEF Placed, r
    <3>10. ~ (place[before(p)] <= lost(k))
      BY <1>2, <3>6, <3>9 DEF Tailed
    <3> QED BY SMTT(30), <2>2, <3>1, <3>4, <3>5, <3>6, <3>7, <3>8, <3>9, <3>10 DEF r
  <2> HIDE DEF before
  <2>4. place2 \in [StartsThrough(w, k) -> DOMAIN w.shared[k]]
    <3>1. ASSUME NEW p \in StartsThrough(w, k)
          PROVE  place[before(p)] - lost(k) \in 1 .. Len(rt.shared[k]) - lost(k)
      <4>1. place[before(p)] \in lost(k) + 1 .. Len(rt.shared[k]) BY <2>3
      <4> QED BY SMTT(30), <2>2, <4>1
    <3> QED BY <2>2, <3>1
  <2>5. \A p \in StartsThrough(w, k) : place2[p] = place[before(p)] - lost(k)
    OBVIOUS
  <2> HIDE DEF place2
  <2>6. ASSUME NEW p \in StartsThrough(w, k), NEW q \in StartsThrough(w, k), place2[p] = place2[q]
        PROVE  p = q
    <3>0. /\ place[before(p)] \in Nat /\ place[before(q)] \in Nat
          /\ before(p) \in StartsThrough(rt, k) /\ before(q) \in StartsThrough(rt, k)
          /\ p = <<p[1], p[2]>> /\ q = <<q[1], q[2]>> /\ p[2] \in Nat /\ q[2] \in Nat
          /\ gone(<<p[1], k>>) \in Nat /\ lost(k) \in Nat
      <4>1. /\ place[before(p)] \in lost(k) + 1 .. Len(rt.shared[k])
            /\ place[before(q)] \in lost(k) + 1 .. Len(rt.shared[k])
        BY <2>3
      <4>2. place[before(p)] \in Nat /\ place[before(q)] \in Nat BY <2>2, <4>1, ShiftDown
      <4>3. lost(k) \in Nat BY <2>2
      <4> QED BY <2>3, <4>2, <4>3
    <3>1. place[before(p)] = place[before(q)]
      <4>1. place[before(p)] - lost(k) = place[before(q)] - lost(k) BY <2>5, <2>6
      <4> QED BY <3>0, <4>1
    <3>2. before(p) = before(q) BY <2>1, <3>0, <3>1 DEF Placed
    <3>3. p[1] = q[1] /\ p[2] + gone(<<p[1], k>>) = q[2] + gone(<<q[1], k>>) BY <3>2 DEF before
    <3>4. p[2] = q[2] BY <3>0, <3>3
    <3> QED BY <3>0, <3>3, <3>4
  <2>7. ASSUME NEW p \in StartsThrough(w, k)
        PROVE  w.starts[<<p[1], k>>][p[2]] = w.shared[k][place2[p]]
    <3>1. before(p)[1] = p[1] BY DEF before
    <3>2. w.starts[<<p[1], k>>][p[2]] = rt.shared[k][place[before(p)]]
      <4>1. /\ before(p) \in StartsThrough(rt, k)
            /\ w.starts[<<p[1], k>>][p[2]] = rt.starts[<<p[1], k>>][before(p)[2]]
        BY <2>3
      <4>2. rt.starts[<<before(p)[1], k>>][before(p)[2]] = rt.shared[k][place[before(p)]]
        BY <2>1, <4>1 DEF Placed
      <4> QED BY <3>1, <4>1, <4>2
    <3>3. /\ place2[p] \in 1 .. Len(rt.shared[k]) - lost(k)
          /\ place2[p] + lost(k) = place[before(p)]
      <4>1. place[before(p)] \in lost(k) + 1 .. Len(rt.shared[k]) BY <2>3
      <4>2. place2[p] = place[before(p)] - lost(k) BY <2>5
      <4>3. /\ Len(rt.shared[k]) \in Nat /\ lost(k) \in 0 .. Len(rt.shared[k])
            /\ place[before(p)] \in lost(k) + 1 .. Len(rt.shared[k])
        BY <2>2, <4>1
      <4>4. /\ place[before(p)] - lost(k) \in 1 .. Len(rt.shared[k]) - lost(k)
            /\ (place[before(p)] - lost(k)) + lost(k) = place[before(p)]
        BY ZenonT(60), <4>3, ShiftDown
      <4> QED BY <4>2, <4>4
    <3> QED BY <1>2, <3>2, <3>3 DEF Tailed
  <2> QED BY <2>4, <2>6, <2>7 DEF Placed
<1> QED BY <1>1, <1>2, <1>3 DEF Windows

\* A tick drops what has expired and what is out of its window.
LEMMA ExpireSound ==
    ASSUME NEW rt, NEW t \in Nat, Sound(rt, t), t < MaxTime
    PROVE  Sound(Expire(rt, t + 1), t + 1) /\ Expire(rt, t + 1).active = rt.active
<1> DEFINE still(until) == IF until > t + 1 THEN until ELSE 0
           cool == [r \in Refs |-> still(rt.cool[r])]
           zero == [r \in Refs |-> still(rt.zero[r])]
           paused == [s \in Scopes |-> still(rt.paused[s])]
           hits == [r \in Refs |-> Trimmed(rt.hits[r], t + 1, HitWindow)]
           exhaust == [r \in Refs |-> Trimmed(rt.exhaust[r], t + 1, ExhaustWindow)]
           starts == [r \in Refs |-> Trimmed(rt.starts[r], t + 1, Minute)]
           shared == [k \in Keys |-> Trimmed(rt.shared[k], t + 1, Minute)]
           a == [[[rt EXCEPT !.cool = cool] EXCEPT !.zero = zero] EXCEPT !.paused = paused]
           b == [[a EXCEPT !.hits = hits] EXCEPT !.exhaust = exhaust]
           new == [[b EXCEPT !.starts = starts] EXCEPT !.shared = shared]
<1>1. /\ rt \in RouteType /\ t + 1 \in Nat /\ t + 1 <= MaxTime
      /\ rt.cool \in [Refs -> Nat] /\ rt.zero \in [Refs -> Nat] /\ rt.paused \in [Scopes -> Nat]
      /\ rt.hits \in [Refs -> Seq(Nat)] /\ rt.exhaust \in [Refs -> Seq(Nat)]
      /\ rt.starts \in [Refs -> Seq(Nat)] /\ rt.shared \in [Keys -> Seq(Nat)]
  BY ConstantTypes DEF Sound, RouteType
<1>2. cool \in [Refs -> Nat] /\ zero \in [Refs -> Nat] /\ paused \in [Scopes -> Nat]
  BY <1>1
<1>3. /\ hits \in [Refs -> Seq(Nat)] /\ exhaust \in [Refs -> Seq(Nat)]
      /\ starts \in [Refs -> Seq(Nat)] /\ shared \in [Keys -> Seq(Nat)]
  <2>1. ASSUME NEW s \in Seq(Nat)
        PROVE  /\ Trimmed(s, t + 1, HitWindow) \in Seq(Nat)
               /\ Trimmed(s, t + 1, ExhaustWindow) \in Seq(Nat)
               /\ Trimmed(s, t + 1, Minute) \in Seq(Nat)
    BY <1>1, ConstantTypes, TrimmedType
  <2> QED BY <1>1, <2>1
<1>4. Expire(rt, t + 1) = new
  BY <1>1 DEF Expire, RouteType
<1>5. Episodes([cool |-> cool, exhaust |-> exhaust], t + 1)
  <2>1. ASSUME NEW r \in Refs
        PROVE  /\ \A i \in DOMAIN exhaust[r] : exhaust[r][i] <= t + 1 /\ exhaust[r][i] # t + 1
               /\ \A i, j \in DOMAIN exhaust[r] : i < j => exhaust[r][i] < exhaust[r][j]
    <3> DEFINE s == rt.exhaust[r]
               u == Trimmed(s, t + 1, ExhaustWindow)
    <3>1. s \in Seq(Nat) /\ exhaust[r] = u BY <1>1
    <3>2. PICK n : /\ n \in 0 .. Len(s) /\ u \in Seq(Nat) /\ Len(u) = Len(s) - n
                   /\ \A i \in 1 .. Len(s) - n : u[i] = s[i + n]
      <4> DEFINE c == Cardinality(Outdated(s, t + 1, ExhaustWindow))
      <4>1. /\ c \in 0 .. Len(s) /\ u \in Seq(Nat) /\ Len(u) = Len(s) - c
            /\ \A i \in 1 .. Len(s) - c : u[i] = s[i + c]
        BY ZenonT(60), <1>1, <3>1, ConstantTypes, TrimmedSuffix
      <4> HIDE DEF c, u
      <4> QED BY <4>1
    <3>3. /\ Len(s) \in Nat /\ DOMAIN s = 1 .. Len(s) /\ \A i \in 1 .. Len(s) : s[i] \in Nat
      BY <3>1, LenProperties, ElementOfSeq
    <3>4. /\ \A i \in DOMAIN s : s[i] <= t
          /\ \A i, j \in DOMAIN s : i < j => s[i] < s[j]
      BY DEF Sound, Episodes
    <3> HIDE DEF s, u
    <3>5. DOMAIN u = 1 .. Len(s) - n BY <3>2, LenProperties
    <3>6. ASSUME NEW i \in DOMAIN u
          PROVE  i + n \in 1 .. Len(s) /\ u[i] = s[i + n] /\ s[i + n] \in Nat /\ s[i + n] <= t /\ i \in Nat
      <4>1. i \in 1 .. Len(s) - n BY <3>5
      <4>2. i + n \in 1 .. Len(s) BY <3>2, <3>3, <4>1, ShiftUp
      <4> QED BY SMTT(30), <3>2, <3>3, <3>4, <4>1, <4>2
    <3>7. ASSUME NEW i \in DOMAIN u, NEW j \in DOMAIN u, i < j PROVE u[i] < u[j]
      <4>1. i + n < j + n BY <3>2, <3>6, <3>7
      <4> QED BY <3>3, <3>4, <3>6, <4>1
    <3>8. ASSUME NEW i \in DOMAIN u PROVE u[i] <= t + 1 /\ u[i] # t + 1
      <4>1. u[i] = s[i + n] /\ s[i + n] \in Nat /\ s[i + n] <= t BY <3>6
      <4> QED BY <4>1
    <3> QED BY <3>1, <3>7, <3>8
  <2> HIDE DEF exhaust, cool
  <2> QED BY <2>1 DEF Episodes
<1>6. Windows([starts |-> starts, shared |-> shared], t + 1)
  <2> DEFINE w == [starts |-> starts, shared |-> shared]
  <2>1. w.starts = [r \in Refs |-> Trimmed(rt.starts[r], t + 1, Minute)]
        /\ w.shared = [k \in Keys |-> Trimmed(rt.shared[k], t + 1, Minute)]
    OBVIOUS
  <2> HIDE DEF w, starts, shared
  <2>2. Windows(rt, t) BY DEF Sound
  <2>3. Windows(w, t + 1) BY <1>1, <2>1, <2>2, WindowsTrimmed
  <2> QED BY <2>3 DEF w
<1> HIDE DEF cool, zero, paused, hits, exhaust, starts, shared
<1>7. a \in RouteType
  <2>1. [rt EXCEPT !.cool = cool] \in RouteType BY <1>1, <1>2, FieldTypes
  <2> DEFINE a1 == [rt EXCEPT !.cool = cool]
  <2> HIDE DEF a1
  <2>2. [a1 EXCEPT !.zero = zero] \in RouteType BY <1>2, <2>1, FieldTypes DEF a1
  <2> DEFINE a2 == [a1 EXCEPT !.zero = zero]
  <2> HIDE DEF a2
  <2>3. [a2 EXCEPT !.paused = paused] \in RouteType BY <1>2, <2>2, FieldTypes DEF a2
  <2> QED BY <2>3 DEF a1, a2
<1>8. /\ a.active = rt.active /\ a.cool = cool
  BY <1>1 DEF RouteType
<1> HIDE DEF a
<1>9. b \in RouteType
  <2>1. [a EXCEPT !.hits = hits] \in RouteType BY <1>3, <1>7, FieldTypes
  <2> QED BY <1>3, <2>1, FieldTypes
<1>10. b.active = a.active /\ b.cool = a.cool /\ b.exhaust = exhaust
  BY <1>7 DEF RouteType
<1> HIDE DEF b
<1>11. new \in RouteType
  <2>1. [b EXCEPT !.starts = starts] \in RouteType BY <1>3, <1>9, FieldTypes
  <2> QED BY <1>3, <2>1, FieldTypes
<1>12. /\ new.active = b.active /\ new.cool = b.cool /\ new.exhaust = b.exhaust
       /\ new.starts = starts /\ new.shared = shared
  BY <1>9 DEF RouteType
<1> HIDE DEF new
<1>13. Episodes(new, t + 1) BY <1>5, <1>8, <1>10, <1>12 DEF Episodes
<1>14. Windows(new, t + 1)
  <2> DEFINE w == [starts |-> starts, shared |-> shared]
  <2>1. w.starts = starts /\ w.shared = shared OBVIOUS
  <2>2. Windows(w, t + 1) BY <1>6
  <2> HIDE DEF w
  <2> QED BY <1>12, <2>1, <2>2, WindowsKept
<1>15. Sound(new, t + 1) BY <1>1, <1>11, <1>13, <1>14 DEF Sound
<1> QED BY <1>4, <1>8, <1>10, <1>12, <1>15

---------------------------------------------------------------------------
(* Slots and leases.                                                       *)

\* The callers that hold a slot of a key.
Holders(l, k) == {c \in Callers : l[c] = k}

\* Whoever holds a slot calls a model through its key.
LeasesOK ==
    /\ lease \in [Callers -> Keys \cup {NoKey}]
    /\ calling \in [Callers -> Refs \cup {NoCall}]
    /\ \A c \in Callers : lease[c] = calling[c][2] /\ (lease[c] # NoKey => calling[c] \in Refs)

\* The inductive invariant of the routing state.
RoutingInv == Sound(route, now) /\ LeasesOK /\ SlotsHeld

\* The holders of a key are countable.
LEMMA HoldersFinite ==
    ASSUME NEW l, NEW k
    PROVE  IsFiniteSet(Holders(l, k)) /\ Cardinality(Holders(l, k)) \in Nat
<1>1. IsFiniteSet(Callers) BY RoutingConstants
<1>2. Holders(l, k) \subseteq Callers BY DEF Holders
<1> QED BY <1>1, <1>2, FS_Subset, FS_CardinalityType

\* A step that moves no slot.
LEMMA KeepStep ==
    ASSUME RoutingInv, Sound(route', now'), route'.active = route.active,
           lease' = lease, calling' = calling
    PROVE  RoutingInv'
BY DEF RoutingInv, LeasesOK, SlotsHeld

\* A caller without a slot takes one of a key that is not busy.
LEMMA TakeStep ==
    ASSUME RoutingInv, Sound(route', now'),
           NEW c \in Callers, NEW m \in Models, NEW k \in Keys, lease[c] = NoKey, ~ KeyBusy(route, k),
           route'.active = [route.active EXCEPT ![k] = @ + 1],
           lease' = [lease EXCEPT ![c] = k], calling' = [calling EXCEPT ![c] = <<m, k>>]
    PROVE  RoutingInv'
<1>1. /\ route.active \in [Keys -> Nat] /\ lease \in [Callers -> Keys \cup {NoKey}] /\ NoKey \notin Keys
      /\ MaxConcurrency \in Nat
  BY RoutingConstants, ConstantTypes DEF RoutingInv, LeasesOK, Sound, RouteType
<1>2. LeasesOK'
  <2>1. <<m, k>> \in Refs /\ <<m, k>>[2] = k BY DEF Refs
  <2> QED BY <2>1 DEF RoutingInv, LeasesOK
<1>3. Holders(lease', k) = Holders(lease, k) \cup {c} /\ c \notin Holders(lease, k)
  BY <1>1 DEF Holders
<1>4. \A j \in Keys : j # k => Holders(lease', j) = Holders(lease, j)
  BY <1>1 DEF Holders
<1>5. Cardinality(Holders(lease', k)) = Cardinality(Holders(lease, k)) + 1
  BY <1>3, HoldersFinite, FS_AddElement
<1>6. \A j \in Keys : /\ route.active[j] = Cardinality(Holders(lease, j))
                      /\ route.active[j] <= MaxConcurrency
  BY DEF RoutingInv, SlotsHeld, Holders
<1>7. route.active[k] + 1 <= MaxConcurrency
  BY <1>1 DEF KeyBusy
<1>8. \A j \in Keys : /\ route'.active[j] = Cardinality(Holders(lease', j))
                      /\ route'.active[j] <= MaxConcurrency
  BY <1>1, <1>4, <1>5, <1>6, <1>7
<1>9. SlotsHeld' BY <1>8 DEF SlotsHeld, Holders
<1> QED BY <1>2, <1>9 DEF RoutingInv

\* A caller gives its slot back.
LEMMA ReturnStep ==
    ASSUME RoutingInv, Sound(route', now'), NEW c \in Callers, lease[c] # NoKey,
           route'.active = Freed(c).active,
           lease' = [lease EXCEPT ![c] = NoKey], calling' = [calling EXCEPT ![c] = NoCall]
    PROVE  RoutingInv'
<1> DEFINE k == lease[c]
<1>1. /\ route.active \in [Keys -> Nat] /\ lease \in [Callers -> Keys \cup {NoKey}] /\ NoKey \notin Keys
      /\ MaxConcurrency \in Nat /\ Sound(route, now)
  BY RoutingConstants, ConstantTypes DEF RoutingInv, LeasesOK, Sound, RouteType
<1>2. LeasesOK'
  <2>1. NoCall[2] = NoKey BY DEF NoCall
  <2> QED BY <2>1 DEF RoutingInv, LeasesOK
<1>3. k \in Keys BY <1>1
<1>4. route'.active = [route.active EXCEPT ![k] = IF @ <= 1 THEN 0 ELSE @ - 1]
  BY <1>1, <1>3, ReleaseSound DEF Freed
<1>5. /\ c \in Holders(lease, k) /\ Holders(lease', k) = Holders(lease, k) \ {c}
      /\ \A j \in Keys : j # k => Holders(lease', j) = Holders(lease, j)
  BY <1>1, <1>3 DEF Holders
<1>6. /\ Cardinality(Holders(lease', k)) = Cardinality(Holders(lease, k)) - 1
      /\ Cardinality(Holders(lease, k)) \in Nat /\ Cardinality(Holders(lease', k)) \in Nat
  BY <1>5, HoldersFinite, FS_RemoveElement
<1>7. \A j \in Keys : /\ route.active[j] = Cardinality(Holders(lease, j))
                      /\ route.active[j] <= MaxConcurrency
  BY DEF RoutingInv, SlotsHeld, Holders
<1> HIDE DEF k
<1>8. \A j \in Keys : /\ route'.active[j] = Cardinality(Holders(lease', j))
                      /\ route'.active[j] <= MaxConcurrency
  <2>1. route'.active[k] = Cardinality(Holders(lease', k)) /\ route'.active[k] <= MaxConcurrency
    <3>1. route'.active[k] = IF route.active[k] <= 1 THEN 0 ELSE route.active[k] - 1
      BY <1>1, <1>3, <1>4
    <3>2. route.active[k] = Cardinality(Holders(lease, k)) /\ route.active[k] <= MaxConcurrency
      BY <1>3, <1>7
    <3> QED BY <1>1, <1>6, <3>1, <3>2
  <2>2. \A j \in Keys : j # k => route'.active[j] = route.active[j] BY <1>1, <1>4
  <2> QED BY <1>5, <1>7, <2>1, <2>2
<1>9. SlotsHeld' BY <1>8 DEF SlotsHeld, Holders
<1> QED BY <1>2, <1>9 DEF RoutingInv

\* What a caller that gives its slot back leaves behind.
LEMMA FreedSound ==
    ASSUME RoutingInv, NEW c \in Callers, lease[c] # NoKey
    PROVE  Sound(Freed(c), now) /\ calling[c] \in Refs /\ lease[c] \in Keys
<1>1. Sound(route, now) /\ lease[c] \in Keys /\ calling[c] \in Refs
  BY DEF RoutingInv, LeasesOK
<1> QED BY <1>1, ReleaseSound DEF Freed

\* What pause_key and resume_key write.
PauseSet(rt, s, until, n) == [rt EXCEPT !.paused[s] = until, !.pauses = n]

\* A pause and its end write no cooldown, no window and no slot.
LEMMA PauseSound ==
    ASSUME NEW rt, Sound(rt, now), NEW s \in Scopes, NEW until \in Nat, NEW n \in Nat
    PROVE  Sound(PauseSet(rt, s, until, n), now) /\ PauseSet(rt, s, until, n).active = rt.active
<1> DEFINE f == [rt.paused EXCEPT ![s] = until]
           mid == [rt EXCEPT !.paused = f]
           new == [mid EXCEPT !.pauses = n]
<1>1. rt \in RouteType BY DEF Sound
<1>2. f \in [Scopes -> Nat] BY <1>1 DEF RouteType
<1>3. PauseSet(rt, s, until, n) = new BY <1>1 DEF PauseSet, RouteType
<1> HIDE DEF f
<1>4. mid \in RouteType /\ new \in RouteType
  <2>1. mid \in RouteType BY <1>1, <1>2, FieldTypes
  <2> QED BY <2>1, FieldTypes
<1>5. /\ new.active = rt.active /\ new.exhaust = rt.exhaust /\ new.cool = rt.cool
      /\ new.starts = rt.starts /\ new.shared = rt.shared
  BY <1>1 DEF RouteType
<1> HIDE DEF new
<1>6. Sound(new, now) BY <1>4, <1>5, SoundStep
<1> QED BY <1>3, <1>5, <1>6

\* An administrator pauses or resumes a key between any two steps.
LEMMA PauseInv ==
    ASSUME RoutingInv, NEW s \in Scopes, PauseKey(s) \/ ResumeKey(s)
    PROVE  RoutingInv'
<1>1. Sound(route, now) /\ now \in Nat /\ route.pauses \in Nat
  BY DEF RoutingInv, Sound, RouteType
<1>2. CASE PauseKey(s)
  <2> DEFINE new == PauseSet(route, s, now + 1, route.pauses + 1)
  <2>1. now + 1 \in Nat /\ route.pauses + 1 \in Nat BY <1>1
  <2>2. route' = new /\ now' = now /\ lease' = lease /\ calling' = calling
    BY <1>2 DEF PauseKey, PauseSet
  <2>3. Sound(new, now) /\ new.active = route.active BY <1>1, <2>1, PauseSound
  <2> HIDE DEF new
  <2> QED BY <2>2, <2>3, KeepStep
<1>3. CASE ResumeKey(s)
  <2> DEFINE new == PauseSet(route, s, 0, route.pauses)
  <2>1. route' = new /\ now' = now /\ lease' = lease /\ calling' = calling
    BY <1>1, <1>3 DEF ResumeKey, PauseSet, Sound, RouteType
  <2>2. Sound(new, now) /\ new.active = route.active BY <1>1, PauseSound
  <2> HIDE DEF new
  <2> QED BY <2>1, <2>2, KeepStep
<1> QED BY <1>2, <1>3

---------------------------------------------------------------------------
(* The specification.                                                      *)

\* The object starts empty.
LEMMA RoutingInitInv == RoutingInit => RoutingInv
<1> SUFFICES ASSUME RoutingInit PROVE RoutingInv
  OBVIOUS
<1>1. /\ InitRoute.cool = [r \in Refs |-> 0] /\ InitRoute.exhaust = [r \in Refs |-> <<>>]
      /\ InitRoute.starts = [r \in Refs |-> <<>>] /\ InitRoute.shared = [k \in Keys |-> <<>>]
      /\ InitRoute.active = [k \in Keys |-> 0]
  BY DEF InitRoute
<1>2. InitRoute \in RouteType BY EmptySeq DEF InitRoute, RouteType
<1>3. \A i : i \notin DOMAIN <<>> BY EmptySeq
<1>4. Episodes(InitRoute, 0) BY <1>1, <1>3 DEF Episodes
<1>5. Windows(InitRoute, 0)
  <2>1. \A r \in Refs : Recent(InitRoute.starts[r], 0) BY <1>1, <1>3 DEF Recent
  <2>2. ASSUME NEW k \in Keys
        PROVE  /\ Recent(InitRoute.shared[k], 0) /\ Len(InitRoute.shared[k]) <= KeyRpm
               /\ \E place : Placed(InitRoute, k, place)
    <3>1. InitRoute.shared[k] = <<>> BY <1>1
    <3>2. Recent(InitRoute.shared[k], 0) /\ Len(InitRoute.shared[k]) <= KeyRpm
      BY <1>3, <3>1, EmptySeq, ConstantTypes DEF Recent
    <3>3. StartsThrough(InitRoute, k) = {}
      <4>1. ASSUME NEW p \in StartsThrough(InitRoute, k) PROVE FALSE
        <5>1. p[1] \in Models /\ p[2] \in DOMAIN InitRoute.starts[<<p[1], k>>] BY StartsMember
        <5>2. InitRoute.starts[<<p[1], k>>] = <<>> BY <1>1, <5>1 DEF Refs
        <5> QED BY <1>3, <5>1, <5>2
      <4> QED BY <4>1
    <3>4. Placed(InitRoute, k, [p \in StartsThrough(InitRoute, k) |-> 0]) BY <3>3 DEF Placed
    <3> QED BY <3>2, <3>4
  <2> QED BY <2>1, <2>2 DEF Windows
<1>6. Sound(route, now)
  <2>1. now = 0 /\ route = InitRoute BY DEF RoutingInit
  <2> QED BY <1>2, <1>4, <1>5, <2>1, ConstantTypes DEF Sound
<1>7. LeasesOK BY DEF RoutingInit, LeasesOK, NoCall
<1>8. SlotsHeld
  <2>1. ASSUME NEW k \in Keys PROVE Cardinality({c \in Callers : lease[c] = k}) = 0
    <3>1. {c \in Callers : lease[c] = k} = {} BY RoutingConstants DEF RoutingInit
    <3> QED BY <3>1, FS_EmptySet
  <2>2. route.active = [k \in Keys |-> 0] BY <1>1 DEF RoutingInit
  <2> QED BY <2>1, <2>2, ConstantTypes DEF SlotsHeld
<1> QED BY <1>6, <1>7, <1>8 DEF RoutingInv

\* Every step of the most general caller keeps the invariant.
LEMMA RoutingStepInv == RoutingInv /\ [RoutingNext]_routingVars => RoutingInv'
<1> SUFFICES ASSUME RoutingInv, [RoutingNext]_routingVars PROVE RoutingInv'
  OBVIOUS
<1>0. Sound(route, now) /\ now \in Nat BY DEF RoutingInv, Sound
<1>1. CASE Tick
  <2>1. Sound(route', now') /\ route'.active = route.active BY <1>0, <1>1, ExpireSound DEF Tick
  <2> QED BY <1>1, <2>1, KeepStep DEF Tick
<1>2. ASSUME NEW c \in Callers, NEW m \in Models, NEW k \in Keys, Begin(c, m, k) PROVE RoutingInv'
  <2>1. CASE StartRefused(route, m, k)
    <3>1. route' = route /\ now' = now /\ lease' = lease /\ calling' = calling
      BY <1>2, <2>1 DEF Begin
    <3> QED BY <1>0, <3>1, KeepStep
  <2>2. CASE ~ StartRefused(route, m, k)
    <3> DEFINE held == AcquireConcurrency(route, k)
    <3>1. /\ lease[c] = NoKey /\ ~ KeyBusy(route, k) /\ now' = now
          /\ route' = RecordAttemptStart(held, m, k)
          /\ lease' = [lease EXCEPT ![c] = k] /\ calling' = [calling EXCEPT ![c] = <<m, k>>]
      BY <1>2, <2>2 DEF Begin
    <3>2. Sound(held, now) /\ held.active = [route.active EXCEPT ![k] = @ + 1]
      BY <1>0, AcquireSound
    <3>3. ~ KeyQuotaBlocks(held, k)
      BY <1>0, <2>2 DEF StartRefused, KeyQuotaBlocks, KeyStarts, AcquireConcurrency, Sound, RouteType
    <3> HIDE DEF held
    <3>4. Sound(route', now') /\ route'.active = held.active BY <3>1, <3>2, <3>3, RecordStartSound
    <3> QED BY <3>1, <3>2, <3>4, TakeStep
  <2> QED BY <2>1, <2>2
<1>3. ASSUME NEW c \in Callers, Succeeds(c) PROVE RoutingInv'
  <2>1. lease[c] # NoKey BY <1>3 DEF Succeeds, Ends
  <2>2. Sound(Freed(c), now) /\ calling[c] \in Refs BY <2>1, FreedSound
  <2>3. Sound(route', now') /\ route'.active = Freed(c).active
    BY <1>3, <2>2, HealthySound DEF Succeeds, Ends
  <2> QED BY <1>3, <2>1, <2>3, ReturnStep DEF Succeeds, Ends
<1>4. ASSUME NEW c \in Callers, Cancelled(c) PROVE RoutingInv'
  <2>1. lease[c] # NoKey BY <1>4 DEF Cancelled, Ends
  <2>2. Sound(route', now') /\ route' = Freed(c) BY <1>4, <2>1, FreedSound DEF Cancelled, Ends
  <2> QED BY <1>4, <2>1, <2>2, ReturnStep DEF Cancelled, Ends
<1>5. ASSUME NEW c \in Callers, NEW kind \in Failures, NEW floor \in Floors, Fails(c, kind, floor)
      PROVE  RoutingInv'
  <2>1. lease[c] # NoKey /\ floor \in Nat BY <1>5, RoutingConstants DEF Fails, Ends
  <2>2. Sound(Freed(c), now) /\ calling[c] \in Refs BY <2>1, FreedSound
  <2>3. Sound(route', now') /\ route'.active = Freed(c).active
    BY <1>5, <2>1, <2>2, FailureSound DEF Fails, Ends
  <2> QED BY <1>5, <2>1, <2>3, ReturnStep DEF Fails, Ends
<1>6. ASSUME NEW c \in Callers, NEW reset \in {0, now + 1}, Observes(c, reset) PROVE RoutingInv'
  <2>1. calling[c] \in Refs /\ reset \in Nat BY <1>0, <1>6 DEF RoutingInv, LeasesOK, Observes
  <2>2. Sound(route', now') /\ route'.active = route.active
    BY <1>0, <1>6, <2>1, ObserveSound DEF Observes
  <2> QED BY <1>6, <2>2, KeepStep DEF Observes
<1>7. ASSUME NEW s \in Scopes, PauseKey(s) PROVE RoutingInv'
  <2> QED BY <1>7, PauseInv
<1>8. ASSUME NEW s \in Scopes, ResumeKey(s) PROVE RoutingInv'
  <2> QED BY <1>8, PauseInv
<1>9. CASE UNCHANGED routingVars
  <2>1. route' = route /\ now' = now /\ lease' = lease /\ calling' = calling BY <1>9 DEF routingVars
  <2> QED BY <1>0, <2>1, KeepStep
<1> QED BY <1>1, <1>2, <1>3, <1>4, <1>5, <1>6, <1>7, <1>8, <1>9 DEF RoutingNext

\* The invariant holds in every state of the most general caller.
LEMMA RoutingInvHolds == RoutingSpec => []RoutingInv
BY RoutingInitInv, RoutingStepInv, PTL DEF RoutingSpec

\* The starts of a key, each at a place of its own in the shared window, are no
\* more than that window holds.
LEMMA QuotaFromWindows ==
    ASSUME NEW rt, NEW t, Sound(rt, t), NEW k \in Keys
    PROVE  Cardinality(StartsThrough(rt, k)) <= KeyRpm
<1>1. PICK place : Placed(rt, k, place) BY DEF Sound, Windows
<1>2. /\ Len(rt.shared[k]) \in Nat /\ DOMAIN rt.shared[k] = 1 .. Len(rt.shared[k])
      /\ Len(rt.shared[k]) <= KeyRpm
  <2>1. rt.shared[k] \in Seq(Nat) BY DEF Sound, RouteType
  <2> QED BY <2>1, LenProperties DEF Sound, Windows
<1> DEFINE n == Len(rt.shared[k])
<1>3. IsFiniteSet(1 .. n) /\ Cardinality(1 .. n) = n
  <2>1. 1 \in Int /\ n \in Int /\ (1 > n => n = 0) /\ n - 1 + 1 = n BY <1>2
  <2> HIDE DEF n
  <2> QED BY <2>1, FS_Interval
<1>4. place \in Injection(StartsThrough(rt, k), 1 .. n)
  BY <1>1, <1>2 DEF Placed, Injection, IsInjective
<1> HIDE DEF n
<1>5. IsFiniteSet(StartsThrough(rt, k)) /\ Cardinality(StartsThrough(rt, k)) <= Cardinality(1 .. n)
  BY <1>3, <1>4, FS_Injection
<1>6. Cardinality(StartsThrough(rt, k)) \in Nat BY <1>5, FS_CardinalityType
<1> QED BY <1>2, <1>3, <1>5, <1>6, ConstantTypes DEF n

\* What the invariant says of quotas and ladders.
LEMMA SoundKeys == ASSUME RoutingInv PROVE RoutingTypeOK /\ KeysHeld
<1>1. RoutingTypeOK BY DEF RoutingInv, Sound, LeasesOK, RoutingTypeOK
<1>2. SlotsHeld BY DEF RoutingInv
<1>3. KeyQuotaHeld BY QuotaFromWindows DEF RoutingInv, KeyQuotaHeld
<1>4. BurstClimbsOnce
  <2>1. ASSUME NEW r \in Refs, NEW i \in 1 .. Len(route.exhaust[r]) - 1
        PROVE  route.exhaust[r][i] < route.exhaust[r][i + 1]
    <3>1. route.exhaust[r] \in Seq(Nat) BY DEF RoutingInv, Sound, RouteType
    <3>2. /\ Len(route.exhaust[r]) \in Nat /\ DOMAIN route.exhaust[r] = 1 .. Len(route.exhaust[r])
      BY <3>1, LenProperties
    <3>3. i \in DOMAIN route.exhaust[r] /\ i + 1 \in DOMAIN route.exhaust[r] /\ i < i + 1
      BY <3>2
    <3> QED BY <3>3 DEF RoutingInv, Sound, Episodes
  <2> QED BY <2>1 DEF BurstClimbsOnce
<1> QED BY <1>1, <1>2, <1>3, <1>4 DEF KeysHeld

\* The object stays in its type, whatever its callers do.
THEOREM RoutingTypeCorrect == RoutingSpec => []RoutingTypeOK
<1>1. RoutingInv => RoutingTypeOK BY SoundKeys
<1> QED BY <1>1, RoutingInvHolds, PTL

\* A key serves at most max_concurrency requests at once and its rpm in a minute,
\* loses no slot, and a burst of 429s climbs one rung of its ladder.
THEOREM KeysAlwaysHeld == RoutingSpec => []KeysHeld
<1>1. RoutingInv => KeysHeld BY SoundKeys
<1> QED BY <1>1, RoutingInvHolds, PTL

---------------------------------------------------------------------------
(* Cooldowns.                                                              *)

\* The state a slot is returned to has the same cooldowns.
LEMMA FreedCool ==
    ASSUME RoutingInv, NEW c \in Callers, lease[c] # NoKey
    PROVE  Freed(c).cool = route.cool
<1>1. route \in RouteType BY DEF RoutingInv, Sound
<1> QED BY <1>1 DEF Freed, ReleaseConcurrency, RouteType

\* A failure, of whatever kind.
LEMMA FailCools ==
    ASSUME RoutingInv, NEW c \in Callers, NEW kind, NEW floor \in Floors, Fails(c, kind, floor)
    PROVE  /\ calling[c] \in Refs
           /\ CoolsWell(route, route', calling[c], kind)
<1>1. lease[c] # NoKey /\ now' = now /\ route' = RecordFailure(Freed(c), calling[c], kind, floor) /\ floor \in Nat
  BY RoutingConstants DEF Fails, Ends
<1>2. Sound(Freed(c), now) /\ Freed(c).cool = route.cool /\ calling[c] \in Refs
  BY <1>1, FreedSound, FreedCool
<1>3. CoolsWell(Freed(c), route', calling[c], kind)
  BY <1>1, <1>2, FailureSound
<1> QED BY <1>2, <1>3 DEF CoolsWell, Cooling

\* No step cuts a cooldown short but a success and a failure of its own.
LEMMA CoolStep == ASSUME RoutingInv, [RoutingNext]_routingVars PROVE RateLimitKeeps /\ CutByItsOwn
<1> DEFINE Ended(r) == \E c \in Callers : calling[c] = r /\ (Succeeds(c) \/ (FailsSomehow(c) /\ route'.cool[r] > now))
<1>0. /\ now \in Nat /\ route \in RouteType /\ \A r \in Refs : route.cool[r] \in Nat
  BY DEF RoutingInv, Sound, RouteType
<1>1. ASSUME NEW c \in Callers, NEW floor \in Floors, Fails(c, "rate_limit", floor), Cooling(route, calling[c])
      PROVE  route'.cool[calling[c]] >= Smaller(route.cool[calling[c]], now + Ceiling)
  BY <1>1, FailCools DEF CoolsWell
<1>2. ASSUME NEW r \in Refs, CutShort(r) PROVE Ended(r)
  <2>0. route'.cool[r] # route.cool[r] /\ now' < route.cool[r]
    <3>1. route'.cool[r] < route.cool[r] /\ now' < route.cool[r] BY <1>2 DEF CutShort
    <3>2. \A n \in Nat : ~ (n < n) OBVIOUS
    <3> QED BY <1>0, <3>1, <3>2
  <2>1. CASE Tick
    <3>1. now' = now + 1 /\ route'.cool[r] = IF route.cool[r] > now + 1 THEN route.cool[r] ELSE 0
      BY <1>0, <2>1 DEF Tick, Expire, RouteType
    <3>2. \A x \in Nat : now + 1 < x => x > now + 1 BY <1>0
    <3> QED BY <1>0, <2>0, <3>1, <3>2
  <2>2. ASSUME NEW c \in Callers, NEW m \in Models, NEW k \in Keys, Begin(c, m, k) PROVE FALSE
    BY <1>0, <2>0, <2>2 DEF Begin, RecordAttemptStart, AcquireConcurrency, RouteType
  <2>3. ASSUME NEW c \in Callers, Succeeds(c) PROVE Ended(r)
    <3>1. lease[c] # NoKey /\ route' = MarkHealthy(Freed(c), calling[c])
      BY <2>3 DEF Succeeds, Ends
    <3>2. Freed(c) \in RouteType /\ Freed(c).cool = route.cool BY <3>1, FreedSound, FreedCool DEF Sound
    <3>3. route'.cool = [route.cool EXCEPT ![calling[c]] = 0]
      BY <3>1, <3>2 DEF MarkHealthy, RouteType
    <3>4. calling[c] = r
      BY <1>0, <2>0, <3>3 DEF RouteType
    <3> QED BY <2>3, <3>4
  <2>4. ASSUME NEW c \in Callers, Cancelled(c) PROVE FALSE
    <3>1. lease[c] # NoKey /\ route' = Freed(c) BY <2>4 DEF Cancelled, Ends
    <3> QED BY <2>0, <3>1, FreedCool
  <2>5. ASSUME NEW c \in Callers, NEW kind \in Failures, NEW floor \in Floors, Fails(c, kind, floor) PROVE Ended(r)
    <3>1. calling[c] \in Refs /\ CoolsWell(route, route', calling[c], kind) BY <2>5, FailCools
    <3>2. calling[c] = r /\ route'.cool[r] > now BY <2>0, <3>1 DEF CoolsWell
    <3>3. FailsSomehow(c) BY <2>5 DEF FailsSomehow
    <3> QED BY <3>2, <3>3
  <2>6. ASSUME NEW c \in Callers, NEW reset \in {0, now + 1}, Observes(c, reset) PROVE FALSE
    BY <1>0, <2>0, <2>6 DEF Observes, ObserveRemaining, RouteType
  <2>7. ASSUME NEW x \in Scopes, PauseKey(x) \/ ResumeKey(x) PROVE FALSE
    BY <1>0, <2>0, <2>7 DEF PauseKey, ResumeKey, RouteType
  <2>8. CASE UNCHANGED routingVars
    BY <2>0, <2>8 DEF routingVars
  <2> QED BY <2>1, <2>2, <2>3, <2>4, <2>5, <2>6, <2>7, <2>8 DEF RoutingNext
<1> QED BY <1>1, <1>2 DEF RateLimitKeeps, CutByItsOwn

\* A cooldown that is running is cut short by nothing but a success, or a failure of
\* another class, on its own key and model; the 429s of a burst never do, up to the
\* ceiling, and no failure makes the key free at once.
THEOREM CooldownAlwaysHeld == RoutingSpec => CooldownHeld
<1>1. RoutingInv /\ [RoutingNext]_routingVars => [RateLimitKeeps /\ CutByItsOwn]_routingVars
  BY CoolStep
<1> QED BY <1>1, RoutingInvHolds, PTL DEF RoutingSpec, CooldownHeld

-----------------------------------------------------------------------------
(* Chat dispatch.                                                          *)

Working == {"auth", "loop", "acquire", "reauth", "switch", "call", "probe", "sleep"}
Holding == {"call", "probe", "streaming"}
Shown == {"answered", "streaming", "closed"}

---------------------------------------------------------------------------
(* What holds of the variables of one request.                             *)

\* The calls the retries of a rule may still make.
Variants(r) == Larger(1, Subproviders[r])
Cost(r, left) == left * Variants(r)
CallLimit(r) == Cost(r, RetryCount[r]) + Variants(r) + Cardinality(Keys) + 1

\* The calls a request may still make without a new retry: by the switches and
\* the downgrade it has left, and by the sub-providers from here.
Spare(q) == Cost(q.rule, q.left) + (Cardinality(Keys) - q.switches) + (IF q.downgraded THEN 0 ELSE 1)
Rest(q) == IF q.sub = 0 THEN 1 ELSE Subproviders[q.rule] - q.sub + 1

Positioned(q) ==
    /\ q.switches <= Cardinality(Keys)
    /\ q.sub <= Subproviders[q.rule] /\ (q.sub = 0 <=> Subproviders[q.rule] = 0)

Typed(q) ==
    /\ q \in RequestType
    /\ q.at \in Working => q.rule \in Rules /\ q.key \in Keys

OneShot(q) ==
    /\ q.published <= 1
    /\ q.at \in Shown => q.published = 1
    /\ q.at \notin Shown \cup {"aborted"} => q.published = 0

\* The calls made and those still possible stay under the limit of the rule.
Bounded(q) ==
    /\ q.rule # NoRule => q.ruleCalls <= CallLimit(q.rule)
    /\ q.at = "auth" =>
          q.sub = 0 /\ q.switches = 0 /\ q.left = RetryCount[q.rule] /\ q.ruleCalls = 0
    /\ q.at \in {"loop", "sleep"} =>
          /\ q.sub = 0 /\ q.switches <= Cardinality(Keys)
          /\ q.ruleCalls + Spare(q) + Variants(q.rule) <= CallLimit(q.rule)
    /\ q.at \in {"acquire", "reauth", "switch"} =>
          Positioned(q) /\ q.ruleCalls + Spare(q) + Rest(q) <= CallLimit(q.rule)
    /\ q.at = "acquire" => q.tries # 0
    /\ q.at = "call" =>
          Positioned(q) /\ q.ruleCalls + Spare(q) + Rest(q) <= CallLimit(q.rule) + 1

Sane(q) == Typed(q) /\ OneShot(q) /\ Bounded(q)

\* The constants of the rules.
LEMMA RuleTypes ==
    /\ Cardinality(Keys) \in Nat /\ MaxTotal \in Nat /\ NoRule \notin Rules
    /\ \A r \in Rules :
          /\ ModelOf[r] \in Models /\ RetryCount[r] \in Nat /\ Subproviders[r] \in Nat
          /\ Variants(r) \in Nat \ {0} /\ (Subproviders[r] = 0 => Variants(r) = 1)
          /\ (Subproviders[r] # 0 => Variants(r) = Subproviders[r])
    /\ \A order \in Orders : order \in Seq(Rules)
    /\ OverflowRule # NoRule => OverflowRule \in Rules
<1>1. /\ ModelOf \in [Rules -> Models] /\ RetryCount \in [Rules -> Nat]
      /\ Subproviders \in [Rules -> Nat] /\ MaxTotal \in Nat /\ NoRule \notin Rules
      /\ Orders \subseteq Seq(Rules) /\ OverflowRule \in Rules \cup {NoRule}
  BY DispatchConstants
<1>2. Cardinality(Keys) \in Nat BY RoutingConstants, FS_CardinalityType
<1>3. ASSUME NEW r \in Rules
      PROVE  /\ Variants(r) \in Nat \ {0} /\ (Subproviders[r] = 0 => Variants(r) = 1)
             /\ (Subproviders[r] # 0 => Variants(r) = Subproviders[r])
  <2>1. Subproviders[r] \in Nat BY <1>1
  <2> QED BY <2>1 DEF Variants, Larger
<1> QED BY <1>1, <1>2, <1>3

\* Whoever has a key has a choice of at least one.
LEMMA KeysCounted == ASSUME NEW k \in Keys PROVE Cardinality(Keys) # 0
<1>1. IsFiniteSet(Keys) BY RoutingConstants
<1> QED BY <1>1, FS_EmptySet

\* A retry costs one call for each sub-provider.
LEMMA CostStep ==
    ASSUME NEW r \in Rules
    PROVE  /\ \A left \in Nat : Cost(r, left) \in Nat
           /\ \A left \in Nat \ {0} : Cost(r, left) = Cost(r, left - 1) + Variants(r)
           /\ CallLimit(r) = (RetryCount[r] + 1) * Variants(r) + Cardinality(Keys) + 1
           /\ CallLimit(r) \in Nat
<1> DEFINE n == Variants(r)
<1>1. n \in Nat /\ RetryCount[r] \in Nat /\ Cardinality(Keys) \in Nat BY RuleTypes
<1> HIDE DEF n
<1>2. \A left \in Nat : left * n \in Nat BY <1>1
<1>3. \A left \in Nat \ {0} : left * n = (left - 1) * n + n BY <1>1
<1>4. (RetryCount[r] + 1) * n = RetryCount[r] * n + n BY <1>1
<1>5. \A left : Cost(r, left) = left * n BY DEF Cost, n
<1>6. CallLimit(r) = RetryCount[r] * n + n + Cardinality(Keys) + 1 BY <1>5 DEF CallLimit, n
<1>7. /\ CallLimit(r) = (RetryCount[r] + 1) * n + Cardinality(Keys) + 1
      /\ CallLimit(r) \in Nat
  <2>1. RetryCount[r] * n \in Nat BY <1>1, <1>2
  <2> QED BY <1>1, <1>4, <1>6, <2>1
<1> QED BY <1>2, <1>3, <1>5, <1>7 DEF n

---------------------------------------------------------------------------
(* How a coroutine goes on.                                                *)

\* Counting an attempt changes nothing else.
LEMMA CountedFields ==
    ASSUME NEW q \in RequestType
    PROVE  LET n == Counted(q)
           IN  /\ n \in RequestType /\ n.number = Smaller(q.number + 1, MaxTotal + 1)
               /\ n.at = q.at /\ n.chain = q.chain /\ n.rule = q.rule /\ n.key = q.key
               /\ n.over = q.over /\ n.left = q.left /\ n.sub = q.sub
               /\ n.switches = q.switches /\ n.downgraded = q.downgraded /\ n.tries = q.tries
               /\ n.calls = q.calls /\ n.ruleCalls = q.ruleCalls /\ n.published = q.published
<1>1. Smaller(q.number + 1, MaxTotal + 1) \in Nat BY RuleTypes DEF Smaller, RequestType
<1> QED BY <1>1 DEF Counted, RequestType

\* A rule that failed leaves the request at its chain.
LEMMA RuleFailsSane ==
    ASSUME NEW q \in RequestType, NEW overflow \in BOOLEAN, overflow => OverflowRule \in Rules,
           q.published = 0, q.rule # NoRule => q.ruleCalls <= CallLimit(q.rule)
    PROVE  /\ Sane(RuleFails(q, overflow)) /\ RuleFails(q, overflow).at = "chain"
           /\ RuleFails(q, overflow).number = q.number /\ RuleFails(q, overflow).calls = q.calls
           /\ RuleFails(q, overflow).sub = q.sub /\ RuleFails(q, overflow).downgraded = q.downgraded
           /\ RuleFails(q, overflow).over = IF overflow THEN "now" ELSE q.over
<1>1. CASE overflow
  <2> DEFINE chain == <<OverflowRule>> \o q.chain
             n == [q EXCEPT !.at = "chain", !.chain = chain, !.over = "now"]
  <2>1. chain \in Seq(Rules)
    <3>1. q.chain \in Seq(Rules) /\ <<OverflowRule>> \in Seq(Rules) BY <1>1 DEF RequestType
    <3> QED BY <3>1, ConcatProperties
  <2>2. RuleFails(q, overflow) = n BY <1>1 DEF RuleFails
  <2> HIDE DEF chain
  <2>3. /\ n \in RequestType /\ n.at = "chain" /\ n.number = q.number /\ n.calls = q.calls
        /\ n.published = 0 /\ n.rule = q.rule /\ n.ruleCalls = q.ruleCalls
        /\ n.sub = q.sub /\ n.downgraded = q.downgraded /\ n.over = "now"
    BY <2>1 DEF RequestType, Places, SyncPlaces
  <2> HIDE DEF n
  <2>4. Sane(n) BY <2>3 DEF Sane, Typed, OneShot, Bounded, Working, Shown
  <2> QED BY <1>1, <2>2, <2>3, <2>4
<1>2. CASE ~ overflow
  <2> DEFINE n == [q EXCEPT !.at = "chain"]
  <2>1. RuleFails(q, overflow) = n BY <1>2 DEF RuleFails
  <2>2. /\ n \in RequestType /\ n.at = "chain" /\ n.number = q.number /\ n.calls = q.calls
        /\ n.published = 0 /\ n.rule = q.rule /\ n.ruleCalls = q.ruleCalls
        /\ n.sub = q.sub /\ n.downgraded = q.downgraded /\ n.over = q.over
    BY DEF RequestType, Places, SyncPlaces
  <2> HIDE DEF n
  <2> QED BY <1>2, <2>1, <2>2 DEF Sane, Typed, OneShot, Bounded, Working, Shown
<1> QED BY <1>1, <1>2

\* A request whose rule and key are chosen and which has shown nothing yet.
Ready(q) ==
    /\ q \in RequestType /\ q.rule \in Rules /\ q.key \in Keys
    /\ q.published = 0 /\ Positioned(q)

\* The types of what the limit of a rule is added up from.
LEMMA ReadyTypes ==
    ASSUME NEW q, Ready(q)
    PROVE  /\ q.left \in Nat /\ q.sub \in Nat /\ q.switches \in Nat /\ q.ruleCalls \in Nat
           /\ q.number \in Nat /\ q.calls \in Nat /\ q.downgraded \in BOOLEAN
           /\ Cost(q.rule, q.left) \in Nat /\ Variants(q.rule) \in Nat \ {0}
           /\ Subproviders[q.rule] \in Nat /\ CallLimit(q.rule) \in Nat /\ Cardinality(Keys) \in Nat
           /\ Spare(q) \in Nat /\ Rest(q) \in Nat \ {0} /\ Rest(q) <= Variants(q.rule)
           /\ q.rule # NoRule /\ Cardinality(Keys) # 0
<1>1. /\ q.left \in Nat /\ q.sub \in Nat /\ q.switches \in Nat /\ q.ruleCalls \in Nat
      /\ q.number \in Nat /\ q.calls \in Nat /\ q.downgraded \in BOOLEAN
  BY DEF Ready, RequestType
<1>2. /\ Cost(q.rule, q.left) \in Nat /\ Variants(q.rule) \in Nat \ {0}
      /\ Subproviders[q.rule] \in Nat /\ CallLimit(q.rule) \in Nat /\ Cardinality(Keys) \in Nat
      /\ (Subproviders[q.rule] # 0 => Variants(q.rule) = Subproviders[q.rule])
      /\ q.rule # NoRule
  BY <1>1, RuleTypes, CostStep DEF Ready
<1>3. Spare(q) \in Nat BY <1>1, <1>2 DEF Spare, Ready, Positioned
<1>4. Rest(q) \in Nat \ {0} /\ Rest(q) <= Variants(q.rule)
  BY <1>1, <1>2 DEF Rest, Ready, Positioned
<1>5. Cardinality(Keys) # 0 BY KeysCounted DEF Ready
<1> QED BY <1>1, <1>2, <1>3, <1>4, <1>5

\* Trying the same target again costs no more than was left.
LEMMA AgainSane ==
    ASSUME NEW q, Ready(q), q.ruleCalls + Spare(q) + Rest(q) <= CallLimit(q.rule)
    PROVE  /\ Sane(Again(q)) /\ Again(q).at \in {"loop", "acquire"}
           /\ (Again(q).at = "acquire") <=> (q.sub # 0)
           /\ Again(q).number = q.number /\ Again(q).calls = q.calls
           /\ Again(q).over = q.over /\ Again(q).sub = q.sub /\ Again(q).downgraded = q.downgraded
<1>1. q \in RequestType BY DEF Ready
<1>2. CASE q.sub = 0
  <2> DEFINE n == [q EXCEPT !.at = "loop"]
  <2>1. Again(q) = n BY <1>2 DEF Again
  <2>2. /\ n \in RequestType /\ n.at = "loop" /\ n.number = q.number /\ n.calls = q.calls
        /\ n.over = q.over /\ n.rule = q.rule /\ n.key = q.key /\ n.left = q.left /\ n.sub = q.sub
        /\ n.switches = q.switches /\ n.downgraded = q.downgraded
        /\ n.ruleCalls = q.ruleCalls /\ n.published = q.published
    BY <1>1 DEF RequestType, Places, SyncPlaces
  <2> HIDE DEF n
  <2>3. Variants(q.rule) = 1 /\ Rest(q) = 1 BY <1>2, RuleTypes DEF Ready, Positioned, Rest
  <2>4. Spare(n) = Spare(q) BY <2>2 DEF Spare
  <2>5. Bounded(n)
    BY <1>2, <2>2, <2>3, <2>4, ReadyTypes DEF Bounded, Ready, Positioned
  <2> QED BY <1>2, <2>1, <2>2, <2>5 DEF Sane, Typed, OneShot, Ready, Working, Shown
<1>3. CASE q.sub # 0
  <2> DEFINE n == [q EXCEPT !.at = "acquire", !.tries = Cardinality(Keys)]
  <2>1. Again(q) = n BY <1>3 DEF Again
  <2>2. /\ n \in RequestType /\ n.at = "acquire" /\ n.number = q.number /\ n.calls = q.calls
        /\ n.tries = Cardinality(Keys) /\ n.over = q.over
        /\ n.rule = q.rule /\ n.key = q.key /\ n.left = q.left /\ n.sub = q.sub
        /\ n.switches = q.switches /\ n.downgraded = q.downgraded
        /\ n.ruleCalls = q.ruleCalls /\ n.published = q.published
    BY <1>1, RuleTypes DEF RequestType, Places, SyncPlaces
  <2> HIDE DEF n
  <2>3. Spare(n) = Spare(q) /\ Rest(n) = Rest(q) BY <2>2 DEF Spare, Rest
  <2>4. Bounded(n)
    BY <2>2, <2>3, ReadyTypes DEF Bounded, Ready, Positioned
  <2> QED BY <1>3, <2>1, <2>2, <2>4 DEF Sane, Typed, OneShot, Ready, Working, Shown
<1> QED BY <1>2, <1>3

\* The next retry costs what the rule set aside for it.
LEMMA NextRetrySane ==
    ASSUME NEW q, Ready(q), q.ruleCalls + Spare(q) <= CallLimit(q.rule)
    PROVE  /\ Sane(NextRetry(q)) /\ NextRetry(q).at \in {"sleep", "chain"}
           /\ NextRetry(q).number = q.number /\ NextRetry(q).calls = q.calls
           /\ NextRetry(q).at = "sleep" => ~ BudgetExhausted(q)
           /\ NextRetry(q).at = "chain" =>
                 /\ NextRetry(q).over = q.over /\ NextRetry(q).sub = q.sub
                 /\ NextRetry(q).downgraded = q.downgraded
<1>1. q \in RequestType BY DEF Ready
<1>2. CASE q.left > 0 /\ ~ BudgetExhausted(q)
  <2> DEFINE n == [q EXCEPT !.at = "sleep", !.left = @ - 1, !.sub = 0]
  <2>1. NextRetry(q) = n BY <1>2 DEF NextRetry
  <2>2. q.left \in Nat \ {0} /\ q.left - 1 \in Nat BY <1>2, ReadyTypes
  <2>3. /\ n \in RequestType /\ n.at = "sleep" /\ n.number = q.number /\ n.calls = q.calls
        /\ n.rule = q.rule /\ n.key = q.key /\ n.left = q.left - 1 /\ n.sub = 0
        /\ n.switches = q.switches /\ n.downgraded = q.downgraded
        /\ n.ruleCalls = q.ruleCalls /\ n.published = q.published
    BY <1>1, <2>2 DEF RequestType, Places, Awaits
  <2> HIDE DEF n
  <2>4. /\ Cost(q.rule, q.left) = Cost(q.rule, q.left - 1) + Variants(q.rule)
        /\ Cost(q.rule, q.left - 1) \in Nat
    BY <2>2, CostStep DEF Ready
  <2>5. Spare(n) + Variants(n.rule) = Spare(q)
    BY <2>3, <2>4, ReadyTypes DEF Spare, Ready, Positioned
  <2>6. n.ruleCalls + Spare(n) + Variants(n.rule) <= CallLimit(n.rule)
    <3>1. Spare(n) \in Int /\ Variants(n.rule) \in Nat
      BY <2>3, <2>4, ReadyTypes DEF Spare
    <3> QED BY <2>3, <2>5, <3>1, ReadyTypes
  <2>7. Bounded(n)
    BY <2>3, <2>6, ReadyTypes DEF Bounded, Ready, Positioned
  <2> QED BY <1>2, <2>1, <2>3, <2>7 DEF Sane, Typed, OneShot, Ready, Working, Shown
<1>3. CASE ~ (q.left > 0 /\ ~ BudgetExhausted(q))
  <2>1. NextRetry(q) = RuleFails(q, FALSE) BY <1>3 DEF NextRetry
  <2>2. q.ruleCalls <= CallLimit(q.rule) BY ReadyTypes
  <2> QED BY <1>1, <2>1, <2>2, RuleFailsSane DEF Ready
<1> QED BY <1>2, <1>3

\* The attempt is paid for: the next sub-provider, the next retry or the end of
\* the rule.
LEMMA NextAttemptSane ==
    ASSUME NEW q, Ready(q), q.ruleCalls + Spare(q) + Rest(q) <= CallLimit(q.rule) + 1
    PROVE  /\ Sane(NextAttempt(q)) /\ NextAttempt(q).at \in {"acquire", "sleep", "chain"}
           /\ NextAttempt(q).at = "acquire" => ~ BudgetExhausted(q)
           /\ NextAttempt(q).at = "sleep" => ~ BudgetExhausted(q)
           /\ NextAttempt(q).at = "chain" =>
                 /\ NextAttempt(q).over = q.over /\ NextAttempt(q).sub = q.sub
                 /\ NextAttempt(q).downgraded = q.downgraded
           /\ NextAttempt(q).number = q.number /\ NextAttempt(q).calls = q.calls
<1>1. q \in RequestType BY DEF Ready
<1>2. CASE q.sub > 0 /\ q.sub < Subproviders[q.rule] /\ ~ BudgetExhausted(q)
  <2> DEFINE n == [q EXCEPT !.at = "acquire", !.sub = @ + 1, !.tries = Cardinality(Keys)]
  <2>1. NextAttempt(q) = n BY <1>2 DEF NextAttempt
  <2>2. q.sub + 1 \in Nat BY ReadyTypes
  <2>3. /\ n \in RequestType /\ n.at = "acquire" /\ n.number = q.number /\ n.calls = q.calls
        /\ n.tries = Cardinality(Keys)
        /\ n.rule = q.rule /\ n.key = q.key /\ n.left = q.left /\ n.sub = q.sub + 1
        /\ n.switches = q.switches /\ n.downgraded = q.downgraded
        /\ n.ruleCalls = q.ruleCalls /\ n.published = q.published
    BY <1>1, <2>2, RuleTypes DEF RequestType, Places, SyncPlaces
  <2> HIDE DEF n
  <2>4. Spare(n) = Spare(q) BY <2>3 DEF Spare
  <2>5. Rest(n) + 1 = Rest(q) /\ Rest(n) \in Nat
    BY <1>2, <2>3, ReadyTypes DEF Rest
  <2>6. n.ruleCalls + Spare(n) + Rest(n) <= CallLimit(n.rule)
    BY <2>3, <2>4, <2>5, ReadyTypes
  <2>7. Positioned(n) BY <1>2, <2>3, ReadyTypes DEF Positioned, Ready
  <2>8. Bounded(n) BY <2>3, <2>6, <2>7, ReadyTypes, <2>4, <2>5 DEF Bounded
  <2> QED BY <1>2, <2>1, <2>3, <2>8 DEF Sane, Typed, OneShot, Ready, Working, Shown
<1>3. CASE ~ (q.sub > 0 /\ q.sub < Subproviders[q.rule] /\ ~ BudgetExhausted(q))
  <2>1. NextAttempt(q) = NextRetry(q) BY <1>3 DEF NextAttempt
  <2>2. q.ruleCalls + Spare(q) <= CallLimit(q.rule) BY ReadyTypes
  <2> QED BY <2>1, <2>2, NextRetrySane
<1> QED BY <1>2, <1>3

---------------------------------------------------------------------------
(* The budget of a chain.                                                  *)

\* Where the budget is not looked at before a call.
Free(q) == q.sub > 0 /\ q.downgraded
SameFree(n, q) == n.over = q.over /\ n.sub = q.sub /\ n.downgraded = q.downgraded

\* The calls of a request are counted, but for the one in flight, and it calls
\* only while the count leaves it one, or where it does not look. The last call of
\* all is not told apart from the one before it by the number.
Within(q) ==
    MaxTotal # 0 =>
        /\ q.number \in 1 .. MaxTotal + 1
        /\ q.at \in {"acquire", "reauth", "call", "probe"} => (q.number <= MaxTotal \/ Free(q))
        /\ (q.at = "switch" /\ q.sub > 0) => q.number <= MaxTotal
        /\ q.calls <= q.number
        /\ q.calls = q.number =>
              \/ q.at \in {"call", "probe", "aborted"}
              \/ q.number = MaxTotal + 1 /\ q.at \notin {"acquire", "reauth"}
        /\ q.calls = MaxTotal + 1 => OneMore(q)

\* What an attempt leaves when it is counted.
Spent(q) ==
    MaxTotal # 0 =>
        /\ q.number \in 1 .. MaxTotal + 1 /\ q.calls <= q.number
        /\ q.calls = q.number => q.number = MaxTotal + 1 /\ Free(q)
        /\ q.calls = MaxTotal + 1 => OneMore(q)

\* Counting an attempt moves its number on, up to one over the budget.
LEMMA CountedNumber ==
    ASSUME NEW q \in RequestType, MaxTotal # 0, q.number \in 1 .. MaxTotal + 1
    PROVE  /\ Counted(q).number \in 1 .. MaxTotal + 1 /\ Counted(q).number >= q.number
           /\ q.number <= MaxTotal => Counted(q).number = q.number + 1
<1>1. Counted(q).number = Smaller(q.number + 1, MaxTotal + 1) BY CountedFields
<1>2. MaxTotal \in Nat BY RuleTypes
<1> QED BY <1>1, <1>2 DEF Smaller

---------------------------------------------------------------------------
(* The invariant.                                                          *)

DispatchInv ==
    /\ RoutingInv
    /\ req \in [Callers -> RequestType]
    /\ \A c \in Callers : Sane(req[c]) /\ (lease[c] # NoKey <=> req[c].at \in Holding)

BudgetInv == \A c \in Callers : Within(req[c])

\* A step of one request leaves the others alone.
LEMMA Moves ==
    ASSUME DispatchInv, RoutingInv', NEW c \in Callers, NEW n, Sane(n),
           req' = [req EXCEPT ![c] = n],
           \A d \in Callers : d # c => lease'[d] = lease[d],
           lease'[c] # NoKey <=> n.at \in Holding,
           Within(req[c]) => Within(n)
    PROVE  DispatchInv' /\ (BudgetInv => BudgetInv')
<1>1. n \in RequestType BY DEF Sane, Typed
<1>2. /\ req \in [Callers -> RequestType] /\ req'[c] = n
      /\ \A d \in Callers : d # c => req'[d] = req[d]
  BY DEF DispatchInv
<1>3. req' \in [Callers -> RequestType] BY <1>1, <1>2
<1>4. ASSUME NEW d \in Callers
      PROVE  Sane(req'[d]) /\ (lease'[d] # NoKey <=> req'[d].at \in Holding)
  <2>1. CASE d = c BY <1>2, <2>1
  <2>2. CASE d # c BY <1>2, <2>2 DEF DispatchInv
  <2> QED BY <2>1, <2>2
<1>5. DispatchInv' BY <1>3, <1>4 DEF DispatchInv
<1>6. ASSUME BudgetInv PROVE BudgetInv'
  <2>1. ASSUME NEW d \in Callers PROVE Within(req'[d])
    <3>1. CASE d = c BY <1>2, <1>6, <3>1 DEF BudgetInv
    <3>2. CASE d # c BY <1>2, <1>6, <3>2 DEF BudgetInv
    <3> QED BY <3>1, <3>2
  <2>2. MaxTotal' = MaxTotal OBVIOUS
  <2> QED BY <2>1 DEF BudgetInv, Within
<1> QED BY <1>5, <1>6

\* The same for a step of a request alone.
LEMMA MovesAlone ==
    ASSUME DispatchInv, NEW c \in Callers, NEW n, Sane(n),
           req' = [req EXCEPT ![c] = n], UNCHANGED routingVars,
           n.at \in Holding <=> req[c].at \in Holding,
           Within(req[c]) => Within(n)
    PROVE  DispatchInv' /\ (BudgetInv => BudgetInv')
<1>1. route' = route /\ now' = now /\ lease' = lease /\ calling' = calling BY DEF routingVars
<1>2. RoutingInv' BY <1>1, KeepStep DEF DispatchInv, RoutingInv
<1>3. \A d \in Callers : lease'[d] = lease[d] BY <1>1
<1>4. lease'[c] # NoKey <=> n.at \in Holding BY <1>3 DEF DispatchInv
<1> QED BY <1>2, <1>3, <1>4, Moves

---------------------------------------------------------------------------
(* The actions of one request.                                             *)

Kept == DispatchInv' /\ (BudgetInv => BudgetInv')

\* The chain of a request is chosen.
LEMMA DispatchKept == ASSUME DispatchInv, NEW c \in Callers, Dispatch(c) PROVE Kept
<1> DEFINE q == req[c]
<1>1. q \in RequestType /\ Sane(q) /\ q.at = "new" /\ req \in [Callers -> RequestType]
  BY DEF DispatchInv, Dispatch
<1>2. PICK order \in Orders : req' = [req EXCEPT ![c].at = "chain", ![c].chain = order]
  BY DEF Dispatch
<1> DEFINE n == [q EXCEPT !.at = "chain", !.chain = order]
<1>3. req' = [req EXCEPT ![c] = n] BY <1>1, <1>2
<1>4. /\ n \in RequestType /\ n.at = "chain" /\ n.number = q.number /\ n.calls = q.calls
      /\ n.published = q.published /\ n.rule = q.rule /\ n.ruleCalls = q.ruleCalls
      /\ SameFree(n, q)
  BY <1>1, RuleTypes DEF RequestType, Places, SyncPlaces, SameFree
<1> HIDE DEF n, q
<1>5. Sane(n) BY <1>1, <1>4 DEF Sane, Typed, OneShot, Bounded, Working, Shown
<1>6. Within(q) => Within(n) BY <1>1, <1>4 DEF Within, OneMore, Free, SameFree
<1>7. n.at \in Holding <=> q.at \in Holding BY <1>1, <1>4 DEF Holding
<1>8. UNCHANGED routingVars BY DEF Dispatch
<1> QED BY <1>3, <1>5, <1>6, <1>7, <1>8, MovesAlone DEF Kept, q

\* The chain is at its end.
LEMMA ExhaustedKept == ASSUME DispatchInv, NEW c \in Callers, ChainExhausted(c) PROVE Kept
<1> DEFINE q == req[c]
           n == [q EXCEPT !.at = "exhausted"]
<1>1. q \in RequestType /\ Sane(q) /\ q.at = "chain" /\ req \in [Callers -> RequestType]
  BY DEF DispatchInv, ChainExhausted
<1>2. req' = [req EXCEPT ![c] = n] /\ UNCHANGED routingVars BY <1>1 DEF ChainExhausted
<1>3. /\ n \in RequestType /\ n.at = "exhausted" /\ n.number = q.number /\ n.calls = q.calls
      /\ n.published = q.published /\ n.rule = q.rule /\ n.ruleCalls = q.ruleCalls
      /\ SameFree(n, q)
  BY <1>1 DEF RequestType, Places, EndPlaces, SameFree
<1> HIDE DEF n, q
<1>4. Sane(n) BY <1>1, <1>3 DEF Sane, Typed, OneShot, Bounded, Working, Shown
<1>5. Within(q) => Within(n) BY <1>1, <1>3 DEF Within, OneMore, Free, SameFree
<1>6. n.at \in Holding <=> q.at \in Holding BY <1>1, <1>3 DEF Holding
<1> QED BY <1>2, <1>4, <1>5, <1>6, MovesAlone DEF Kept, q

\* A rule begins with its own retries and nothing switched or called.
LEMMA NextRuleFields ==
    ASSUME NEW q \in RequestType, q.chain # <<>>
    PROVE  LET n == NextRule(q)
           IN  /\ n \in RequestType /\ n.rule \in Rules /\ n.left = RetryCount[n.rule]
               /\ n.sub = 0 /\ n.switches = 0 /\ n.ruleCalls = 0
               /\ n.at = q.at /\ n.number = q.number /\ n.calls = q.calls
               /\ n.published = q.published
               /\ n.over = IF q.over = "now" THEN "used" ELSE q.over
<1> DEFINE over == IF q.over = "now" THEN "used" ELSE q.over
           rest == Tail(q.chain)
           head == Head(q.chain)
           left == RetryCount[head]
           n == [q EXCEPT !.rule = head, !.chain = rest, !.left = left, !.sub = 0,
                          !.switches = 0, !.ruleCalls = 0, !.over = over]
<1>1. q.chain \in Seq(Rules) BY DEF RequestType
<1>2. head \in Rules /\ rest \in Seq(Rules) BY <1>1, HeadTailProperties
<1>3. left \in Nat BY <1>2, RuleTypes
<1>4. over \in {"no", "now", "used"} BY DEF RequestType
<1>5. NextRule(q) = n BY DEF NextRule
<1> HIDE DEF over, rest, head, left
<1>6. /\ n \in RequestType /\ n.rule = head /\ n.left = left
      /\ n.sub = 0 /\ n.switches = 0 /\ n.ruleCalls = 0
      /\ n.at = q.at /\ n.number = q.number /\ n.calls = q.calls /\ n.published = q.published
      /\ n.over = over
  BY <1>2, <1>3, <1>4 DEF RequestType
<1> HIDE DEF n
<1> QED BY <1>2, <1>5, <1>6 DEF left, over

\* A rule is rejected before its first call.
LEMMA RejectedKept == ASSUME DispatchInv, NEW c \in Callers, RuleRejected(c) PROVE Kept
<1> DEFINE q == req[c]
<1>1. q \in RequestType /\ Sane(q) /\ req \in [Callers -> RequestType] BY DEF DispatchInv
<1>2. PICK w \in {q, NextRule(q)} :
         /\ req' = [req EXCEPT ![c] = RuleFails(Counted(w), FALSE)]
         /\ w \in RequestType /\ w.published = 0 /\ w.number = q.number /\ w.calls = q.calls
         /\ w.rule # NoRule => w.ruleCalls <= CallLimit(w.rule)
         /\ q.at \in {"chain", "auth"}
         /\ SameFree(w, q) \/ w.over = "used" \/ ~ BudgetExhausted(q)
  <2>1. CASE MayBegin(q) /\ req' = [req EXCEPT ![c] = RuleFails(Counted(NextRule(@)), FALSE)]
    <3> DEFINE w == NextRule(q)
    <3>1. q.chain # <<>> /\ q.at = "chain" BY <2>1 DEF MayBegin
    <3>2. /\ w \in RequestType /\ w.rule \in Rules /\ w.ruleCalls = 0
          /\ w.number = q.number /\ w.calls = q.calls /\ w.published = q.published
          /\ w.over = "used" \/ ~ BudgetExhausted(q)
      BY <1>1, <2>1, <3>1, NextRuleFields DEF MayBegin
    <3>3. q.published = 0 BY <1>1, <3>1 DEF Sane, OneShot, Shown, RequestType
    <3>4. req' = [req EXCEPT ![c] = RuleFails(Counted(w), FALSE)] BY <2>1
    <3> HIDE DEF w
    <3>5. CallLimit(w.rule) \in Nat BY <3>2, CostStep
    <3>6. /\ w.rule # NoRule => w.ruleCalls <= CallLimit(w.rule)
          /\ w.published = 0
      BY <3>2, <3>3, <3>5
    <3> QED BY <3>1, <3>2, <3>4, <3>6 DEF w
  <2>2. CASE q.at = "auth" /\ req' = [req EXCEPT ![c] = RuleFails(Counted(@), FALSE)]
    <3>1. req' = [req EXCEPT ![c] = RuleFails(Counted(q), FALSE)] BY <2>2
    <3>2. q.published = 0 BY <1>1, <2>2 DEF Sane, OneShot, Shown, RequestType
    <3>3. q.rule # NoRule => q.ruleCalls <= CallLimit(q.rule) BY <1>1 DEF Sane, Bounded
    <3> QED BY <1>1, <2>2, <3>1, <3>2, <3>3 DEF SameFree
  <2> QED BY <2>1, <2>2 DEF RuleRejected
<1> DEFINE n == RuleFails(Counted(w), FALSE)
<1>3. /\ Counted(w) \in RequestType /\ Counted(w).published = 0 /\ Counted(w).calls = q.calls
      /\ SameFree(Counted(w), w)
      /\ Counted(w).rule # NoRule => Counted(w).ruleCalls <= CallLimit(Counted(w).rule)
  BY <1>2, CountedFields DEF SameFree
<1>4. /\ Sane(n) /\ n.at = "chain" /\ n.number = Counted(w).number /\ n.calls = q.calls
      /\ SameFree(n, w)
  BY <1>3, RuleFailsSane DEF SameFree
<1>5. req' = [req EXCEPT ![c] = n] /\ UNCHANGED routingVars BY <1>2 DEF RuleRejected
<1> HIDE DEF n, q
<1>6. Within(q) => Within(n)
  <2>1. SUFFICES ASSUME Within(q), MaxTotal # 0 PROVE Within(n)
    BY DEF Within
  <2>2. /\ q.number \in 1 .. MaxTotal + 1 /\ q.calls <= q.number
        /\ q.calls = q.number => q.number = MaxTotal + 1
        /\ q.calls = MaxTotal + 1 => OneMore(q)
    BY <1>2, <2>1 DEF Within
  <2>3. Counted(w).number \in 1 .. MaxTotal + 1 /\ Counted(w).number >= q.number
    BY <1>2, <2>1, <2>2, CountedNumber
  <2>4. q.calls \in Nat /\ q.number \in Nat /\ MaxTotal \in Nat BY <1>1, RuleTypes DEF RequestType
  <2>5. n.calls = MaxTotal + 1 => OneMore(n)
    <3>1. q.calls = MaxTotal + 1 => BudgetExhausted(q) BY <2>1, <2>2, <2>4 DEF BudgetExhausted
    <3> QED BY <1>2, <1>4, <2>2, <3>1 DEF OneMore, SameFree
  <2>6. n.calls <= n.number /\ (n.calls = n.number => n.number = MaxTotal + 1)
    BY <1>4, <2>2, <2>3, <2>4
  <2> QED BY <1>4, <2>3, <2>5, <2>6 DEF Within
<1>7. n.at \in Holding <=> q.at \in Holding BY <1>2, <1>4 DEF Holding
<1> QED BY <1>4, <1>5, <1>6, <1>7, MovesAlone DEF Kept, q

\* A rule begins: a key is chosen, or none is available.
LEMMA BeginKept == ASSUME DispatchInv, NEW c \in Callers, BeginRule(c) PROVE Kept
<1> DEFINE q == req[c]
           begun == NextRule(q)
           keys == Available(route, ModelOf[begun.rule])
           busy == OnlyBusy(route, ModelOf[begun.rule])
           w == IF busy THEN begun ELSE Counted(begun)
<1>1. q \in RequestType /\ Sane(q) /\ req \in [Callers -> RequestType] BY DEF DispatchInv
<1>2. q.at = "chain" /\ q.chain # <<>> BY DEF BeginRule, MayBegin
<1>3. /\ begun \in RequestType /\ begun.rule \in Rules /\ begun.left = RetryCount[begun.rule]
      /\ begun.sub = 0 /\ begun.switches = 0 /\ begun.ruleCalls = 0
      /\ begun.number = q.number /\ begun.calls = q.calls /\ begun.published = q.published
      /\ begun.over = "used" \/ ~ BudgetExhausted(q)
  BY <1>1, <1>2, NextRuleFields DEF BeginRule, MayBegin
<1>4. q.published = 0 /\ q.calls \in Nat /\ q.number \in Nat /\ MaxTotal \in Nat
  BY <1>1, <1>2, RuleTypes DEF Sane, OneShot, Shown, RequestType
<1>5. keys \subseteq Keys BY DEF Available
<1>6. /\ UNCHANGED routingVars
      /\ \/ \E k \in keys : req' = [req EXCEPT ![c] = [begun EXCEPT !.at = "auth", !.key = k]]
         \/ req' = [req EXCEPT ![c] = RuleFails(w, FALSE)]
  BY DEF BeginRule
<1> HIDE DEF q, begun, keys, busy
<1>7. ASSUME NEW k \in keys, req' = [req EXCEPT ![c] = [begun EXCEPT !.at = "auth", !.key = k]]
      PROVE  Kept
  <2> DEFINE n == [begun EXCEPT !.at = "auth", !.key = k]
  <2>1. k \in Keys BY <1>5
  <2>2. /\ n \in RequestType /\ n.at = "auth" /\ n.key = k /\ n.rule = begun.rule
        /\ n.left = begun.left /\ n.sub = begun.sub /\ n.switches = begun.switches
        /\ n.ruleCalls = begun.ruleCalls
        /\ n.number = q.number /\ n.calls = q.calls /\ n.published = 0
        /\ n.over = begun.over
    BY <1>3, <1>4, <2>1 DEF RequestType, Places, Awaits
  <2>3. req' = [req EXCEPT ![c] = n] BY <1>7
  <2> HIDE DEF n
  <2>4. CallLimit(n.rule) \in Nat BY <1>3, <2>2, CostStep
  <2>5. Sane(n)
    BY <1>3, <2>1, <2>2, <2>4 DEF Sane, Typed, OneShot, Bounded, Shown
  <2>6. Within(q) => Within(n)
    <3>1. MaxTotal # 0 /\ q.calls = MaxTotal + 1 /\ q.calls <= q.number => BudgetExhausted(q)
      BY <1>4 DEF BudgetExhausted
    <3> QED BY <1>2, <1>3, <1>4, <2>2, <3>1 DEF Within, OneMore
  <2>7. n.at \in Holding <=> q.at \in Holding BY <1>2, <2>2 DEF Holding
  <2> QED BY <1>6, <2>3, <2>5, <2>6, <2>7, MovesAlone DEF Kept, q
<1>8. ASSUME req' = [req EXCEPT ![c] = RuleFails(w, FALSE)] PROVE Kept
  <2> DEFINE n == RuleFails(w, FALSE)
  <2>1. CallLimit(begun.rule) \in Nat BY <1>3, CostStep
  <2>2. /\ w \in RequestType /\ w.published = 0 /\ w.calls = q.calls /\ w.over = begun.over
        /\ w.rule # NoRule => w.ruleCalls <= CallLimit(w.rule)
    <3>1. CASE busy BY <1>3, <1>4, <2>1, <3>1
    <3>2. CASE ~ busy BY <1>3, <1>4, <2>1, <3>2, CountedFields
    <3> QED BY <3>1, <3>2
  <2>3. Within(q) /\ MaxTotal # 0 => w.number \in 1 .. MaxTotal + 1 /\ w.number >= q.number
    <3>1. CASE busy BY <1>3, <1>4, <3>1 DEF Within
    <3>2. CASE ~ busy BY <1>3, <1>4, <3>2, CountedNumber DEF Within
    <3> QED BY <3>1, <3>2
  <2> HIDE DEF w
  <2>4. Sane(n) /\ n.at = "chain" /\ n.number = w.number /\ n.calls = q.calls /\ n.over = begun.over
    BY <2>2, RuleFailsSane
  <2>5. req' = [req EXCEPT ![c] = n] BY <1>8
  <2> HIDE DEF n
  <2>6. Within(q) => Within(n)
    <3>1. SUFFICES ASSUME Within(q), MaxTotal # 0 PROVE Within(n) BY DEF Within
    <3>2. q.calls <= q.number /\ (q.calls = q.number => q.number = MaxTotal + 1)
      BY <1>2, <3>1 DEF Within
    <3>3. q.calls = MaxTotal + 1 => BudgetExhausted(q)
      BY <1>4, <3>1, <3>2 DEF BudgetExhausted
    <3>4. n.calls = MaxTotal + 1 => OneMore(n) BY <1>3, <2>4, <3>3 DEF OneMore
    <3>5. w.number \in 1 .. MaxTotal + 1 /\ w.number >= q.number BY <2>3, <3>1
    <3>6. n.calls <= n.number /\ (n.calls = n.number => n.number = MaxTotal + 1)
      BY <1>4, <2>4, <3>2, <3>5
    <3> QED BY <2>4, <3>4, <3>5, <3>6 DEF Within
  <2>7. n.at \in Holding <=> q.at \in Holding BY <1>2, <2>4 DEF Holding
  <2> QED BY <1>6, <2>4, <2>5, <2>6, <2>7, MovesAlone DEF Kept, q
<1> QED BY <1>6, <1>7, <1>8

\* What is known of a request on its way to a call or in it.
LEMMA ReadyAt ==
    ASSUME NEW q, Sane(q), q.at \in {"acquire", "reauth", "switch", "call"}
    PROVE  /\ Ready(q)
           /\ q.at # "call" => q.ruleCalls + Spare(q) + Rest(q) <= CallLimit(q.rule)
           /\ q.at = "call" => q.ruleCalls + Spare(q) + Rest(q) <= CallLimit(q.rule) + 1
<1>1. q \in RequestType /\ q.rule \in Rules /\ q.key \in Keys BY DEF Sane, Typed, Working
<1>2. q.published = 0 BY <1>1 DEF Sane, OneShot, Shown, RequestType
<1> QED BY <1>1, <1>2 DEF Sane, Bounded, Ready

\* A rule is given up without counting an attempt.
LEMMA GivenUpKept ==
    ASSUME DispatchInv, NEW c \in Callers, req[c].at \notin Holding, req[c].at \notin Shown,
           req[c].at # "aborted", UNCHANGED routingVars,
           req' = [req EXCEPT ![c] = RuleFails(req[c], FALSE)]
    PROVE  Kept
<1> DEFINE q == req[c]
           n == RuleFails(q, FALSE)
<1>1. q \in RequestType /\ Sane(q) BY DEF DispatchInv
<1>2. q.published = 0 /\ (q.rule # NoRule => q.ruleCalls <= CallLimit(q.rule))
  BY <1>1 DEF Sane, OneShot, Bounded, RequestType
<1>3. /\ Sane(n) /\ n.at = "chain" /\ n.number = q.number /\ n.calls = q.calls
      /\ SameFree(n, q)
  BY <1>1, <1>2, RuleFailsSane DEF SameFree
<1> HIDE DEF n
<1>4. Within(q) => Within(n) BY <1>3 DEF Within, Holding, OneMore, SameFree
<1>5. n.at \in Holding <=> q.at \in Holding BY <1>3 DEF Holding
<1>6. req' = [req EXCEPT ![c] = n] BY DEF n
<1> QED BY <1>3, <1>4, <1>5, <1>6, MovesAlone DEF Kept

\* The credentials of a key have come.
LEMMA AuthorizedKept == ASSUME DispatchInv, NEW c \in Callers, Authorized(c) PROVE Kept
<1> DEFINE q == req[c]
<1>1. q \in RequestType /\ Sane(q) /\ UNCHANGED routingVars BY DEF DispatchInv, Authorized
<1>2. CASE q.at = "auth"
  <2> DEFINE refused == ModelOf[q.rule] \in route.unforced
             n == [q EXCEPT !.at = "loop", !.downgraded = refused]
  <2>1. req' = [req EXCEPT ![c] = n] BY <1>2 DEF Authorized
  <2>2. refused \in BOOLEAN OBVIOUS
  <2>3. q.rule \in Rules /\ q.key \in Keys /\ q.published = 0
    BY <1>1, <1>2 DEF Sane, Typed, OneShot, Working, Shown, RequestType
  <2>4. q.sub = 0 /\ q.switches = 0 /\ q.left = RetryCount[q.rule] /\ q.ruleCalls = 0
    BY <1>1, <1>2 DEF Sane, Bounded
  <2> HIDE DEF refused, q
  <2>5. /\ n \in RequestType /\ n.at = "loop" /\ n.number = q.number /\ n.calls = q.calls
        /\ n.over = q.over /\ n.rule = q.rule /\ n.key = q.key /\ n.left = q.left /\ n.sub = q.sub
        /\ n.switches = q.switches /\ n.downgraded = refused
        /\ n.ruleCalls = q.ruleCalls /\ n.published = q.published
    BY <1>1, <2>2 DEF RequestType, Places, SyncPlaces
  <2> HIDE DEF n
  <2>6. /\ Cardinality(Keys) \in Nat /\ Variants(q.rule) \in Nat
        /\ Cost(q.rule, RetryCount[q.rule]) \in Nat /\ CallLimit(q.rule) \in Nat
    BY <2>3, RuleTypes, CostStep
  <2>7. n.ruleCalls + Spare(n) + Variants(n.rule) <= CallLimit(n.rule)
    BY <2>4, <2>5, <2>6 DEF Spare, CallLimit
  <2>8. Sane(n)
    BY <2>3, <2>4, <2>5, <2>6, <2>7 DEF Sane, Typed, OneShot, Bounded, Shown
  <2>9. Within(q) => Within(n) BY <1>2, <2>4, <2>5 DEF Within, OneMore
  <2>10. n.at \in Holding <=> q.at \in Holding BY <1>2, <2>5 DEF Holding
  <2> QED BY <1>1, <2>1, <2>8, <2>9, <2>10, MovesAlone DEF Kept, q
<1>3. CASE q.at = "reauth"
  <2>1. CASE q.tries > 0
    <3> DEFINE n == [q EXCEPT !.at = "acquire"]
    <3>1. req' = [req EXCEPT ![c] = n] BY <1>3, <2>1 DEF Authorized
    <3>2. /\ Ready(q) /\ q.ruleCalls + Spare(q) + Rest(q) <= CallLimit(q.rule)
      BY <1>1, <1>3, ReadyAt
    <3>0. q.tries # 0 BY <2>1
    <3> HIDE DEF q
    <3>3. /\ n \in RequestType /\ n.at = "acquire" /\ n.number = q.number /\ n.calls = q.calls
          /\ n.tries = q.tries /\ n.over = q.over
          /\ n.rule = q.rule /\ n.key = q.key /\ n.left = q.left /\ n.sub = q.sub
          /\ n.switches = q.switches /\ n.downgraded = q.downgraded
          /\ n.ruleCalls = q.ruleCalls /\ n.published = q.published
      BY <1>1 DEF RequestType, Places, SyncPlaces
    <3> HIDE DEF n
    <3>4. Spare(n) = Spare(q) /\ Rest(n) = Rest(q) BY <3>3 DEF Spare, Rest
    <3>5. Bounded(n) BY <3>0, <3>2, <3>3, <3>4, ReadyTypes DEF Bounded, Ready, Positioned
    <3>6. Sane(n) BY <3>2, <3>3, <3>5 DEF Sane, Typed, OneShot, Ready, Shown
    <3>7. Within(q) => Within(n) BY <1>3, <3>3 DEF Within, OneMore, Free
    <3>8. n.at \in Holding <=> q.at \in Holding BY <1>3, <3>3 DEF Holding
    <3> QED BY <1>1, <3>1, <3>6, <3>7, <3>8, MovesAlone DEF Kept, q
  <2>2. CASE ~ (q.tries > 0)
    <3>1. req' = [req EXCEPT ![c] = RuleFails(req[c], FALSE)] BY <1>3, <2>2 DEF Authorized
    <3> QED BY <1>1, <1>3, <3>1, GivenUpKept DEF Holding, Shown
  <2> QED BY <2>1, <2>2
<1>4. CASE q.at = "switch"
  <2> DEFINE n == Again(q)
  <2>1. req' = [req EXCEPT ![c] = n] BY <1>4 DEF Authorized
  <2>2. /\ Ready(q) /\ q.ruleCalls + Spare(q) + Rest(q) <= CallLimit(q.rule)
    BY <1>1, <1>4, ReadyAt
  <2>3. /\ Sane(n) /\ n.at \in {"loop", "acquire"} /\ (n.at = "acquire" <=> q.sub # 0)
        /\ n.number = q.number /\ n.calls = q.calls /\ SameFree(n, q)
    BY <2>2, AgainSane DEF SameFree
  <2> HIDE DEF n, q
  <2>4. Within(q) => Within(n)
    <3>1. q.sub \in Nat /\ MaxTotal \in Nat BY <2>2, ReadyTypes, RuleTypes
    <3> QED BY <1>4, <2>3, <3>1 DEF Within, OneMore, SameFree
  <2>5. n.at \in Holding <=> q.at \in Holding BY <1>4, <2>3 DEF Holding
  <2> QED BY <1>1, <2>1, <2>3, <2>4, <2>5, MovesAlone DEF Kept, q
<1> QED BY <1>2, <1>3, <1>4 DEF Authorized

\* The head of the retry loop.
LEMMA RetryLoopKept == ASSUME DispatchInv, NEW c \in Callers, RetryLoop(c) PROVE Kept
<1> DEFINE q == req[c]
<1>1. q \in RequestType /\ Sane(q) /\ UNCHANGED routingVars /\ q.at = "loop"
  BY DEF DispatchInv, RetryLoop
<1>2. CASE BudgetExhausted(q)
  <2>1. req' = [req EXCEPT ![c] = RuleFails(req[c], FALSE)] BY <1>2 DEF RetryLoop
  <2> QED BY <1>1, <2>1, GivenUpKept DEF Holding, Shown
<1>3. CASE ~ BudgetExhausted(q)
  <2> DEFINE sub == IF Subproviders[q.rule] > 0 THEN 1 ELSE 0
             n == [q EXCEPT !.at = "acquire", !.tries = Cardinality(Keys), !.sub = sub]
  <2>1. req' = [req EXCEPT ![c] = n] BY <1>3 DEF RetryLoop
  <2>2. q.rule \in Rules /\ q.key \in Keys /\ q.published = 0
    BY <1>1 DEF Sane, Typed, OneShot, Working, Shown, RequestType
  <2>3. /\ q.sub = 0 /\ q.switches <= Cardinality(Keys)
        /\ q.ruleCalls + Spare(q) + Variants(q.rule) <= CallLimit(q.rule)
        /\ q.ruleCalls <= CallLimit(q.rule)
    BY <1>1, <2>2, RuleTypes DEF Sane, Bounded
  <2>4. /\ Subproviders[q.rule] \in Nat /\ Variants(q.rule) \in Nat /\ Cardinality(Keys) \in Nat
        /\ (Subproviders[q.rule] = 0 => Variants(q.rule) = 1)
        /\ (Subproviders[q.rule] # 0 => Variants(q.rule) = Subproviders[q.rule])
    BY <2>2, RuleTypes
  <2>5. sub \in Nat /\ sub <= Subproviders[q.rule] /\ (sub = 0 <=> Subproviders[q.rule] = 0)
    BY <2>4
  <2>6. (IF sub = 0 THEN 1 ELSE Subproviders[q.rule] - sub + 1) = Variants(q.rule)
    BY <2>4
  <2> HIDE DEF sub, q
  <2>7. /\ n \in RequestType /\ n.at = "acquire" /\ n.number = q.number /\ n.calls = q.calls
        /\ n.tries = Cardinality(Keys)
        /\ n.rule = q.rule /\ n.key = q.key /\ n.left = q.left /\ n.sub = sub
        /\ n.switches = q.switches /\ n.downgraded = q.downgraded /\ n.over = q.over
        /\ n.ruleCalls = q.ruleCalls /\ n.published = q.published
    BY <1>1, <2>4, <2>5 DEF RequestType, Places, SyncPlaces
  <2> HIDE DEF n
  <2>8. Spare(n) = Spare(q) /\ Rest(n) = Variants(q.rule) BY <2>6, <2>7 DEF Spare, Rest
  <2>9. Bounded(n) BY <2>2, <2>3, <2>5, <2>7, <2>8, KeysCounted DEF Bounded, Positioned
  <2>10. Sane(n) BY <2>2, <2>7, <2>9 DEF Sane, Typed, OneShot, Shown
  <2>11. Within(q) => Within(n)
    <3>1. MaxTotal # 0 => q.number <= MaxTotal
      BY <1>1, <1>3, RuleTypes DEF BudgetExhausted, RequestType
    <3>2. q.number \in Nat /\ q.calls \in Nat /\ MaxTotal \in Nat
      BY <1>1, RuleTypes DEF RequestType
    <3> QED BY <1>1, <2>7, <3>1, <3>2 DEF Within
  <2>12. n.at \in Holding <=> q.at \in Holding BY <1>1, <2>7 DEF Holding
  <2> QED BY <1>1, <2>1, <2>10, <2>11, <2>12, MovesAlone DEF Kept, q
<1> QED BY <1>2, <1>3

\* The retry delay is over.
LEMMA SleepKept == ASSUME DispatchInv, NEW c \in Callers, SleepEnds(c) PROVE Kept
<1> DEFINE q == req[c]
           n == [q EXCEPT !.at = "loop"]
<1>1. /\ q \in RequestType /\ Sane(q) /\ UNCHANGED routingVars /\ q.at = "sleep"
      /\ req \in [Callers -> RequestType]
  BY DEF DispatchInv, SleepEnds
<1>2. req' = [req EXCEPT ![c] = n] BY <1>1 DEF SleepEnds
<1> HIDE DEF q
<1>3. /\ n \in RequestType /\ n.at = "loop" /\ n.number = q.number /\ n.calls = q.calls
      /\ n.rule = q.rule /\ n.key = q.key /\ n.left = q.left /\ n.sub = q.sub
      /\ n.switches = q.switches /\ n.downgraded = q.downgraded /\ n.over = q.over
      /\ n.ruleCalls = q.ruleCalls /\ n.published = q.published
  BY <1>1 DEF RequestType, Places, SyncPlaces
<1> HIDE DEF n
<1>4. Spare(n) = Spare(q) BY <1>3 DEF Spare
<1>5. Sane(n) BY <1>1, <1>3, <1>4 DEF Sane, Typed, OneShot, Bounded, Working, Shown
<1>6. Within(q) => Within(n) BY <1>1, <1>3 DEF Within, OneMore
<1>7. n.at \in Holding <=> q.at \in Holding BY <1>1, <1>3 DEF Holding
<1> QED BY <1>1, <1>2, <1>5, <1>6, <1>7, MovesAlone DEF Kept, q

\* The slot went to another request.
LEMMA SlotLostKept == ASSUME DispatchInv, NEW c \in Callers, SlotLost(c) PROVE Kept
<1> DEFINE q == req[c]
           keys == Available(route, ModelOf[q.rule])
<1>1. q \in RequestType /\ Sane(q) /\ UNCHANGED routingVars /\ q.at = "acquire"
  BY DEF DispatchInv, SlotLost
<1>2. CASE req' = [req EXCEPT ![c] = RuleFails(q, FALSE)]
  BY <1>1, <1>2, GivenUpKept DEF Holding, Shown
<1>3. ASSUME NEW k \in keys,
             req' = [req EXCEPT ![c] = [q EXCEPT !.at = "reauth", !.key = k, !.tries = @ - 1]]
      PROVE  Kept
  <2> DEFINE n == [q EXCEPT !.at = "reauth", !.key = k, !.tries = @ - 1]
  <2>1. req' = [req EXCEPT ![c] = n] /\ k \in Keys BY <1>3 DEF Available
  <2>2. /\ Ready(q) /\ q.ruleCalls + Spare(q) + Rest(q) <= CallLimit(q.rule)
    BY <1>1, ReadyAt
  <2>3. q.tries - 1 \in Nat BY <1>1 DEF Sane, Bounded, RequestType
  <2> HIDE DEF q
  <2>4. /\ n \in RequestType /\ n.at = "reauth" /\ n.number = q.number /\ n.calls = q.calls
        /\ n.rule = q.rule /\ n.key = k /\ n.left = q.left /\ n.sub = q.sub
        /\ n.switches = q.switches /\ n.downgraded = q.downgraded /\ n.over = q.over
        /\ n.ruleCalls = q.ruleCalls /\ n.published = q.published
    BY <1>1, <2>1, <2>3 DEF RequestType, Places, Awaits
  <2> HIDE DEF n
  <2>5. Spare(n) = Spare(q) /\ Rest(n) = Rest(q) BY <2>4 DEF Spare, Rest
  <2>6. Bounded(n) BY <2>2, <2>4, <2>5, ReadyTypes DEF Bounded, Ready, Positioned
  <2>7. Sane(n) BY <2>1, <2>2, <2>4, <2>6 DEF Sane, Typed, OneShot, Ready, Shown
  <2>8. Within(q) => Within(n) BY <1>1, <2>4 DEF Within, OneMore, Free
  <2>9. n.at \in Holding <=> q.at \in Holding BY <1>1, <2>4 DEF Holding
  <2> QED BY <1>1, <2>1, <2>7, <2>8, <2>9, MovesAlone DEF Kept, q
<1> QED BY <1>2, <1>3 DEF SlotLost

---------------------------------------------------------------------------
(* The actions that call upstream.                                         *)

\* A reading in a response header.
LEMMA ObservedSound ==
    ASSUME NEW rt, Sound(rt, now), NEW r \in Refs, NEW reading
    PROVE  Sound(Observed(rt, r, reading), now) /\ Observed(rt, r, reading).active = rt.active
<1>1. now + 1 \in Nat /\ 0 \in Nat BY DEF Sound
<1>2. CASE reading = "zero"
  <2>1. Observed(rt, r, reading) = ObserveRemaining(rt, r, now + 1) BY <1>2 DEF Observed
  <2> QED BY <1>1, <2>1, ObserveSound
<1>3. CASE reading = "some"
  <2>1. Observed(rt, r, reading) = ObserveRemaining(rt, r, 0) BY <1>3 DEF Observed
  <2> QED BY <1>1, <2>1, ObserveSound
<1>4. CASE reading \notin {"zero", "some"}
  <2>1. Observed(rt, r, reading) = rt BY <1>4 DEF Observed
  <2> QED BY <2>1
<1> QED BY <1>2, <1>3, <1>4

\* A request lets its slot go.
LEMMA LetGoKept ==
    ASSUME DispatchInv, NEW c \in Callers, lease[c] # NoKey, LetGo(c),
           Sound(route', now), route'.active = Freed(c).active,
           NEW n, Sane(n), n.at \notin Holding, req' = [req EXCEPT ![c] = n],
           Within(req[c]) => Within(n)
    PROVE  Kept
<1>1. /\ lease' = [lease EXCEPT ![c] = NoKey] /\ calling' = [calling EXCEPT ![c] = NoCall]
      /\ now' = now /\ RoutingInv
  BY DEF LetGo, DispatchInv
<1>2. RoutingInv' BY <1>1, ReturnStep
<1>3. lease \in [Callers -> Keys \cup {NoKey}] BY <1>1 DEF RoutingInv, LeasesOK
<1>4. lease'[c] = NoKey /\ \A d \in Callers : d # c => lease'[d] = lease[d] BY <1>1, <1>3
<1> QED BY <1>2, <1>4, Moves DEF Kept

\* A request keeps its slot, and no slot moves.
LEMMA HeldKept ==
    ASSUME DispatchInv, NEW c \in Callers, UNCHANGED <<now, lease, calling>>,
           Sound(route', now), route'.active = route.active,
           NEW n, Sane(n), n.at \in Holding <=> req[c].at \in Holding,
           req' = [req EXCEPT ![c] = n], Within(req[c]) => Within(n)
    PROVE  Kept
<1>1. RoutingInv' BY KeepStep DEF DispatchInv
<1>2. lease'[c] # NoKey <=> n.at \in Holding BY DEF DispatchInv
<1> QED BY <1>1, <1>2, Moves DEF Kept

\* An attempt starts, or a pause or the shared quota refuses it.
LEMMA StartKept == ASSUME DispatchInv, NEW c \in Callers, StartAttempt(c) PROVE Kept
<1> DEFINE q == req[c]
           m == ModelOf[q.rule]
           k == q.key
<1>1. q \in RequestType /\ Sane(q) /\ q.at = "acquire" /\ now' = now /\ ~ KeyBusy(route, k)
  BY DEF DispatchInv, StartAttempt
<1>2. Ready(q) /\ q.ruleCalls + Spare(q) + Rest(q) <= CallLimit(q.rule) BY <1>1, ReadyAt
<1>3. k \in Keys /\ m \in Models /\ q.published = 0 BY <1>2, RuleTypes DEF Ready
<1>4. RoutingInv /\ Sound(route, now) /\ lease[c] = NoKey
  BY <1>1 DEF DispatchInv, RoutingInv, Holding
<1>5. CASE StartRefused(route, m, k)
  <2> DEFINE n == RuleFails(Counted(q), FALSE)
  <2>1. req' = [req EXCEPT ![c] = n] /\ UNCHANGED <<now, lease, calling>> /\ route' = route
    BY <1>1, <1>5 DEF StartAttempt
  <2>2. /\ Counted(q) \in RequestType /\ Counted(q).published = 0
        /\ Counted(q).rule # NoRule => Counted(q).ruleCalls <= CallLimit(Counted(q).rule)
        /\ Counted(q).calls = q.calls /\ SameFree(Counted(q), q)
    BY <1>1, <1>2, <1>3, CountedFields, ReadyTypes DEF SameFree
  <2>3. /\ Sane(n) /\ n.at = "chain" /\ n.number = Counted(q).number /\ n.calls = q.calls
        /\ SameFree(n, q)
    BY <2>2, RuleFailsSane DEF SameFree
  <2> HIDE DEF n, q
  <2>4. Within(q) => Within(n)
    <3>1. SUFFICES ASSUME Within(q), MaxTotal # 0 PROVE Within(n)
      BY DEF Within
    <3>2. q.number \in 1 .. MaxTotal + 1 /\ q.calls <= q.number /\ q.calls # q.number
      BY <1>1, <3>1 DEF Within
    <3>3. Counted(q).number \in 1 .. MaxTotal + 1 /\ Counted(q).number >= q.number
      BY <1>1, <3>1, <3>2, CountedNumber
    <3>4. q.number \in Nat /\ q.calls \in Nat /\ MaxTotal \in Nat BY <1>2, ReadyTypes, RuleTypes
    <3>5. n.calls < n.number /\ n.calls # MaxTotal + 1 BY <2>3, <3>2, <3>3, <3>4
    <3>6. n.calls <= n.number /\ n.calls # n.number BY <2>3, <3>2, <3>3, <3>4
    <3> QED BY <2>3, <3>3, <3>5, <3>6 DEF Within
  <2>5. n.at \in Holding <=> q.at \in Holding BY <1>1, <2>3 DEF Holding
  <2> QED BY <1>4, <2>1, <2>3, <2>4, <2>5, HeldKept DEF q
<1>6. CASE ~ StartRefused(route, m, k)
  <2> DEFINE n == [q EXCEPT !.at = "call", !.tries = 0, !.calls = @ + 1, !.ruleCalls = @ + 1]
             held == AcquireConcurrency(route, k)
  <2>1. /\ req' = [req EXCEPT ![c] = n] /\ route' = RecordAttemptStart(held, m, k)
        /\ lease' = [lease EXCEPT ![c] = k] /\ calling' = [calling EXCEPT ![c] = <<m, k>>]
    BY <1>6 DEF StartAttempt
  <2>2. Sound(held, now) /\ held.active = [route.active EXCEPT ![k] = @ + 1]
    BY <1>3, <1>4, AcquireSound
  <2>3. ~ KeyQuotaBlocks(held, k)
    BY <1>4, <1>6 DEF StartRefused, KeyQuotaBlocks, KeyStarts, AcquireConcurrency, Sound, RouteType
  <2> HIDE DEF held, q, k, m
  <2>4. Sound(route', now') /\ route'.active = held.active
    BY <1>1, <1>3, <2>1, <2>2, <2>3, RecordStartSound
  <2>5. RoutingInv' BY <1>1, <1>3, <1>4, <2>1, <2>2, <2>4, TakeStep
  <2>6. q.calls + 1 \in Nat /\ q.ruleCalls + 1 \in Nat BY <1>2, ReadyTypes
  <2>7. /\ n \in RequestType /\ n.at = "call" /\ n.number = q.number /\ n.calls = q.calls + 1
        /\ n.rule = q.rule /\ n.key = q.key /\ n.left = q.left /\ n.sub = q.sub
        /\ n.switches = q.switches /\ n.downgraded = q.downgraded /\ n.over = q.over
        /\ n.ruleCalls = q.ruleCalls + 1 /\ n.published = q.published
    BY <1>1, <2>6 DEF RequestType, Places, Awaits
  <2> HIDE DEF n
  <2>8. Spare(n) = Spare(q) /\ Rest(n) = Rest(q) BY <2>7 DEF Spare, Rest
  <2>9. Bounded(n) BY <1>2, <2>7, <2>8, ReadyTypes DEF Bounded, Ready, Positioned
  <2>10. Sane(n) BY <1>2, <1>3, <2>7, <2>9 DEF Sane, Typed, OneShot, Ready, Shown
  <2>11. Within(q) => Within(n)
    <3>1. SUFFICES ASSUME Within(q), MaxTotal # 0 PROVE Within(n)
      BY DEF Within
    <3>2. /\ q.number \in 1 .. MaxTotal + 1 /\ q.calls <= q.number /\ q.calls # q.number
          /\ q.number <= MaxTotal \/ Free(q)
      BY <1>1, <3>1 DEF Within
    <3>3. q.number \in Nat /\ q.calls \in Nat /\ MaxTotal \in Nat BY <1>2, ReadyTypes, RuleTypes
    <3>4. n.calls <= n.number BY <2>7, <3>2, <3>3
    <3>5. n.number <= MaxTotal \/ Free(n) BY <2>7, <3>2 DEF Free
    <3>6. n.calls = MaxTotal + 1 => OneMore(n)
      <4>1. ~ (n.number <= MaxTotal) => OneMore(n) BY <3>5 DEF Free, OneMore
      <4>2. n.calls = MaxTotal + 1 => ~ (n.number <= MaxTotal) BY <2>7, <3>2, <3>3, <3>4
      <4> QED BY <4>1, <4>2
    <3> QED BY <2>7, <3>2, <3>4, <3>5, <3>6 DEF Within
  <2>12. n.at \in Holding BY <2>7 DEF Holding
  <2>13. /\ lease'[c] # NoKey /\ \A d \in Callers : d # c => lease'[d] = lease[d]
    BY <1>3, <1>4, <2>1, RoutingConstants DEF RoutingInv, LeasesOK
  <2> QED BY <2>1, <2>5, <2>10, <2>11, <2>12, <2>13, Moves DEF Kept, q
<1> QED BY <1>5, <1>6

\* An attempt failed: the variables of the request after the failure is counted.
LEMMA FailedReady ==
    ASSUME NEW was, Sane(was), was.at \in {"call", "probe"}
    PROVE  LET q == Counted(was)
           IN  /\ q \in RequestType /\ q.published = 0 /\ q.rule \in Rules
               /\ q.ruleCalls <= CallLimit(q.rule)
               /\ was.at = "call" => Ready(q) /\ q.ruleCalls + Spare(q) + Rest(q) <= CallLimit(q.rule) + 1
               /\ SameFree(q, was)
               /\ Within(was) => Spent(q)
<1> DEFINE q == Counted(was)
<1>1. was \in RequestType /\ was.rule \in Rules /\ was.key \in Keys BY DEF Sane, Typed, Working
<1>2. /\ q \in RequestType
      /\ q.at = was.at /\ q.rule = was.rule /\ q.key = was.key /\ q.left = was.left
      /\ q.sub = was.sub /\ q.switches = was.switches /\ q.downgraded = was.downgraded
      /\ q.calls = was.calls /\ q.ruleCalls = was.ruleCalls /\ q.published = was.published
      /\ SameFree(q, was)
  BY <1>1, CountedFields DEF SameFree
<1>3. was.published = 0 BY <1>1 DEF Sane, OneShot, Shown, RequestType
<1>4. was.ruleCalls <= CallLimit(was.rule) BY <1>1, RuleTypes DEF Sane, Bounded
<1>5. ASSUME was.at = "call"
      PROVE  Ready(q) /\ q.ruleCalls + Spare(q) + Rest(q) <= CallLimit(q.rule) + 1
  <2>1. Ready(was) /\ was.ruleCalls + Spare(was) + Rest(was) <= CallLimit(was.rule) + 1
    BY <1>5, ReadyAt
  <2> HIDE DEF q
  <2>2. Spare(q) = Spare(was) /\ Rest(q) = Rest(was) BY <1>2 DEF Spare, Rest
  <2>3. Ready(q) BY <1>2, <2>1 DEF Ready, Positioned
  <2> QED BY <1>2, <2>1, <2>2, <2>3
<1>6. ASSUME Within(was) PROVE Spent(q)
  <2>1. SUFFICES ASSUME MaxTotal # 0 PROVE Spent(q) BY DEF Spent
  <2>2. /\ was.number \in 1 .. MaxTotal + 1 /\ (was.number <= MaxTotal \/ Free(was))
        /\ was.calls <= was.number /\ (was.calls = MaxTotal + 1 => OneMore(was))
    BY <1>6, <2>1 DEF Within
  <2>3. /\ q.number \in 1 .. MaxTotal + 1 /\ q.number >= was.number
        /\ was.number <= MaxTotal => q.number = was.number + 1
    BY <1>1, <2>1, <2>2, CountedNumber
  <2>4. was.calls \in Nat /\ was.number \in Nat /\ MaxTotal \in Nat BY <1>1, RuleTypes DEF RequestType
  <2> HIDE DEF q
  <2>5. q.calls <= q.number BY <1>2, <2>2, <2>3, <2>4
  <2>6. q.calls = q.number => q.number = MaxTotal + 1 /\ ~ (was.number <= MaxTotal)
    BY <1>2, <2>2, <2>3, <2>4
  <2>7. ~ (was.number <= MaxTotal) => Free(q) BY <1>2, <2>2 DEF Free, SameFree
  <2>8. q.calls = MaxTotal + 1 => OneMore(q) BY <1>2, <2>2 DEF OneMore, SameFree
  <2> QED BY <2>3, <2>5, <2>6, <2>7, <2>8 DEF Spent
<1> HIDE DEF q
<1> QED BY <1>1, <1>2, <1>3, <1>4, <1>5, <1>6 DEF q

\* What a failed attempt does next.
LEMMA FailureKept ==
    ASSUME DispatchInv, NEW c \in Callers, req[c].at \in {"call", "probe"},
           NEW rt, Sound(rt, now), rt.active = Freed(c).active,
           NEW kind, kind \in Failures \cup {"behavior"}, NEW floor \in Nat,
           req[c].at = "probe" => kind = "behavior",
           AttemptFails(c, req[c], rt, kind, floor)
    PROVE  Kept
<1> DEFINE was == req[c]
           r == calling[c]
           q == Counted(was)
           noted == RecordFailure(rt, r, kind, floor)
           downgrades == kind = "tool_choice" /\ ~ q.downgraded
           stops == kind = "overflow" /\ OverflowRule # NoRule /\ q.over = "no"
           mayswitch == /\ kind # "behavior" /\ ~ stops
                        /\ SwitchesLeft(q)
                        /\ q.sub = 0 \/ ~ BudgetExhausted(q)
           others(asks) == IF mayswitch /\ (asks \/ noted.zero[r] > now)
                           THEN Available(noted, r[1]) \ {q.key} ELSE {}
<1>1. /\ LetGo(c)
      /\ route' = IF downgrades THEN LearnUnforced(noted, r[1]) ELSE noted
  BY DEF AttemptFails
<1>2. PICK asks \in AsksSwitch(kind) :
        \/ downgrades /\ req' = [req EXCEPT ![c] = Again([q EXCEPT !.downgraded = TRUE])]
        \/ /\ ~ downgrades
           /\ \E k \in others(asks) :
                 req' = [req EXCEPT ![c] = [q EXCEPT !.at = "switch", !.key = k, !.switches = @ + 1]]
        \/ /\ ~ downgrades
           /\ req' = [req EXCEPT ![c] =
                        IF kind = "behavior" \/ stops THEN RuleFails(q, stops) ELSE NextAttempt(q)]
  BY DEF AttemptFails
<1>3. \A k \in others(asks) : k \in Keys /\ mayswitch BY DEF Available
<1>4. Sane(was) /\ lease[c] # NoKey /\ RoutingInv BY DEF DispatchInv, Holding
<1>5. r \in Refs BY <1>4, FreedSound
<1>6. Sound(noted, now) /\ noted.active = rt.active BY <1>5, FailureSound
<1>7. Sound(route', now) /\ route'.active = Freed(c).active
  <2>1. CASE downgrades
    <3>1. r[1] \in Models BY <1>5 DEF Refs
    <3> HIDE DEF noted, q
    <3> QED BY <1>1, <1>6, <2>1, <3>1, UnforcedSound
  <2>2. CASE ~ downgrades BY <1>1, <1>6, <2>2
  <2> QED BY <2>1, <2>2
<1>8. /\ q \in RequestType /\ q.published = 0 /\ q.rule \in Rules
      /\ q.ruleCalls <= CallLimit(q.rule)
      /\ was.at = "call" => Ready(q) /\ q.ruleCalls + Spare(q) + Rest(q) <= CallLimit(q.rule) + 1
      /\ Within(was) => Spent(q)
  BY <1>4, FailedReady
<1> HIDE DEF noted, q, r, was
<1>9. ASSUME NEW n, Sane(n), n.at \notin Holding, req' = [req EXCEPT ![c] = n],
             Within(was) => Within(n)
      PROVE  Kept
  BY <1>1, <1>4, <1>7, <1>9, LetGoKept DEF was
<1>10. MaxTotal \in Nat /\ q.number \in Nat /\ q.calls \in Nat
  BY <1>8, RuleTypes DEF RequestType
<1>11. CASE downgrades /\ req' = [req EXCEPT ![c] = Again([q EXCEPT !.downgraded = TRUE])]
  <2> DEFINE d == [q EXCEPT !.downgraded = TRUE]
             n == Again(d)
  <2>1. was.at = "call" BY <1>11 DEF was
  <2>2. Ready(q) /\ q.ruleCalls + Spare(q) + Rest(q) <= CallLimit(q.rule) + 1 BY <1>8, <2>1
  <2>3. /\ d \in RequestType /\ d.number = q.number /\ d.calls = q.calls
        /\ d.rule = q.rule /\ d.key = q.key /\ d.left = q.left /\ d.sub = q.sub
        /\ d.switches = q.switches /\ d.downgraded = TRUE /\ d.over = q.over
        /\ d.ruleCalls = q.ruleCalls /\ d.published = q.published
    BY <1>8 DEF RequestType
  <2>4. req' = [req EXCEPT ![c] = n] BY <1>11
  <2> HIDE DEF d
  <2>5. Ready(d) BY <2>2, <2>3 DEF Ready, Positioned
  <2>6. Spare(d) + 1 = Spare(q) /\ Rest(d) = Rest(q)
    BY <1>11, <2>2, <2>3, ReadyTypes DEF Spare, Rest, Ready, Positioned
  <2>7. d.ruleCalls + Spare(d) + Rest(d) <= CallLimit(d.rule)
    <3>1. Spare(d) \in Nat /\ Rest(d) \in Nat BY <2>5, ReadyTypes
    <3> QED BY <2>2, <2>3, <2>6, <3>1, ReadyTypes
  <2>8. /\ Sane(n) /\ n.at \in {"loop", "acquire"} /\ (n.at = "acquire" <=> d.sub # 0)
        /\ n.number = d.number /\ n.calls = d.calls /\ SameFree(n, d)
    BY <2>5, <2>7, AgainSane DEF SameFree
  <2> HIDE DEF n
  <2>9. ~ Free(q) BY <1>11 DEF Free
  <2>10. Within(was) => Within(n)
    <3>1. SUFFICES ASSUME Spent(q), MaxTotal # 0 PROVE Within(n) BY <1>8 DEF Within
    <3>2. q.number \in 1 .. MaxTotal + 1 /\ q.calls <= q.number /\ q.calls # q.number
      BY <2>9, <3>1 DEF Spent
    <3>3. n.calls <= n.number /\ n.calls # n.number /\ n.calls # MaxTotal + 1
      BY <1>10, <2>3, <2>8, <3>2
    <3>4. d.sub \in Nat BY <2>5, ReadyTypes
    <3>5. n.at = "acquire" => Free(n) BY <2>3, <2>8, <3>4 DEF Free, SameFree
    <3> QED BY <2>3, <2>8, <3>2, <3>3, <3>5 DEF Within
  <2>11. n.at \notin Holding BY <2>8 DEF Holding
  <2> QED BY <1>9, <2>4, <2>8, <2>10, <2>11
<1>12. ASSUME NEW k \in others(asks),
              req' = [req EXCEPT ![c] = [q EXCEPT !.at = "switch", !.key = k, !.switches = @ + 1]]
       PROVE  Kept
  <2> DEFINE n == [q EXCEPT !.at = "switch", !.key = k, !.switches = @ + 1]
  <2>1. /\ k \in Keys /\ kind # "behavior" /\ q.switches < Cardinality(Keys)
        /\ q.sub = 0 \/ ~ BudgetExhausted(q)
    BY <1>3 DEF SwitchesLeft
  <2>2. was.at = "call" BY <2>1 DEF was
  <2>3. Ready(q) /\ q.ruleCalls + Spare(q) + Rest(q) <= CallLimit(q.rule) + 1 BY <1>8, <2>2
  <2>4. q.switches + 1 \in Nat BY <2>3, ReadyTypes
  <2>5. /\ n \in RequestType /\ n.at = "switch" /\ n.number = q.number /\ n.calls = q.calls
        /\ n.rule = q.rule /\ n.key = k /\ n.left = q.left /\ n.sub = q.sub
        /\ n.switches = q.switches + 1 /\ n.downgraded = q.downgraded /\ n.over = q.over
        /\ n.ruleCalls = q.ruleCalls /\ n.published = q.published
    BY <1>8, <2>1, <2>4 DEF RequestType, Places, Awaits
  <2>6. req' = [req EXCEPT ![c] = n] BY <1>12
  <2> HIDE DEF n, mayswitch
  <2>7. Ready(n) BY <2>1, <2>3, <2>4, <2>5, ReadyTypes DEF Ready, Positioned
  <2>8. Spare(n) + 1 = Spare(q) /\ Rest(n) = Rest(q)
    BY <2>1, <2>3, <2>5, ReadyTypes DEF Spare, Rest
  <2>9. n.ruleCalls + Spare(n) + Rest(n) <= CallLimit(n.rule)
    <3>1. Spare(n) \in Nat /\ Rest(n) \in Nat BY <2>7, ReadyTypes
    <3> QED BY <2>3, <2>5, <2>8, <3>1, ReadyTypes
  <2>10. Bounded(n)
    BY <2>5, <2>7, <2>9, ReadyTypes DEF Bounded, Ready
  <2>11. Sane(n) BY <2>5, <2>7, <2>10 DEF Sane, Typed, OneShot, Ready, Shown
  <2>12. Within(was) => Within(n)
    <3>1. SUFFICES ASSUME Spent(q), MaxTotal # 0 PROVE Within(n) BY <1>8 DEF Within
    <3>2. /\ q.number \in 1 .. MaxTotal + 1 /\ q.calls <= q.number
          /\ q.calls = q.number => q.number = MaxTotal + 1 /\ Free(q)
      BY <3>1 DEF Spent
    <3>3. q.sub \in Nat BY <2>3, ReadyTypes
    <3>4. q.sub > 0 => q.number <= MaxTotal
      <4>1. \A x \in Nat : x > 0 => x # 0 OBVIOUS
      <4>2. ~ BudgetExhausted(q) => q.number <= MaxTotal BY <1>10, <3>1 DEF BudgetExhausted
      <4> QED BY <2>1, <3>3, <4>1, <4>2
    <3>5. q.calls # q.number BY <1>10, <3>2, <3>3, <3>4 DEF Free
    <3>6. n.calls <= n.number /\ n.calls # n.number /\ n.calls # MaxTotal + 1
      BY <1>10, <2>5, <3>2, <3>5
    <3> QED BY <2>5, <3>2, <3>4, <3>6 DEF Within
  <2>13. n.at \notin Holding BY <2>5 DEF Holding
  <2> QED BY <1>9, <2>6, <2>11, <2>12, <2>13
<1>13. CASE /\ kind = "behavior" \/ stops
            /\ req' = [req EXCEPT ![c] = RuleFails(q, stops)]
  <2> DEFINE n == RuleFails(q, stops)
  <2>1. stops \in BOOLEAN /\ (stops => OverflowRule \in Rules) BY RuleTypes
  <2>2. req' = [req EXCEPT ![c] = n] BY <1>13
  <2> HIDE DEF stops
  <2>3. /\ Sane(n) /\ n.at = "chain" /\ n.number = q.number /\ n.calls = q.calls
        /\ n.sub = q.sub /\ n.downgraded = q.downgraded /\ n.over \in {"now", q.over}
    BY <1>8, <2>1, RuleFailsSane
  <2> HIDE DEF n
  <2>4. Within(was) => Within(n)
    <3>1. OneMore(q) => OneMore(n) BY <2>3 DEF OneMore
    <3> QED BY <1>8, <2>3, <3>1 DEF Within, Spent
  <2>5. n.at \notin Holding BY <2>3 DEF Holding
  <2> QED BY <1>9, <2>2, <2>3, <2>4, <2>5
<1>14. CASE ~ (kind = "behavior" \/ stops) /\ req' = [req EXCEPT ![c] = NextAttempt(q)]
  <2> DEFINE n == NextAttempt(q)
  <2>1. was.at = "call" BY <1>14 DEF was
  <2>2. Ready(q) /\ q.ruleCalls + Spare(q) + Rest(q) <= CallLimit(q.rule) + 1 BY <1>8, <2>1
  <2>3. /\ Sane(n) /\ n.at \in {"acquire", "sleep", "chain"}
        /\ n.at \in {"acquire", "sleep"} => ~ BudgetExhausted(q)
        /\ n.at = "chain" => SameFree(n, q)
        /\ n.number = q.number /\ n.calls = q.calls
    BY <2>2, NextAttemptSane DEF SameFree
  <2>4. req' = [req EXCEPT ![c] = n] BY <1>14
  <2> HIDE DEF n
  <2>5. Within(was) => Within(n)
    <3>1. SUFFICES ASSUME Spent(q), MaxTotal # 0 PROVE Within(n) BY <1>8 DEF Within
    <3>2. CASE n.at = "chain" BY <2>3, <3>1, <3>2 DEF Within, Spent, OneMore, SameFree
    <3>3. CASE n.at \in {"acquire", "sleep"}
      <4>1. q.number <= MaxTotal /\ q.number \in 1 .. MaxTotal + 1
        BY <1>10, <2>3, <3>1, <3>3 DEF BudgetExhausted, Spent
      <4>2. q.calls <= q.number /\ q.calls # q.number
        BY <1>10, <3>1, <4>1 DEF Spent
      <4>3. q.calls # MaxTotal + 1 BY <1>10, <4>1, <4>2
      <4> QED BY <2>3, <3>3, <4>1, <4>2, <4>3 DEF Within
    <3> QED BY <2>3, <3>2, <3>3
  <2>6. n.at \notin Holding BY <2>3 DEF Holding
  <2> QED BY <1>9, <2>3, <2>4, <2>5, <2>6
<1> QED BY <1>2, <1>11, <1>12, <1>13, <1>14

\* An upstream call comes back with an error.
LEMMA CallFailsKept ==
    ASSUME DispatchInv, NEW c \in Callers, NEW kind \in Failures, NEW floor \in Floors, NEW reading,
           CallFails(c, kind, floor, reading)
    PROVE  Kept
<1>1. req[c].at = "call" /\ floor \in Nat BY RoutingConstants DEF CallFails
<1>2. lease[c] # NoKey /\ RoutingInv BY <1>1 DEF DispatchInv, Holding
<1>3. Sound(Freed(c), now) /\ calling[c] \in Refs BY <1>2, FreedSound
<1> DEFINE rt == Observed(Freed(c), calling[c], reading)
<1>4. Sound(rt, now) /\ rt.active = Freed(c).active BY <1>3, ObservedSound
<1>5. AttemptFails(c, req[c], rt, kind, floor) BY DEF CallFails
<1> HIDE DEF rt
<1> QED BY <1>1, <1>4, <1>5, FailureKept

\* The probe of a stream finds an error in it.
LEMMA ProbeFailsKept == ASSUME DispatchInv, NEW c \in Callers, ProbeFails(c) PROVE Kept
<1>1. req[c].at = "probe" /\ AttemptFails(c, req[c], Freed(c), "behavior", 0) BY DEF ProbeFails
<1>2. lease[c] # NoKey /\ RoutingInv BY <1>1 DEF DispatchInv, Holding
<1>3. Sound(Freed(c), now) BY <1>2, FreedSound
<1> QED BY <1>1, <1>3, FailureKept

\* A request that is over, or shows its answer, makes no more calls.
LEMMA EndSane ==
    ASSUME NEW q, Sane(q), NEW n \in RequestType, n.at \in Shown \cup {"aborted"},
           n.rule = q.rule, n.ruleCalls = q.ruleCalls, n.published <= 1,
           n.at \in Shown => n.published = 1
    PROVE  Sane(n)
BY DEF Sane, Typed, OneShot, Bounded, Working, Shown

\* A full answer is returned.
LEMMA AnswersKept ==
    ASSUME DispatchInv, NEW c \in Callers, NEW reading, Answers(c, reading) PROVE Kept
<1> DEFINE q == req[c]
           counted == Counted(q)
           n == [[counted EXCEPT !.published = @ + 1] EXCEPT !.at = "answered"]
           rt == Observed(Freed(c), calling[c], reading)
<1>1. /\ q \in RequestType /\ Sane(q) /\ q.at = "call" /\ LetGo(c)
      /\ req' = [req EXCEPT ![c] = n] /\ route' = MarkHealthy(rt, calling[c])
  BY DEF DispatchInv, Answers, Delivered
<1>2. lease[c] # NoKey /\ RoutingInv BY <1>1 DEF DispatchInv, Holding
<1>3. Sound(Freed(c), now) /\ calling[c] \in Refs BY <1>2, FreedSound
<1>4. Sound(rt, now) /\ rt.active = Freed(c).active BY <1>3, ObservedSound
<1> HIDE DEF rt
<1>5. Sound(route', now) /\ route'.active = Freed(c).active BY <1>1, <1>3, <1>4, HealthySound
<1>6. /\ counted \in RequestType /\ counted.published = 0 /\ counted.rule = q.rule
      /\ counted.ruleCalls = q.ruleCalls
      /\ Within(q) => Spent(counted)
  BY <1>1, FailedReady, CountedFields
<1> HIDE DEF counted, q
<1>7. /\ n \in RequestType /\ n.at = "answered" /\ n.number = counted.number
      /\ n.calls = counted.calls /\ n.rule = q.rule /\ n.ruleCalls = q.ruleCalls
      /\ n.published = 1 /\ SameFree(n, counted)
  <2> DEFINE mid == [counted EXCEPT !.published = 1]
  <2>1. n = [mid EXCEPT !.at = "answered"] BY <1>6 DEF RequestType
  <2>2. /\ mid \in RequestType /\ mid.number = counted.number /\ mid.calls = counted.calls
        /\ mid.rule = q.rule /\ mid.ruleCalls = q.ruleCalls /\ mid.published = 1
        /\ SameFree(mid, counted)
    BY <1>6 DEF RequestType, SameFree
  <2> HIDE DEF mid
  <2> QED BY <2>1, <2>2 DEF RequestType, Places, EndPlaces, SameFree
<1> HIDE DEF n
<1>8. Sane(n) BY <1>1, <1>7, EndSane DEF Shown
<1>9. Within(q) => Within(n) BY <1>6, <1>7 DEF Within, Spent, OneMore, SameFree
<1>10. n.at \notin Holding BY <1>7 DEF Holding
<1> QED BY <1>1, <1>2, <1>5, <1>8, <1>9, <1>10, LetGoKept DEF q

\* A stream opens.
LEMMA OpensKept ==
    ASSUME DispatchInv, NEW c \in Callers, NEW reading, StreamOpens(c, reading) PROVE Kept
<1> DEFINE q == req[c]
           n == [q EXCEPT !.at = "probe"]
<1>1. /\ q \in RequestType /\ Sane(q) /\ q.at = "call" /\ UNCHANGED <<now, lease, calling>>
      /\ req \in [Callers -> RequestType] /\ route' = Observed(route, calling[c], reading)
  BY DEF DispatchInv, StreamOpens
<1>2. req' = [req EXCEPT ![c] = n] BY <1>1 DEF StreamOpens
<1>3. lease[c] # NoKey /\ RoutingInv /\ Sound(route, now)
  BY <1>1 DEF DispatchInv, Holding, RoutingInv
<1>4. calling[c] \in Refs BY <1>3, FreedSound
<1>5. Sound(route', now) /\ route'.active = route.active BY <1>1, <1>3, <1>4, ObservedSound
<1> HIDE DEF q
<1>6. /\ n \in RequestType /\ n.at = "probe" /\ n.number = q.number /\ n.calls = q.calls
      /\ n.rule = q.rule /\ n.key = q.key /\ n.ruleCalls = q.ruleCalls
      /\ n.published = q.published /\ SameFree(n, q)
  BY <1>1 DEF RequestType, Places, Awaits, SameFree
<1> HIDE DEF n
<1>7. Sane(n) BY <1>1, <1>6 DEF Sane, Typed, OneShot, Bounded, Working, Shown
<1>8. Within(q) => Within(n) BY <1>1, <1>6 DEF Within, OneMore, Free, SameFree
<1>9. n.at \in Holding <=> q.at \in Holding BY <1>1, <1>6 DEF Holding
<1> QED BY <1>1, <1>2, <1>5, <1>7, <1>8, <1>9, HeldKept DEF q

\* A stream passes its probe.
LEMMA StartsKept == ASSUME DispatchInv, NEW c \in Callers, StreamStarts(c) PROVE Kept
<1> DEFINE q == req[c]
           counted == Counted(q)
           n == [[counted EXCEPT !.published = @ + 1] EXCEPT !.at = "streaming"]
<1>1. /\ q \in RequestType /\ Sane(q) /\ q.at = "probe" /\ UNCHANGED <<now, lease, calling>>
      /\ req' = [req EXCEPT ![c] = n] /\ route' = MarkHealthy(route, calling[c])
  BY DEF DispatchInv, StreamStarts, Delivered
<1>2. lease[c] # NoKey /\ RoutingInv /\ Sound(route, now)
  BY <1>1 DEF DispatchInv, Holding, RoutingInv
<1>3. calling[c] \in Refs BY <1>2, FreedSound
<1>4. Sound(route', now) /\ route'.active = route.active BY <1>1, <1>2, <1>3, HealthySound
<1>5. /\ counted \in RequestType /\ counted.published = 0 /\ counted.rule = q.rule
      /\ counted.ruleCalls = q.ruleCalls
      /\ Within(q) => Spent(counted)
  BY <1>1, FailedReady, CountedFields
<1> HIDE DEF counted, q
<1>6. /\ n \in RequestType /\ n.at = "streaming" /\ n.number = counted.number
      /\ n.calls = counted.calls /\ n.rule = q.rule /\ n.ruleCalls = q.ruleCalls
      /\ n.published = 1 /\ SameFree(n, counted)
  <2> DEFINE mid == [counted EXCEPT !.published = 1]
  <2>1. n = [mid EXCEPT !.at = "streaming"] BY <1>5 DEF RequestType
  <2>2. /\ mid \in RequestType /\ mid.number = counted.number /\ mid.calls = counted.calls
        /\ mid.rule = q.rule /\ mid.ruleCalls = q.ruleCalls /\ mid.published = 1
        /\ SameFree(mid, counted)
    BY <1>5 DEF RequestType, SameFree
  <2> HIDE DEF mid
  <2> QED BY <2>1, <2>2 DEF RequestType, Places, SameFree
<1> HIDE DEF n
<1>7. Sane(n) BY <1>1, <1>6, EndSane DEF Shown
<1>8. Within(q) => Within(n) BY <1>5, <1>6 DEF Within, Spent, OneMore, SameFree
<1>9. n.at \in Holding <=> q.at \in Holding BY <1>1, <1>6 DEF Holding
<1> QED BY <1>1, <1>4, <1>7, <1>8, <1>9, HeldKept DEF q

\* A stream closes.
LEMMA ClosesKept == ASSUME DispatchInv, NEW c \in Callers, StreamCloses(c) PROVE Kept
<1> DEFINE q == req[c]
           n == [q EXCEPT !.at = "closed"]
<1>1. /\ q \in RequestType /\ Sane(q) /\ q.at = "streaming" /\ LetGo(c)
      /\ req \in [Callers -> RequestType] /\ route' = Freed(c)
  BY DEF DispatchInv, StreamCloses
<1>2. req' = [req EXCEPT ![c] = n] BY <1>1 DEF StreamCloses
<1>3. lease[c] # NoKey /\ RoutingInv BY <1>1 DEF DispatchInv, Holding
<1>4. Sound(route', now) /\ route'.active = Freed(c).active BY <1>1, <1>3, FreedSound
<1> HIDE DEF q
<1>5. /\ n \in RequestType /\ n.at = "closed" /\ n.number = q.number /\ n.calls = q.calls
      /\ n.rule = q.rule /\ n.ruleCalls = q.ruleCalls /\ n.published = q.published
      /\ SameFree(n, q)
  BY <1>1 DEF RequestType, Places, EndPlaces, SameFree
<1> HIDE DEF n
<1>6. q.published = 1 BY <1>1 DEF Sane, OneShot, Shown
<1>7. Sane(n) BY <1>1, <1>5, <1>6, EndSane DEF Shown
<1>8. Within(q) => Within(n) BY <1>1, <1>5 DEF Within, OneMore, SameFree
<1>9. n.at \notin Holding BY <1>5 DEF Holding
<1> QED BY <1>1, <1>2, <1>3, <1>4, <1>7, <1>8, <1>9, LetGoKept DEF q

\* A request is aborted, its published accounting at most one.
LEMMA AbortedSane ==
    ASSUME NEW q, Sane(q), q.at \in Working, NEW published \in {0, 1}
    PROVE  LET n == [q EXCEPT !.at = "aborted", !.published = published]
           IN  Sane(n) /\ n.at \notin Holding /\ (Within(q) => Within(n))
<1> DEFINE n == [q EXCEPT !.at = "aborted", !.published = published]
<1>1. q \in RequestType /\ MaxTotal \in Nat BY RuleTypes DEF Sane, Typed
<1>2. /\ n \in RequestType /\ n.at = "aborted" /\ n.number = q.number /\ n.calls = q.calls
      /\ n.rule = q.rule /\ n.ruleCalls = q.ruleCalls /\ n.published = published
      /\ SameFree(n, q)
  <2> DEFINE mid == [q EXCEPT !.published = published]
  <2>1. n = [mid EXCEPT !.at = "aborted"] BY <1>1 DEF RequestType
  <2>2. /\ mid \in RequestType /\ mid.number = q.number /\ mid.calls = q.calls
        /\ mid.rule = q.rule /\ mid.ruleCalls = q.ruleCalls /\ mid.published = published
        /\ SameFree(mid, q)
    BY SMTT(30), <1>1 DEF RequestType, SameFree
  <2> HIDE DEF mid
  <2> QED BY <2>1, <2>2 DEF RequestType, Places, EndPlaces, SameFree
<1> HIDE DEF n
<1>3. Sane(n)
  <2>1. n.at \in Shown \cup {"aborted"} /\ n.at \notin Shown BY <1>2 DEF Shown
  <2> QED BY <1>2, <2>1, EndSane
<1>4. Within(q) => Within(n)
  <2>1. q.number \in Nat /\ q.calls \in Nat BY <1>1 DEF RequestType
  <2> QED BY <1>1, <1>2, <2>1 DEF Within, OneMore, SameFree
<1>5. n.at \notin Holding BY <1>2 DEF Holding
<1> QED BY <1>3, <1>4, <1>5 DEF n

\* An exception leaves the coroutine, whether it holds a slot or not.
LEMMA AbortsKept == ASSUME DispatchInv, NEW c \in Callers, Aborts(c) PROVE Kept
<1> DEFINE q == req[c]
           n == [q EXCEPT !.at = "aborted", !.published = q.published]
<1>1. /\ q \in RequestType /\ Sane(q) /\ q.at \in Awaits /\ LetGo(c)
      /\ req \in [Callers -> RequestType] /\ RoutingInv /\ Sound(route, now)
  BY DEF DispatchInv, Aborts, RoutingInv
<1>2. req' = [req EXCEPT ![c] = n]
  <2>1. n = [q EXCEPT !.at = "aborted"] BY <1>1 DEF RequestType
  <2> QED BY <1>1, <2>1 DEF Aborts
<1>3. q.at \in Working /\ q.published \in {0, 1}
  BY <1>1 DEF Awaits, Working, Sane, OneShot, Shown
<1> HIDE DEF q
<1>4. Sane(n) /\ n.at \notin Holding /\ (Within(q) => Within(n)) BY <1>1, <1>3, AbortedSane
<1> HIDE DEF n
<1>5. CASE lease[c] # NoKey
  <2>1. route' = Freed(c) BY <1>5 DEF Aborts
  <2>2. Sound(route', now) /\ route'.active = Freed(c).active BY <1>1, <1>5, <2>1, FreedSound
  <2> QED BY <1>1, <1>2, <1>4, <1>5, <2>2, LetGoKept DEF q
<1>6. CASE lease[c] = NoKey
  <2>1. lease \in [Callers -> Keys \cup {NoKey}] /\ calling \in [Callers -> Refs \cup {NoCall}]
    BY <1>1 DEF RoutingInv, LeasesOK
  <2>2. calling[c] = NoCall
    <3>1. calling[c][2] = NoKey BY <1>1, <1>6 DEF RoutingInv, LeasesOK
    <3>2. \A r \in Refs : r[2] # NoKey BY RoutingConstants DEF Refs
    <3> QED BY <2>1, <3>1, <3>2
  <2>3. UNCHANGED <<now, lease, calling>> /\ route' = route
    BY <1>1, <1>6, <2>1, <2>2 DEF Aborts, LetGo
  <2>4. q.at \notin Holding BY <1>6 DEF DispatchInv, q
  <2> QED BY <1>1, <1>2, <1>4, <2>3, <2>4, HeldKept DEF q
<1> QED BY <1>5, <1>6

\* Building the answer raises.
LEMMA RaisesKept ==
    ASSUME DispatchInv, NEW c \in Callers, NEW reading, ConversionRaises(c, reading) PROVE Kept
<1> DEFINE q == req[c]
           rt == Observed(Freed(c), calling[c], reading)
           n == [q EXCEPT !.at = "aborted", !.published = 1]
<1>1. /\ q \in RequestType /\ Sane(q) /\ q.at \in {"call", "probe"} /\ LetGo(c)
      /\ req \in [Callers -> RequestType] /\ (route' = Freed(c) \/ route' = rt)
  BY DEF DispatchInv, ConversionRaises
<1>2. q.published = 0 BY <1>1 DEF Sane, OneShot, Shown, RequestType
<1>3. req' = [req EXCEPT ![c] = n]
  <2>1. req' = [req EXCEPT ![c] = [q EXCEPT !.published = @ + 1, !.at = "aborted"]]
    BY <1>1 DEF ConversionRaises
  <2>2. q.published + 1 = 1 BY <1>2
  <2>3. [q EXCEPT !.published = q.published + 1, !.at = "aborted"]
           = [q EXCEPT !.at = "aborted", !.published = q.published + 1]
    BY <1>1 DEF RequestType
  <2> QED BY <2>1, <2>2, <2>3
<1>4. lease[c] # NoKey /\ RoutingInv BY <1>1 DEF DispatchInv, Holding
<1>5. Sound(Freed(c), now) /\ calling[c] \in Refs BY <1>4, FreedSound
<1>6. Sound(rt, now) /\ rt.active = Freed(c).active BY <1>5, ObservedSound
<1> HIDE DEF q, rt
<1>7. Sound(route', now) /\ route'.active = Freed(c).active BY <1>1, <1>5, <1>6
<1>8. Sane(n) /\ n.at \notin Holding /\ (Within(q) => Within(n))
  BY <1>1, AbortedSane DEF Working
<1> HIDE DEF n
<1> QED BY <1>1, <1>3, <1>4, <1>7, <1>8, LetGoKept DEF q

---------------------------------------------------------------------------
(* The specification.                                                      *)

\* No request has begun.
LEMMA DispatchInitInv == Init => DispatchInv /\ BudgetInv
<1> SUFFICES ASSUME Init PROVE DispatchInv /\ BudgetInv
  OBVIOUS
<1> DEFINE q == NewRequest
<1>1. RoutingInv /\ \A c \in Callers : req[c] = q /\ lease[c] = NoKey
  BY RoutingInitInv DEF Init, RoutingInit
<1>2. /\ q \in RequestType /\ q.at = "new" /\ q.rule = NoRule /\ q.published = 0
      /\ q.number = 1 /\ q.calls = 0 /\ MaxTotal \in Nat
  BY EmptySeq, RuleTypes DEF NewRequest, RequestType, Places
<1>3. req \in [Callers -> RequestType] BY <1>2 DEF Init
<1> HIDE DEF q
<1>4. Sane(q) BY <1>2 DEF Sane, Typed, OneShot, Bounded, Working, Shown
<1>5. q.at \notin Holding BY <1>2 DEF Holding
<1>6. Within(q) BY <1>2, RuleTypes DEF Within
<1>7. DispatchInv BY <1>1, <1>3, <1>4, <1>5 DEF DispatchInv
<1>8. BudgetInv BY <1>1, <1>6 DEF BudgetInv
<1> QED BY <1>7, <1>8

\* Time passes and keys are paused while no request runs.
LEMMA OutsideKept == ASSUME DispatchInv, Outside PROVE Kept
<1>1. RoutingInv /\ req' = req BY DEF DispatchInv, Outside
<1>2. Tick \/ \E s \in Scopes : PauseKey(s) \/ ResumeKey(s) BY DEF Outside
<1>3. lease' = lease BY <1>2 DEF Tick, PauseKey, ResumeKey
<1>4. RoutingInv' BY <1>1, <1>2, RoutingStepInv DEF RoutingNext
<1>5. DispatchInv'
  <2>1. \A c \in Callers : req'[c] = req[c] /\ lease'[c] = lease[c] BY <1>1, <1>3
  <2> QED BY <1>1, <1>4, <2>1 DEF DispatchInv
<1>6. BudgetInv => BudgetInv' BY <1>1 DEF BudgetInv, Within
<1> QED BY <1>5, <1>6 DEF Kept

\* Every step of the requests keeps the invariant.
LEMMA DispatchStepInv == DispatchInv /\ [Next]_dispatchVars => Kept
<1> SUFFICES ASSUME DispatchInv, [Next]_dispatchVars PROVE Kept
  OBVIOUS
<1>1. ASSUME NEW c \in Callers, Step(c) PROVE Kept
  <2>1. ASSUME NEW reading \in Remaining,
               \/ Answers(c, reading) \/ StreamOpens(c, reading) \/ ConversionRaises(c, reading)
               \/ \E kind \in Failures, floor \in Floors : CallFails(c, kind, floor, reading)
        PROVE  Kept
    BY <2>1, AnswersKept, OpensKept, RaisesKept, CallFailsKept
  <2>2. CASE \/ Dispatch(c) \/ ChainExhausted(c) \/ RuleRejected(c) \/ BeginRule(c)
             \/ Authorized(c) \/ RetryLoop(c)
    BY <2>2, DispatchKept, ExhaustedKept, RejectedKept, BeginKept, AuthorizedKept, RetryLoopKept
  <2>3. CASE \/ StartAttempt(c) \/ SlotLost(c) \/ SleepEnds(c) \/ StreamStarts(c)
             \/ ProbeFails(c) \/ StreamCloses(c) \/ Aborts(c)
    BY <2>3, StartKept, SlotLostKept, SleepKept, StartsKept, ProbeFailsKept, ClosesKept, AbortsKept
  <2> QED BY <1>1, <2>1, <2>2, <2>3 DEF Step
<1>2. CASE Outside BY <1>2, OutsideKept
<1>3. CASE UNCHANGED dispatchVars
  <2>1. UNCHANGED routingVars /\ req' = req BY <1>3 DEF dispatchVars
  <2>2. RoutingInv' BY <2>1, RoutingStepInv DEF DispatchInv
  <2>3. lease' = lease BY <2>1 DEF routingVars
  <2>4. DispatchInv'
    <3>1. \A c \in Callers : req'[c] = req[c] /\ lease'[c] = lease[c] BY <2>1, <2>3
    <3> QED BY <2>1, <2>2, <3>1 DEF DispatchInv
  <2>5. BudgetInv => BudgetInv' BY <2>1 DEF BudgetInv, Within
  <2> QED BY <2>4, <2>5 DEF Kept
<1> QED BY <1>1, <1>2, <1>3 DEF Next

\* The invariant holds in every state.
LEMMA DispatchInvHolds == Spec => []DispatchInv
<1>1. Init => DispatchInv BY DispatchInitInv
<1>2. DispatchInv /\ [Next]_dispatchVars => DispatchInv' BY DispatchStepInv DEF Kept
<1> QED BY <1>1, <1>2, PTL DEF Spec

\* The coroutines' variables stay in their types.
THEOREM DispatchTypeCorrect == Spec => []TypeOK
<1>1. DispatchInv => TypeOK
  BY SoundKeys DEF DispatchInv, Sane, Typed, TypeOK, Working
<1> QED BY <1>1, DispatchInvHolds, PTL

\* A request holds a slot exactly while its upstream works for it, however its
\* attempts end: by an answer, a failure, a stream's close or an exception.
THEOREM SlotsAlwaysFollow == Spec => []SlotsFollowRequests
<1>1. DispatchInv => SlotsFollowRequests
  <2>1. DispatchInv => TypeOK BY SoundKeys DEF DispatchInv, Sane, Typed, TypeOK, Working
  <2> QED BY <2>1 DEF DispatchInv, SlotsFollowRequests, Holding
<1> QED BY <1>1, DispatchInvHolds, PTL

\* The keys stay within their slots and quotas under the dispatch of requests,
\* which chooses a key well before it calls.
THEOREM DispatchKeysHeld == Spec => []KeysHeld
<1>1. DispatchInv => KeysHeld BY SoundKeys DEF DispatchInv
<1> QED BY <1>1, DispatchInvHolds, PTL

\* A request publishes to accounting at most once, and an answered one has.
THEOREM HandoffAlwaysOnce == Spec => []HandoffOnce
<1>1. DispatchInv => HandoffOnce BY DEF DispatchInv, Sane, OneShot, HandoffOnce, Shown
<1> QED BY <1>1, DispatchInvHolds, PTL

\* Key switches and the tool_choice downgrade add to the calls of a rule and do
\* not multiply them.
THEOREM CallsAlwaysBounded == Spec => []CallsBounded
<1>1. ASSUME DispatchInv, NEW c \in Callers, req[c].rule # NoRule
      PROVE  req[c].ruleCalls <=
                (RetryCount[req[c].rule] + 1) * Larger(1, Subproviders[req[c].rule])
                   + Cardinality(Keys) + 1
  <2> DEFINE r == req[c].rule
  <2>1. req[c].ruleCalls <= CallLimit(r) BY <1>1 DEF DispatchInv, Sane, Bounded
  <2>2. r \in Rules BY <1>1 DEF DispatchInv, RequestType
  <2> HIDE DEF r
  <2>3. CallLimit(r) = (RetryCount[r] + 1) * Variants(r) + Cardinality(Keys) + 1
    BY <2>2, CostStep
  <2> QED BY <2>1, <2>3 DEF Variants, r
<1>2. DispatchInv => CallsBounded BY <1>1 DEF CallsBounded
<1> QED BY <1>2, DispatchInvHolds, PTL

\* max_total_attempts caps the upstream calls of a request over its whole chain,
\* but for the one call that a tool_choice refused in the loop over sub-providers
\* adds.
THEOREM ChainBudgetHolds == Spec => []ChainBudget
<1>1. Init => BudgetInv BY DispatchInitInv
<1>2. DispatchInv /\ BudgetInv /\ [Next]_dispatchVars => BudgetInv'
  BY DispatchStepInv DEF Kept
<1>3. DispatchInv /\ BudgetInv => ChainBudget
  <2>1. ASSUME DispatchInv, BudgetInv, MaxTotal # 0, NEW c \in Callers
        PROVE  req[c].calls <= MaxTotal \/ (req[c].calls = MaxTotal + 1 /\ OneMore(req[c]))
    <3>1. req[c].calls \in Nat /\ req[c].number \in Nat /\ MaxTotal \in Nat
      BY <2>1, RuleTypes DEF DispatchInv, RequestType
    <3>2. Within(req[c]) BY <2>1 DEF BudgetInv
    <3>3. req[c].calls <= req[c].number /\ req[c].number \in 1 .. MaxTotal + 1
      BY <2>1, <3>2 DEF Within
    <3>4. req[c].calls = MaxTotal + 1 => OneMore(req[c]) BY <2>1, <3>2 DEF Within
    <3> QED BY <3>1, <3>3, <3>4
  <2> QED BY <2>1 DEF ChainBudget
<1> QED BY <1>1, <1>2, <1>3, DispatchInvHolds, PTL DEF Spec
=============================================================================
