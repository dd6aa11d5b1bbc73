------------------------- MODULE FrameTrackerProofs -------------------------
(***************************************************************************)
(* Theorems about the tracker, for any stamps, lifetimes, windows, hit     *)
(* counts and geometry, and any number of frames and tracks.               *)
(***************************************************************************)
EXTENDS FrameTracker, FiniteSetTheorems, SequenceTheorems, TLAPS

-----------------------------------------------------------------------------
(* One track *)

\* what TrackerTypeOK says of a track
Live(t) ==
    /\ t \in Track
    /\ t.born \in 1..Len(frames)
    /\ t.lastDynamic <= Now
    /\ Len(t.window) <= InitWindowSize

\* the hits do not suffice in a frame with this odometry
Undecided(t, odom) == CountHits(t.window) < ConfirmationHitThreshold(t, odom)

LEMMA NowType ==
    ASSUME frames \in Seq(Stamps)
    PROVE  Now \in Nat
<1>1. CASE frames = <<>>
  BY <1>1 DEF Now
<1>2. CASE frames # <<>>
  <2>1. Len(frames) \in 1..Len(frames)
    BY <1>2, EmptySeq, LenProperties
  <2>2. frames[Len(frames)] \in Stamps
    BY <2>1, ElementOfSeq
  <2> QED
    BY <1>2, <2>2, StampAssumption DEF Now
<1> QED
  BY <1>1, <1>2

LEMMA PushedType ==
    ASSUME NEW window \in Seq(BOOLEAN), NEW hit \in BOOLEAN
    PROVE  /\ Pushed(window, hit) \in Seq(BOOLEAN)
           /\ Len(window) <= InitWindowSize => Len(Pushed(window, hit)) <= InitWindowSize
<1> DEFINE grown == Append(window, hit)
<1>1. grown \in Seq(BOOLEAN) /\ Len(grown) = Len(window) + 1 /\ grown # <<>>
  OBVIOUS
<1>2. Tail(grown) \in Seq(BOOLEAN) /\ Len(Tail(grown)) = Len(window)
  BY <1>1
<1>3. Pushed(window, hit) = IF Len(grown) > InitWindowSize THEN Tail(grown) ELSE grown
  BY DEF Pushed
<1> HIDE DEF grown
<1>4. Len(window) \in Nat
  OBVIOUS
<1>5. CASE Len(grown) > InitWindowSize
  BY <1>2, <1>3, <1>5
<1>6. CASE ~(Len(grown) > InitWindowSize)
  <2>1. Pushed(window, hit) = grown
    BY <1>3, <1>6
  <2>2. Len(grown) <= InitWindowSize
    BY <1>1, <1>4, <1>6, HitsAssumption
  <2> QED
    BY <1>1, <2>1, <2>2
<1> QED
  BY <1>5, <1>6

LEMMA CountHitsType ==
    ASSUME NEW window \in Seq(BOOLEAN)
    PROVE  CountHits(window) \in Nat
<1> DEFINE H == {i \in DOMAIN window : window[i]}
<1>1. IsFiniteSet(1..Len(window))
  BY FS_Interval
<1>2. H \subseteq 1..Len(window)
  OBVIOUS
<1>3. IsFiniteSet(H)
  BY <1>1, <1>2, FS_Subset
<1> QED
  BY <1>3, FS_CardinalityType DEF CountHits

LEMMA ThresholdType ==
    ASSUME NEW t, NEW odom
    PROVE  ConfirmationHitThreshold(t, odom) \in Nat
BY HitsAssumption DEF ConfirmationHitThreshold

LEMMA JudgedTrack ==
    ASSUME NEW t, Live(t)
    PROVE  /\ Live(Judged(t))
           /\ Judged(t).uid = t.uid /\ Judged(t).display = t.display
           /\ Judged(t).born = t.born /\ Judged(t).missed = t.missed
           /\ Judged(t).lastDynamic = t.lastDynamic
           /\ t.confirmed => Judged(t).confirmed
           /\ ~Judged(t).confirmed => Undecided(Judged(t), has_odom)
<1> DEFINE c == t.confirmed \/ CountHits(t.window) >= ConfirmationHitThreshold(t, has_odom)
<1>1. c \in BOOLEAN /\ Judged(t) = [t EXCEPT !.confirmed = c]
  BY DEF Judged
<1>2. t \in Track
  BY DEF Live
<1>3. ~c => CountHits(t.window) < ConfirmationHitThreshold(t, has_odom)
  BY <1>2, CountHitsType, ThresholdType DEF Track
<1>4. t.confirmed => c
  OBVIOUS
<1> HIDE DEF c
<1>5. /\ Judged(t) \in Track
      /\ Judged(t).uid = t.uid /\ Judged(t).display = t.display
      /\ Judged(t).born = t.born /\ Judged(t).missed = t.missed
      /\ Judged(t).lastDynamic = t.lastDynamic /\ Judged(t).near = t.near
      /\ Judged(t).window = t.window /\ Judged(t).confirmed = c
  BY <1>1, <1>2 DEF Track
<1>6. Live(Judged(t))
  BY <1>5 DEF Live
<1>7. ~c => Undecided(Judged(t), has_odom)
  BY <1>3, <1>5 DEF Undecided, ConfirmationHitThreshold
<1> QED
  BY <1>4, <1>5, <1>6, <1>7

\* t is what an association makes of s.
Continues(t, s) ==
    /\ t.uid = s.uid /\ t.display = s.display /\ t.born = s.born
    /\ s.confirmed => t.confirmed
    /\ \/ /\ t.missed = s.missed + 1
          /\ t.confirmed = s.confirmed /\ t.lastDynamic = s.lastDynamic
       \/ /\ t.missed = 0
          /\ t.confirmed \/ Undecided(t, has_odom)
          /\ \/ t.lastDynamic = Now
             \/ t.lastDynamic = s.lastDynamic /\ Now - s.lastDynamic <= StaticSupportHoldTime

\* t is a track of the current frame.
Starts(t) ==
    /\ t.display = NoDisplay /\ t.born = Len(frames) /\ t.missed = 0 /\ t.lastDynamic = Now
    /\ t.confirmed \/ Undecided(t, has_odom)

LEMMA MissedTrack ==
    ASSUME NEW s, Live(s)
    PROVE  Live(Missed(s)) /\ Continues(Missed(s), s)
<1> DEFINE w == Pushed(s.window, FALSE)
           k == s.missed + 1
<1>0. Missed(s) = [s EXCEPT !.missed = k, !.window = w]
  BY DEF Missed
<1>1. s \in Track /\ s.window \in Seq(BOOLEAN) /\ s.missed \in Nat /\ Len(s.window) <= InitWindowSize
  BY DEF Live, Track
<1>2. w \in Seq(BOOLEAN) /\ Len(w) <= InitWindowSize
  BY <1>1, PushedType
<1>3. k \in Nat /\ k = s.missed + 1
  BY <1>1
<1> HIDE DEF w, k
<1>4. /\ Missed(s) \in Track
      /\ Missed(s).uid = s.uid /\ Missed(s).display = s.display /\ Missed(s).born = s.born
      /\ Missed(s).missed = s.missed + 1 /\ Missed(s).confirmed = s.confirmed
      /\ Missed(s).lastDynamic = s.lastDynamic /\ Missed(s).window = w
  BY <1>0, <1>1, <1>2, <1>3 DEF Track
<1> QED
  BY <1>1, <1>2, <1>3, <1>4 DEF Live, Continues

LEMMA SupportedTrack ==
    ASSUME NEW s, Live(s), IsStaticSupportTrackEligible(s)
    PROVE  Live(Supported(s)) /\ Continues(Supported(s), s)
<1> DEFINE m == [s EXCEPT !.missed = 0, !.window = Pushed(@, TRUE)]
<1>1. s \in Track /\ Pushed(s.window, TRUE) \in Seq(BOOLEAN)
      /\ Len(Pushed(s.window, TRUE)) <= InitWindowSize
  BY PushedType DEF Live, Track
<1>2. /\ m \in Track
      /\ m.uid = s.uid /\ m.display = s.display /\ m.born = s.born /\ m.missed = 0
      /\ m.confirmed = s.confirmed /\ m.lastDynamic = s.lastDynamic
      /\ m.window = Pushed(s.window, TRUE)
  BY <1>1 DEF Track
<1>3. Supported(s) = Judged(m)
  BY DEF Supported
<1> HIDE DEF m
<1>4. Live(m)
  BY <1>1, <1>2 DEF Live
<1> QED
  BY <1>2, <1>3, <1>4, JudgedTrack DEF Continues, IsStaticSupportTrackEligible

LEMMA DetectedTrack ==
    ASSUME NEW s, Live(s), NEW near \in BOOLEAN, NEW fast \in BOOLEAN, Now \in Nat
    PROVE  Live(Detected(s, near, fast)) /\ Continues(Detected(s, near, fast), s)
<1> DEFINE m == [s EXCEPT !.missed = 0, !.window = Pushed(@, TRUE), !.lastDynamic = Now,
                          !.near = @ \/ near, !.gate = @ \/ fast]
<1>1. s \in Track /\ Pushed(s.window, TRUE) \in Seq(BOOLEAN)
      /\ Len(Pushed(s.window, TRUE)) <= InitWindowSize
  BY PushedType DEF Live, Track
<1>2. /\ m \in Track
      /\ m.uid = s.uid /\ m.display = s.display /\ m.born = s.born /\ m.missed = 0
      /\ m.confirmed = s.confirmed /\ m.lastDynamic = Now
      /\ m.window = Pushed(s.window, TRUE)
  BY <1>1 DEF Track
<1>3. Detected(s, near, fast) = Judged(m)
  BY DEF Detected
<1> HIDE DEF m
<1>4. m.lastDynamic <= Now
  BY <1>2
<1>5. Live(m)
  BY <1>1, <1>2, <1>4 DEF Live
<1> QED
  BY <1>2, <1>3, <1>5, JudgedTrack DEF Continues

LEMMA CreatedTrack ==
    ASSUME NEW uid \in Nat, NEW near \in BOOLEAN, Now \in Nat, Len(frames) \in Nat \ {0}
    PROVE  /\ Live(CreateTrack(uid, near)) /\ Starts(CreateTrack(uid, near))
           /\ CreateTrack(uid, near).uid = uid
<1> DEFINE m == [uid |-> uid, display |-> NoDisplay, born |-> Len(frames), missed |-> 0,
                 confirmed |-> FALSE, lastDynamic |-> Now, near |-> near, gate |-> FALSE,
                 window |-> <<TRUE>>]
<1>1. <<TRUE>> \in Seq(BOOLEAN) /\ Len(<<TRUE>>) = 1
  OBVIOUS
<1>2. m \in Track
  BY <1>1 DEF Track
<1>3. /\ m.uid = uid /\ m.display = NoDisplay /\ m.born = Len(frames) /\ m.missed = 0
      /\ m.lastDynamic = Now /\ Len(m.window) <= InitWindowSize
  BY <1>1, HitsAssumption
<1>4. CreateTrack(uid, near) = Judged(m)
  BY DEF CreateTrack
<1> HIDE DEF m
<1>5. Live(m)
  BY <1>2, <1>3 DEF Live
<1> QED
  BY <1>3, <1>4, <1>5, JudgedTrack DEF Starts

\* A detection is near or not, fast or not.
LEMMA DetectedIn ==
    ASSUME NEW s, Live(s), NEW N, NEW F, Now \in Nat
    PROVE  /\ Live(Detected(s, s.uid \in N, s.uid \in F))
           /\ Continues(Detected(s, s.uid \in N, s.uid \in F), s)
<1> DEFINE near == s.uid \in N
           fast == s.uid \in F
<1>1. near \in BOOLEAN /\ fast \in BOOLEAN
  OBVIOUS
<1> HIDE DEF near, fast
<1>2. Live(Detected(s, near, fast)) /\ Continues(Detected(s, near, fast), s)
  BY <1>1, DetectedTrack
<1> QED
  BY <1>2 DEF near, fast

LEMMA CreatedIn ==
    ASSUME NEW u \in Nat, NEW N, Now \in Nat, Len(frames) \in Nat \ {0}
    PROVE  /\ Live(CreateTrack(u, u \in N)) /\ Starts(CreateTrack(u, u \in N))
           /\ CreateTrack(u, u \in N).uid = u
<1> DEFINE near == u \in N
<1>1. near \in BOOLEAN
  OBVIOUS
<1> HIDE DEF near
<1>2. /\ Live(CreateTrack(u, near)) /\ Starts(CreateTrack(u, near))
      /\ CreateTrack(u, near).uid = u
  BY <1>1, CreatedTrack
<1> QED
  BY <1>2 DEF near

-----------------------------------------------------------------------------
(* All tracks after an association *)

\* what Associate requires of the tracks that are detected or supported
Picked(D, S) ==
    /\ D \subseteq tracks /\ S \subseteq tracks \ D
    /\ \A t \in S : IsStaticSupportTrackEligible(t)

LEMMA AssociatedTracks ==
    ASSUME \A s \in tracks : Live(s), Now \in Nat, Len(frames) \in Nat \ {0},
           NEW D, NEW S, NEW N, NEW F, NEW uids \in SUBSET Nat, Picked(D, S)
    PROVE  \A t \in Associated(D, S, N, F, uids) :
              /\ Live(t)
              /\ \/ \E s \in tracks : Continues(t, s)
                 \/ t.uid \in uids /\ Starts(t)
<1> TAKE t \in Associated(D, S, N, F, uids)
<1>1. ASSUME NEW s \in D, t = Detected(s, s.uid \in N, s.uid \in F)
      PROVE  Live(t) /\ \E r \in tracks : Continues(t, r)
  <2>1. s \in tracks /\ Live(s)
    BY <1>1 DEF Picked
  <2> QED
    BY <1>1, <2>1, DetectedIn
<1>2. ASSUME NEW s \in S, t = Supported(s)
      PROVE  Live(t) /\ \E r \in tracks : Continues(t, r)
  <2>1. s \in tracks /\ Live(s) /\ IsStaticSupportTrackEligible(s)
    BY <1>2 DEF Picked
  <2> QED
    BY <1>2, <2>1, SupportedTrack
<1>3. ASSUME NEW s \in tracks, t = Missed(s)
      PROVE  Live(t) /\ \E r \in tracks : Continues(t, r)
  BY <1>3, MissedTrack
<1>4. ASSUME NEW u \in uids, t = CreateTrack(u, u \in N)
      PROVE  Live(t) /\ t.uid \in uids /\ Starts(t)
  BY <1>4, CreatedIn
<1> QED
  BY <1>1, <1>2, <1>3, <1>4 DEF Associated

\* All names of T are in use: numbers below n, displays below d, none twice.
Names(T, n, d) ==
    /\ \A t \in T : t.uid < n /\ (t.display # NoDisplay => t.display < d)
    /\ \A s, t \in T : s # t => /\ s.uid # t.uid
                               /\ (s.display = NoDisplay \/ s.display # t.display)

LEMMA AssociatedNames ==
    ASSUME \A s \in tracks : Live(s), Now \in Nat, Len(frames) \in Nat \ {0},
           next_track_uid \in Nat, Names(tracks, next_track_uid, next_display_id),
           NEW D, NEW S, NEW N, NEW F, NEW count \in Nat, Picked(D, S)
    PROVE  Names(Associated(D, S, N, F, NewUids(count)), next_track_uid + count, next_display_id)
<1> DEFINE Result(s) == IF s \in D THEN Detected(s, s.uid \in N, s.uid \in F)
                        ELSE IF s \in S THEN Supported(s) ELSE Missed(s)
           Created(u) == CreateTrack(u, u \in N)
           uids       == NewUids(count)
           T          == Associated(D, S, N, F, uids)
<1>1. \A s \in tracks : Result(s).uid = s.uid /\ Result(s).display = s.display
  <2> TAKE s \in tracks
  <2>1. CASE s \in D
    BY <2>1, DetectedIn DEF Continues
  <2>2. CASE s \in S /\ s \notin D
    BY <2>2, SupportedTrack DEF Continues, Picked
  <2>3. CASE s \notin S /\ s \notin D
    BY <2>3, MissedTrack DEF Continues
  <2> QED
    BY <2>1, <2>2, <2>3
<1>2. \A u \in uids : /\ u \in Nat /\ u >= next_track_uid /\ u < next_track_uid + count
                      /\ Created(u).uid = u /\ Created(u).display = NoDisplay
  <2> TAKE u \in uids
  <2>1. u \in Nat /\ u >= next_track_uid /\ u < next_track_uid + count
    BY DEF NewUids
  <2> QED
    BY <2>1, CreatedIn DEF Starts
<1>3. \A t \in T : \/ \E s \in tracks : t = Result(s)
                   \/ \E u \in uids : t = Created(u)
  BY DEF Associated, Picked
<1>4. \A s \in tracks : s.uid \in Nat
  BY DEF Live, Track
<1> HIDE DEF Result, Created, uids, T
<1>5. \A t \in T : t.uid < next_track_uid + count /\ (t.display # NoDisplay => t.display < next_display_id)
  BY <1>1, <1>2, <1>3, <1>4 DEF Names
<1>6. ASSUME NEW s \in T, NEW t \in T, s # t
      PROVE  s.uid # t.uid /\ (s.display = NoDisplay \/ s.display # t.display)
  <2>1. CASE (\E p \in tracks : s = Result(p)) /\ (\E q \in tracks : t = Result(q))
    BY <1>1, <1>6, <2>1 DEF Names
  <2>2. CASE (\E p \in tracks : s = Result(p)) /\ (\E u \in uids : t = Created(u))
    BY <1>1, <1>2, <1>4, <1>6, <2>2 DEF Names
  <2>3. CASE (\E u \in uids : s = Created(u)) /\ (\E q \in tracks : t = Result(q))
    BY <1>1, <1>2, <1>4, <1>6, <2>3 DEF Names
  <2>4. CASE (\E u \in uids : s = Created(u)) /\ (\E v \in uids : t = Created(v))
    BY <1>2, <1>6, <2>4
  <2> QED
    BY <1>3, <2>1, <2>2, <2>3, <2>4
<1> QED
  BY <1>5, <1>6 DEF Names, T, uids

\* A set of tracks whose numbers are all different is finite.
LEMMA NamesFinite ==
    ASSUME NEW T \in SUBSET Track, NEW n \in Nat, NEW d, Names(T, n, d)
    PROVE  IsFiniteSet(T) /\ IsFiniteSet(Uids(T)) /\ Uids(T) \subseteq 0..n
<1> DEFINE f == [t \in T |-> t.uid]
<1>1. \A t \in T : t.uid \in 0..n
  BY DEF Names, Track
<1>2. f \in Injection(T, 0..n)
  BY <1>1 DEF Names, Injection, IsInjective
<1>3. IsFiniteSet(0..n)
  BY FS_Interval
<1>4. IsFiniteSet(T)
  BY <1>2, <1>3, FS_Injection
<1>5. Uids(T) \subseteq 0..n
  BY <1>1 DEF Uids
<1> QED
  BY <1>3, <1>4, <1>5, FS_Subset

-----------------------------------------------------------------------------
(* The names of tracks confirmed in a frame *)

Rank(T, t) == Cardinality({s \in Unnamed(T) : s.uid < t.uid})

LEMMA RankGrows ==
    ASSUME NEW T \in SUBSET Track, IsFiniteSet(T), NEW s \in Unnamed(T)
    PROVE  /\ Rank(T, s) \in Nat /\ Cardinality(Unnamed(T)) \in Nat
           /\ Rank(T, s) < Cardinality(Unnamed(T))
           /\ \A t \in Unnamed(T) : s.uid < t.uid => Rank(T, s) < Rank(T, t)
<1> DEFINE Below(t) == {r \in Unnamed(T) : r.uid < t.uid}
<1>1. IsFiniteSet(Unnamed(T)) /\ Unnamed(T) \subseteq Track
  BY FS_Subset DEF Unnamed
<1>2. \A r \in Unnamed(T) : r.uid \in Nat
  BY <1>1 DEF Track
<1>3. \A t : IsFiniteSet(Below(t)) /\ Cardinality(Below(t)) \in Nat
  BY <1>1, FS_Subset, FS_CardinalityType
<1>4. s \notin Below(s) /\ Below(s) \subseteq Unnamed(T)
  BY <1>2
<1>5. Cardinality(Unnamed(T)) \in Nat
  BY <1>1, FS_CardinalityType
<1>6. Cardinality(Below(s)) < Cardinality(Unnamed(T))
  BY <1>1, <1>3, <1>4, <1>5, FS_Subset
<1>7. ASSUME NEW t \in Unnamed(T), s.uid < t.uid
      PROVE  Cardinality(Below(s)) < Cardinality(Below(t))
  <2>1. Below(s) \subseteq Below(t) /\ s \in Below(t)
    BY <1>2, <1>7
  <2> HIDE DEF Below
  <2> QED
    BY <1>3, <1>4, <2>1, FS_Subset
<1> QED
  BY <1>3, <1>5, <1>6, <1>7 DEF Rank

\* t is u with a name if it is to have one.
IsNamed(t, u) ==
    /\ t.uid = u.uid /\ t.born = u.born /\ t.missed = u.missed /\ t.confirmed = u.confirmed
    /\ t.lastDynamic = u.lastDynamic /\ t.near = u.near /\ t.window = u.window
    /\ u.display # NoDisplay => t.display = u.display
    /\ t.confirmed => t.display # NoDisplay

LEMMA NumberedTracks ==
    ASSUME NEW T \in SUBSET Track, IsFiniteSet(T), next_display_id \in Nat
    PROVE  \A t \in Numbered(T) : t \in Track /\ \E u \in T : IsNamed(t, u)
<1> TAKE t \in Numbered(T)
<1>1. PICK u \in T : t = IF u \in Unnamed(T)
                         THEN [u EXCEPT !.display = next_display_id + Rank(T, u)] ELSE u
  BY DEF Numbered, Rank
<1>2. CASE u \in Unnamed(T)
  <2> DEFINE n == next_display_id + Rank(T, u)
  <2>1. n \in Nat /\ n # NoDisplay
    BY <1>2, RankGrows DEF NoDisplay
  <2>2. t = [u EXCEPT !.display = n] /\ u.display = NoDisplay
    BY <1>1, <1>2 DEF Unnamed
  <2> HIDE DEF n
  <2>3. u \in Track
    OBVIOUS
  <2> QED
    BY <2>1, <2>2, <2>3 DEF Track, IsNamed
<1>3. CASE u \notin Unnamed(T)
  BY <1>1, <1>3 DEF Unnamed, IsNamed
<1> QED
  BY <1>2, <1>3

LEMMA NumberedNames ==
    ASSUME NEW T \in SUBSET Track, IsFiniteSet(T), next_display_id \in Nat,
           NEW n \in Nat, Names(T, n, next_display_id)
    PROVE  Names(Numbered(T), n, next_display_id + Cardinality(Unnamed(T)))
<1> DEFINE Named(u) == IF u \in Unnamed(T)
                       THEN [u EXCEPT !.display = next_display_id + Rank(T, u)] ELSE u
           c        == Cardinality(Unnamed(T))
<1>1. \A t \in Numbered(T) : \E u \in T : t = Named(u)
  BY DEF Numbered, Rank
<1>2. \A u \in T : u.uid \in Nat /\ u.display \in Nat \cup {NoDisplay} /\ NoDisplay = -1
  BY DEF Track, NoDisplay
<1>3. c \in Nat
  BY FS_Subset, FS_CardinalityType DEF Unnamed
<1>4. ASSUME NEW u \in Unnamed(T)
      PROVE  /\ u \in T /\ u.display = NoDisplay
             /\ Rank(T, u) \in Nat /\ Rank(T, u) < c
             /\ Named(u).uid = u.uid /\ Named(u).display = next_display_id + Rank(T, u)
  BY RankGrows DEF Unnamed, Track
<1>5. \A u \in T : u \notin Unnamed(T) => Named(u) = u
  OBVIOUS
<1> HIDE DEF Named, c
<1>6. ASSUME NEW u \in T
      PROVE  /\ Named(u).uid < n
             /\ Named(u).display # NoDisplay => Named(u).display < next_display_id + c
  <2>1. CASE u \in Unnamed(T)
    BY <1>2, <1>3, <1>4, <2>1 DEF Names
  <2>2. CASE u \notin Unnamed(T)
    BY <1>2, <1>3, <1>5, <2>2 DEF Names
  <2> QED
    BY <2>1, <2>2
<1>7. ASSUME NEW u \in T, NEW v \in T, u # v
      PROVE  /\ Named(u).uid # Named(v).uid
             /\ Named(u).display = NoDisplay \/ Named(u).display # Named(v).display
  <2>0. u.uid # v.uid /\ (u.display = NoDisplay \/ u.display # v.display)
    BY <1>7 DEF Names
  <2>1. CASE u \in Unnamed(T) /\ v \in Unnamed(T)
    <3>1. u.uid < v.uid \/ v.uid < u.uid
      BY <1>2, <2>0
    <3>2. Rank(T, u) # Rank(T, v)
      BY <1>4, <2>1, <3>1, RankGrows
    <3> QED
      BY <1>4, <2>0, <2>1, <3>2
  <2>2. CASE u \in Unnamed(T) /\ v \notin Unnamed(T)
    <3>1. v.display # next_display_id + Rank(T, u)
      BY <1>2, <1>4, <2>2 DEF Names
    <3> QED
      BY <1>4, <1>5, <2>0, <2>2, <3>1
  <2>3. CASE u \notin Unnamed(T) /\ v \in Unnamed(T)
    <3>1. u.display = NoDisplay \/ u.display # next_display_id + Rank(T, v)
      BY <1>2, <1>4, <2>3 DEF Names
    <3> QED
      BY <1>4, <1>5, <2>0, <2>3, <3>1
  <2>4. CASE u \notin Unnamed(T) /\ v \notin Unnamed(T)
    BY <1>5, <2>0, <2>4
  <2> QED
    BY <2>1, <2>2, <2>3, <2>4
<1> QED
  BY <1>1, <1>6, <1>7 DEF Names, c

-----------------------------------------------------------------------------
(* The inductive invariant *)

\* An update has a frame, and stamps grow from a reset on.
FramesInv ==
    /\ step # "idle" => Len(frames) >= 1
    /\ \A i, j \in 1..Len(frames) : i <= j => frames[i] <= frames[j]

NamesInv ==
    /\ Names(tracks, next_track_uid, next_display_id)
    /\ \A t \in tracks : t.confirmed => t.display # NoDisplay

\* the time a track can be matched after its last dynamic measurement, or live on
LongestSupport == IF StaticSupportHoldTime > LostTrackPredictionTime
                  THEN StaticSupportHoldTime ELSE LostTrackPredictionTime

\* the frame a track was last matched in; `predicted' is the time before it is counted
LastMatch(t) == Len(frames) - t.missed - (IF step = "predicted" THEN 1 ELSE 0)

\* A track was matched by static support only while its evidence was recent, and
\* past its lifetime it is only predicted for as long as it may be.
EvidenceInv ==
    \A t \in tracks :
       /\ LastMatch(t) >= 1
       /\ frames[LastMatch(t)] - t.lastDynamic <= LongestSupport
       /\ step = "idle" /\ t.missed > TrackLifetimeFrames
             => Now - t.lastDynamic <= LostTrackPredictionTime

\* An old candidate is one that was not decided in the frame it was last matched in.
DecidedInv ==
    \A t \in tracks : ~t.confirmed =>
       /\ step = "idle" => t.missed >= Age(t) - InitWindowSize + 1
       /\ step = "predicted" => t.missed >= Age(t) - InitWindowSize
       /\ step = "associated" => IF t.missed = 0 THEN Undecided(t, has_odom)
                                 ELSE t.missed >= Age(t) - InitWindowSize + 1

TrackerInv == TrackerTypeOK /\ FramesInv /\ NamesInv /\ EvidenceInv /\ DecidedInv

LEMMA LiveTracks ==
    ASSUME TrackerTypeOK
    PROVE  (\A t \in tracks : Live(t)) /\ Now \in Nat /\ Len(frames) \in Nat
BY NowType DEF TrackerTypeOK, Live

LEMMA PrepareType ==
    ASSUME NEW T \in SUBSET Track, NEW n \in Nat, NEW d, Names(T, n, d), Prepare(T)
    PROVE  order' \in Seq(Nat) /\ cursor' \in Nat \X Nat
<1>1. IsFiniteSet(Uids(T)) /\ Uids(T) \subseteq 0..n
  BY NamesFinite
<1>2. Cardinality(Uids(T)) \in Nat
  BY <1>1, FS_CardinalityType
<1>3. order' \in [1..Cardinality(Uids(T)) -> Uids(T)]
  BY DEF Prepare, Priorities, SetToSeqs
<1> DEFINE k == Cardinality(Uids(T))
<1> HIDE DEF k
<1>4. k \in Nat /\ order' \in [1..k -> Nat]
  BY <1>1, <1>2, <1>3 DEF k
<1>5. order' \in Seq(Nat)
  BY <1>4
<1> QED
  BY <1>5 DEF Prepare

-----------------------------------------------------------------------------
(* The initial state, and the steps of an update *)

LEMMA TrackerInitInv == TrackerInit => TrackerInv
<1> SUFFICES ASSUME TrackerInit PROVE TrackerInv
  OBVIOUS
<1>1. frames = <<>> /\ frames \in Seq(Stamps) /\ Len(frames) = 0
  BY DEF TrackerInit
<1>2. tracks = {} /\ order \in Seq(Nat) /\ cursor \in Nat \X Nat
  BY DEF TrackerInit
<1>3. TrackerTypeOK
  BY <1>1, <1>2 DEF TrackerInit, TrackerTypeOK
<1>4. FramesInv
  BY <1>1 DEF TrackerInit, FramesInv
<1>5. NamesInv /\ EvidenceInv /\ DecidedInv
  BY <1>2 DEF NamesInv, Names, EvidenceInv, DecidedInv
<1> QED
  BY <1>3, <1>4, <1>5 DEF TrackerInv

LEMMA BeginStep ==
    ASSUME TrackerInv, NEW stamp \in Stamps, NEW odom \in BOOLEAN, Begin(stamp, odom)
    PROVE  TrackerInv'
<1> USE DEF TrackerInv
<1>1. /\ step = "idle" /\ step' = "predicted" /\ has_odom' = odom
      /\ UNCHANGED identities
  BY DEF Begin
<1>2. stamp \in Nat /\ stamp > 0 /\ frames \in Seq(Stamps) /\ Now \in Nat /\ Len(frames) \in Nat
  BY StampAssumption, LiveTracks DEF TrackerTypeOK
<1>a. CASE Newer(stamp) /\ frames' = Append(frames, stamp) /\ UNCHANGED tracks
  <2>1. /\ frames' \in Seq(Stamps) /\ Len(frames') = Len(frames) + 1
        /\ \A i \in 1..Len(frames) : frames'[i] = frames[i]
        /\ frames'[Len(frames) + 1] = stamp
    BY <1>2, <1>a
  <2>2. frames' # <<>> /\ Now' = stamp
    BY <1>2, <2>1 DEF Now
  <2>3. stamp > Now
    BY <1>a DEF Newer
  <2>4. \A i \in 1..Len(frames) : frames[i] \in Nat /\ frames[i] <= Now
    <3> TAKE i \in 1..Len(frames)
    <3>1. frames # <<>> /\ i <= Len(frames) /\ Len(frames) \in 1..Len(frames)
      BY <1>2
    <3>2. frames[i] \in Stamps
      BY <1>2, ElementOfSeq
    <3>3. Now = frames[Len(frames)] /\ frames[i] <= frames[Len(frames)]
      BY <3>1 DEF Now, FramesInv
    <3> QED
      BY <3>2, <3>3, StampAssumption
  <2>5. NamesInv'
    BY <1>1, <1>a DEF NamesInv, Names, identities
  <2>6. TrackerTypeOK'
    <3>1. order' \in Seq(Nat) /\ cursor' \in Nat \X Nat
      BY <1>a, PrepareType DEF Begin, TrackerTypeOK, NamesInv
    <3>2. \A t \in tracks : t.lastDynamic <= Now' /\ t.born \in 1..Len(frames')
      BY <1>2, <2>1, <2>2, <2>3 DEF TrackerTypeOK, Track
    <3> QED
      BY <1>1, <1>a, <2>1, <3>1, <3>2 DEF TrackerTypeOK, identities
  <2>7. FramesInv'
    <3> SUFFICES ASSUME NEW i \in 1..Len(frames'), NEW j \in 1..Len(frames'), i <= j
                 PROVE  frames'[i] <= frames'[j]
      BY <1>2, <2>1 DEF FramesInv
    <3>1. CASE j \in 1..Len(frames)
      BY <1>2, <2>1, <3>1 DEF FramesInv
    <3>2. CASE j = Len(frames) + 1
      <4>1. CASE i = j
        BY <1>2, <2>1, <3>2, <4>1
      <4>2. CASE i # j
        <5>1. i \in 1..Len(frames)
          BY <1>2, <2>1, <3>2, <4>2
        <5> QED
          BY <1>2, <2>1, <2>3, <2>4, <3>2, <5>1
      <4> QED
        BY <4>1, <4>2
    <3> QED
      BY <1>2, <2>1, <3>1, <3>2
  <2>8. EvidenceInv' /\ DecidedInv'
    <3> SUFFICES ASSUME NEW t \in tracks
                 PROVE  /\ LastMatch(t)' >= 1
                        /\ frames'[LastMatch(t)'] - t.lastDynamic <= LongestSupport
                        /\ ~t.confirmed => t.missed >= Age(t)' - InitWindowSize
      BY <1>1, <1>a DEF EvidenceInv, DecidedInv
    <3>1. t.missed \in Nat /\ t.born \in Nat
      BY DEF TrackerTypeOK, Track
    <3>2. LastMatch(t)' = Len(frames) - t.missed /\ LastMatch(t) = Len(frames) - t.missed
      BY <1>1, <1>2, <2>1, <3>1 DEF LastMatch
    <3>3. LastMatch(t) \in 1..Len(frames)
      BY <1>2, <3>1, <3>2 DEF EvidenceInv
    <3>4. frames'[LastMatch(t)'] = frames[LastMatch(t)]
      BY <2>1, <3>2, <3>3
    <3>5. Age(t)' = Age(t) + 1 /\ Age(t) \in Int
      BY <1>2, <2>1, <3>1 DEF Age
    <3> QED
      BY <1>1, <3>1, <3>2, <3>3, <3>4, <3>5, HitsAssumption DEF EvidenceInv, DecidedInv
  <2> QED
    BY <2>5, <2>6, <2>7, <2>8
<1>b. CASE ResetForBackwardJump(stamp) /\ frames' = <<stamp>> /\ tracks' = {}
  <2>1. frames' \in Seq(Stamps) /\ Len(frames') = 1 /\ frames'[1] = stamp
    BY <1>b
  <2>2. NamesInv'
    BY <1>b DEF NamesInv, Names
  <2>3. order' \in Seq(Nat) /\ cursor' \in Nat \X Nat
    BY <1>b, <2>2, PrepareType DEF Begin, TrackerTypeOK, Names
  <2>4. TrackerTypeOK'
    BY <1>1, <1>b, <2>1, <2>3 DEF TrackerTypeOK, identities
  <2>5. FramesInv'
    BY <1>2, <2>1 DEF FramesInv
  <2>6. EvidenceInv' /\ DecidedInv'
    BY <1>b DEF EvidenceInv, DecidedInv
  <2> QED
    BY <2>2, <2>4, <2>5, <2>6
<1> QED
  BY <1>a, <1>b DEF Begin

\* The survivor's names, the duplicate's estimate.
LEMMA TakesOverTrack ==
    ASSUME NEW s, NEW c, Live(s), Live(c), s.confirmed, c.confirmed
    PROVE  /\ Live(TakesOver(s, c))
           /\ TakesOver(s, c).uid = s.uid /\ TakesOver(s, c).display = s.display
           /\ TakesOver(s, c).confirmed
           /\ TakesOver(s, c).missed = c.missed /\ TakesOver(s, c).lastDynamic = c.lastDynamic
           /\ TakesOver(s, c).born \in {s.born, c.born}
<1> DEFINE b == IF s.born < c.born THEN s.born ELSE c.born
           r == [c EXCEPT !.uid = s.uid, !.display = s.display, !.born = b,
                          !.near = s.near \/ @, !.gate = s.gate \/ @]
<1>1. s \in Track /\ c \in Track /\ b \in {s.born, c.born}
  BY DEF Live
<1>2. TakesOver(s, c) = r
  BY DEF TakesOver
<1> HIDE DEF b
<1>3. /\ r \in Track
      /\ r.uid = s.uid /\ r.display = s.display /\ r.born = b /\ r.missed = c.missed
      /\ r.confirmed = c.confirmed /\ r.lastDynamic = c.lastDynamic /\ r.window = c.window
  BY <1>1 DEF Track
<1> HIDE DEF r
<1> QED
  BY <1>1, <1>2, <1>3 DEF Live

LEMMA AbsorbStep ==
    ASSUME TrackerInv, NEW s \in tracks, NEW c \in tracks, Absorb(s, c)
    PROVE  TrackerInv'
<1> USE DEF TrackerInv
<1>1. /\ s # c /\ s.confirmed /\ c.confirmed
      /\ cursor' \in Nat \X Nat
      /\ UNCHANGED <<step, frames, has_odom, identities, order>>
  BY DEF Absorb, Duplicates, Due, TrackerTypeOK
<1>2. Now' = Now /\ (\A t \in tracks : Live(t)) /\ Now \in Nat
  BY <1>1, LiveTracks DEF Now
<1>a. CASE tracks' = tracks \ {c}
  <2>1. TrackerTypeOK'
    BY <1>1, <1>2, <1>a DEF TrackerTypeOK, identities
  <2>2. FramesInv'
    BY <1>1 DEF FramesInv
  <2>3. NamesInv'
    BY <1>1, <1>a DEF NamesInv, Names, identities
  <2>4. EvidenceInv'
    BY <1>1, <1>2, <1>a DEF EvidenceInv, LastMatch
  <2>5. DecidedInv'
    BY <1>1, <1>a DEF DecidedInv, Age
  <2> QED
    BY <2>1, <2>2, <2>3, <2>4, <2>5
<1>b. CASE tracks' = (tracks \ {s, c}) \cup {TakesOver(s, c)}
  <2> DEFINE r == TakesOver(s, c)
  <2>0. /\ Live(r) /\ r.confirmed /\ r.uid = s.uid /\ r.display = s.display
        /\ r.missed = c.missed /\ r.lastDynamic = c.lastDynamic
    BY <1>1, <1>2, TakesOverTrack
  <2> HIDE DEF r
  <2>1. TrackerTypeOK'
    BY <1>1, <1>2, <1>b, <2>0 DEF TrackerTypeOK, Live, identities, r
  <2>2. FramesInv'
    BY <1>1 DEF FramesInv
  <2>3. NamesInv'
    BY <1>1, <1>b, <2>0 DEF NamesInv, Names, identities, r
  <2>4. EvidenceInv'
    <3> SUFFICES ASSUME NEW t \in tracks'
                 PROVE  /\ LastMatch(t) >= 1
                        /\ frames[LastMatch(t)] - t.lastDynamic <= LongestSupport
                        /\ step = "idle" /\ t.missed > TrackLifetimeFrames
                              => Now - t.lastDynamic <= LostTrackPredictionTime
      BY <1>1, <1>2 DEF EvidenceInv, LastMatch
    <3>1. CASE t \in tracks
      BY <3>1 DEF EvidenceInv
    <3>2. CASE t = r
      <4>1. LastMatch(t) = LastMatch(c)
        BY <2>0, <3>2 DEF LastMatch
      <4> QED
        BY <2>0, <3>2, <4>1 DEF EvidenceInv
    <3> QED
      BY <1>b, <3>1, <3>2 DEF r
  <2>5. DecidedInv'
    BY <1>1, <1>b, <2>0 DEF DecidedInv, Age, r
  <2> QED
    BY <2>1, <2>2, <2>3, <2>4, <2>5
<1> QED
  BY <1>a, <1>b DEF Absorb

LEMMA AssociateStep ==
    ASSUME TrackerInv, NEW D \in SUBSET tracks, NEW count \in Nat,
           NEW S \in SUBSET (tracks \ D), NEW F, NEW N,
           Associate(D, S, N, F, NewUids(count))
    PROVE  /\ TrackerInv'
           /\ \A t \in tracks' :
                 \/ \E s \in tracks : /\ t.uid = s.uid /\ t.born = s.born
                                      /\ s.confirmed => t.confirmed /\ t.display = s.display
                 \/ t.uid >= next_track_uid /\ t.born = Len(frames)
<1> USE DEF TrackerInv
<1> DEFINE uids == NewUids(count)
           T    == Associated(D, S, N, F, uids)
<1>1. /\ step = "predicted" /\ step' = "associated"
      /\ tracks' = Numbered(T)
      /\ next_track_uid' = next_track_uid + Cardinality(uids)
      /\ next_display_id' = next_display_id + Cardinality(Unnamed(T))
      /\ Prepare(tracks')
      /\ UNCHANGED <<frames, has_odom>>
  BY DEF Associate
<1>2. Picked(D, S)
  BY DEF Associate, Picked
<1>3. (\A t \in tracks : Live(t)) /\ Now \in Nat /\ Len(frames) \in Nat \ {0} /\ Now' = Now
  BY <1>1, LiveTracks DEF FramesInv, Now
<1>4. next_track_uid \in Nat /\ next_display_id \in Nat
  BY DEF TrackerTypeOK
<1>5. uids \in SUBSET Nat /\ Cardinality(uids) = count /\ \A u \in uids : u >= next_track_uid
  <2>1. Cardinality(uids) = count
    BY <1>4, FS_Interval DEF NewUids
  <2> QED
    BY <1>4, <2>1 DEF NewUids
<1>6. Names(T, next_track_uid + count, next_display_id)
  BY <1>2, <1>3, <1>4, AssociatedNames DEF NamesInv
<1>7. \A t \in T : Live(t) /\ ((\E s \in tracks : Continues(t, s)) \/ (t.uid \in uids /\ Starts(t)))
  BY <1>2, <1>3, <1>5, AssociatedTracks
<1> HIDE DEF T, uids
<1>8. T \in SUBSET Track /\ next_track_uid + count \in Nat
  BY <1>4, <1>7 DEF Live
<1>9. IsFiniteSet(T) /\ Cardinality(Unnamed(T)) \in Nat
  <2>1. IsFiniteSet(T)
    BY <1>6, <1>8, NamesFinite
  <2> QED
    BY <2>1, FS_Subset, FS_CardinalityType DEF Unnamed
<1>10. \A t \in tracks' : t \in Track /\ \E u \in T : IsNamed(t, u)
  BY <1>1, <1>4, <1>8, <1>9, NumberedTracks
<1>11. Names(tracks', next_track_uid + count, next_display_id + Cardinality(Unnamed(T)))
  BY <1>1, <1>4, <1>6, <1>8, <1>9, NumberedNames
<1>12. NamesInv'
  BY <1>1, <1>5, <1>10, <1>11 DEF NamesInv, Names, IsNamed
<1>13. TrackerTypeOK'
  <2>1. order' \in Seq(Nat) /\ cursor' \in Nat \X Nat
    BY <1>1, <1>8, <1>10, <1>11, PrepareType
  <2>2. \A t \in tracks' : /\ t.born \in 1..Len(frames) /\ t.lastDynamic <= Now
                           /\ Len(t.window) <= InitWindowSize
    BY <1>7, <1>10 DEF Live, IsNamed
  <2> QED
    BY <1>1, <1>3, <1>4, <1>5, <1>9, <1>10, <2>1, <2>2 DEF TrackerTypeOK
<1>14. FramesInv'
  BY <1>1, <1>3 DEF FramesInv
<1>15. \A t \in tracks' : t.missed \in Nat /\ t.lastDynamic \in Nat /\ LastMatch(t)' = Len(frames) - t.missed
  BY <1>1, <1>3, <1>10 DEF LastMatch, Track
<1>16. EvidenceInv'
  <2> SUFFICES ASSUME NEW t \in tracks'
               PROVE  /\ Len(frames) - t.missed >= 1
                      /\ frames[Len(frames) - t.missed] - t.lastDynamic <= LongestSupport
    BY <1>1, <1>15 DEF EvidenceInv
  <2>1. PICK u \in T : IsNamed(t, u)
    BY <1>10
  <2>2. Now = frames[Len(frames)]
    BY <1>3 DEF Now
  <2>3. t.missed \in Nat /\ t.lastDynamic \in Nat /\ LongestSupport \in Nat
        /\ StaticSupportHoldTime \in Nat /\ StaticSupportHoldTime <= LongestSupport
    BY <1>15, LifetimeAssumption DEF LongestSupport
  <2>4. ASSUME NEW s \in tracks, Continues(u, s), u.missed = s.missed + 1,
               u.lastDynamic = s.lastDynamic
        PROVE  /\ Len(frames) - t.missed >= 1
               /\ frames[Len(frames) - t.missed] - t.lastDynamic <= LongestSupport
    <3>1. s.missed \in Nat /\ t.missed = s.missed + 1 /\ t.lastDynamic = s.lastDynamic
      BY <1>3, <2>1, <2>4 DEF IsNamed, Live, Track
    <3>2. LastMatch(s) = Len(frames) - t.missed
      BY <1>1, <1>3, <3>1 DEF LastMatch
    <3> QED
      BY <3>1, <3>2 DEF EvidenceInv
  <2>5. ASSUME u.missed = 0, \/ u.lastDynamic = Now
                             \/ Now - u.lastDynamic <= StaticSupportHoldTime
        PROVE  /\ Len(frames) - t.missed >= 1
               /\ frames[Len(frames) - t.missed] - t.lastDynamic <= LongestSupport
    <3>1. t.missed = 0 /\ t.lastDynamic = u.lastDynamic /\ Len(frames) - t.missed = Len(frames)
      BY <1>3, <2>1, <2>5 DEF IsNamed
    <3>2. Now - t.lastDynamic <= LongestSupport
      BY <1>3, <2>3, <2>5, <3>1
    <3> QED
      BY <1>3, <2>2, <3>1, <3>2
  <2> QED
    BY <1>7, <2>4, <2>5 DEF Continues, Starts
<1>17. DecidedInv'
  <2> SUFFICES ASSUME NEW t \in tracks', ~t.confirmed
               PROVE  IF t.missed = 0 THEN Undecided(t, has_odom)
                      ELSE t.missed >= Age(t) - InitWindowSize + 1
    BY <1>1 DEF DecidedInv, Age
  <2>1. PICK u \in T : IsNamed(t, u)
    BY <1>10
  <2>2. CASE u.missed = 0
    <3>1. Undecided(u, has_odom)
      <4>1. ~u.confirmed
        BY <2>1 DEF IsNamed
      <4>2. CASE Starts(u)
        BY <4>1, <4>2 DEF Starts
      <4>3. ASSUME NEW s \in tracks, Continues(u, s) PROVE Undecided(u, has_odom)
        BY <1>3, <2>2, <4>1, <4>3 DEF Continues, Live, Track
      <4> QED
        BY <1>7, <4>2, <4>3
    <3> QED
      BY <2>1, <2>2, <3>1 DEF IsNamed, Undecided, ConfirmationHitThreshold
  <2>3. CASE u.missed # 0
    <3>1. PICK s \in tracks : Continues(u, s)
      BY <1>7, <2>3 DEF Starts
    <3>2. s.missed \in Nat /\ t.missed = s.missed + 1 /\ ~s.confirmed /\ t.born = s.born
          /\ s.born \in Nat
      BY <1>3, <2>1, <2>3, <3>1 DEF IsNamed, Continues, Live, Track
    <3>3. s.missed >= Age(s) - InitWindowSize
      BY <1>1, <3>2 DEF DecidedInv
    <3>4. Age(t) = Age(s) /\ Age(s) \in Int
      BY <1>3, <3>2 DEF Age
    <3> QED
      BY <3>2, <3>3, <3>4, HitsAssumption
  <2> QED
    BY <2>2, <2>3
<1>18. ASSUME NEW t \in tracks'
       PROVE  \/ \E s \in tracks : /\ t.uid = s.uid /\ t.born = s.born
                                   /\ s.confirmed => t.confirmed /\ t.display = s.display
              \/ t.uid >= next_track_uid /\ t.born = Len(frames)
  <2>1. PICK u \in T : IsNamed(t, u)
    BY <1>10
  <2>2. ASSUME NEW s \in tracks, Continues(u, s)
        PROVE  /\ t.uid = s.uid /\ t.born = s.born
               /\ s.confirmed => t.confirmed /\ t.display = s.display
    BY <2>1, <2>2 DEF IsNamed, Continues, NamesInv
  <2>3. CASE u.uid \in uids /\ Starts(u)
    BY <1>5, <2>1, <2>3 DEF IsNamed, Starts
  <2> QED
    BY <1>7, <2>2, <2>3
<1> QED
  BY <1>12, <1>13, <1>14, <1>16, <1>17, <1>18

LEMMA FinishStep ==
    ASSUME TrackerInv, NEW K \in SUBSET tracks, Finish(K)
    PROVE  TrackerInv'
<1> USE DEF TrackerInv
<1>1. /\ step = "associated" /\ step' = "idle"
      /\ tracks' = {t \in K : ~Expired(t)} /\ tracks' \subseteq tracks
      /\ order' = <<>> /\ cursor' = <<0, 0>>
      /\ UNCHANGED <<frames, has_odom, identities>>
  BY DEF Finish
<1>2. Now' = Now /\ (\A t \in tracks : Live(t)) /\ Now \in Nat /\ Len(frames) \in Nat
  BY <1>1, LiveTracks DEF Now
<1>3. TrackerTypeOK'
  <2>1. order' \in Seq(Nat) /\ cursor' \in Nat \X Nat
    BY <1>1
  <2> QED
    BY <1>1, <1>2, <2>1 DEF TrackerTypeOK, identities
<1>4. FramesInv'
  BY <1>1 DEF FramesInv
<1>5. NamesInv'
  BY <1>1 DEF NamesInv, Names, identities
<1>6. EvidenceInv'
  <2> SUFFICES ASSUME NEW t \in tracks'
               PROVE  /\ LastMatch(t)' >= 1
                      /\ frames[LastMatch(t)'] - t.lastDynamic <= LongestSupport
                      /\ t.missed > TrackLifetimeFrames
                            => Now - t.lastDynamic <= LostTrackPredictionTime
    BY <1>1, <1>2 DEF EvidenceInv
  <2>1. t \in tracks /\ ~Expired(t)
    BY <1>1
  <2>2. LastMatch(t)' = LastMatch(t)
    BY <1>1 DEF LastMatch
  <2> QED
    BY <2>1, <2>2 DEF EvidenceInv, Expired, IsWithinLostPredictionWindow
<1>7. DecidedInv'
  <2> SUFFICES ASSUME NEW t \in tracks', ~t.confirmed
               PROVE  t.missed >= Age(t) - InitWindowSize + 1
    BY <1>1 DEF DecidedInv, Age
  <2>1. t \in tracks /\ ~Expired(t) /\ Age(t) \in Int /\ InitWindowSize \in Nat
    BY <1>1, <1>2, HitsAssumption DEF Live, Age
  <2>2. CASE t.missed = 0
    <3>1. Undecided(t, has_odom)
      BY <1>1, <2>1, <2>2 DEF DecidedInv
    <3>2. ~(Age(t) >= InitWindowSize)
      BY <2>1, <3>1 DEF Expired, Undecided
    <3> QED
      BY <2>1, <2>2, <3>2
  <2>3. CASE t.missed # 0
    BY <1>1, <2>1, <2>3 DEF DecidedInv
  <2> QED
    BY <2>2, <2>3
<1> QED
  BY <1>3, <1>4, <1>5, <1>6, <1>7

-----------------------------------------------------------------------------
(* Safety *)

LEMMA TrackerStep ==
    ASSUME TrackerInv, [TrackerNext]_vars
    PROVE  TrackerInv'
<1>1. ASSUME NEW stamp \in Stamps, NEW odom \in BOOLEAN, Begin(stamp, odom)
      PROVE  TrackerInv'
  BY <1>1, BeginStep
<1>2. ASSUME NEW s \in tracks, NEW c \in tracks, Absorb(s, c)
      PROVE  TrackerInv'
  BY <1>2, AbsorbStep
<1>3. ASSUME NEW D \in SUBSET tracks, NEW count \in MayCreate, NEW S \in SUBSET (tracks \ D),
             NEW F, NEW N, Associate(D, S, N, F, NewUids(count))
      PROVE  TrackerInv'
  <2>1. count \in Nat
    BY DEF MayCreate
  <2> QED
    BY <1>3, <2>1, AssociateStep
<1>4. ASSUME NEW K \in SUBSET tracks, Finish(K)
      PROVE  TrackerInv'
  BY <1>4, FinishStep
<1>5. CASE UNCHANGED vars
  BY <1>5 DEF vars, loop, identities, TrackerInv, TrackerTypeOK, FramesInv, NamesInv, Names,
       EvidenceInv,
              DecidedInv, LastMatch, Age, Now
<1> QED
  BY <1>1, <1>2, <1>3, <1>4, <1>5 DEF TrackerNext, Waits

LEMMA TrackerInvariance == TrackerSpec => []TrackerInv
BY TrackerInitInv, TrackerStep, PTL DEF TrackerSpec

\* The variables of the tracker have their types, and tracks lie within the frames.
THEOREM TrackerTypeCorrect == TrackerSpec => []TrackerTypeOK
BY TrackerInvariance, PTL DEF TrackerInv

\* No two tracks ever share a track_uid or a display_id.
THEOREM TracksHaveTheirOwnNames == TrackerSpec => []IdentitiesDistinct
<1>1. TrackerInv => IdentitiesDistinct
  BY DEF TrackerInv, NamesInv, Names, IdentitiesDistinct
<1> QED
  BY <1>1, TrackerInvariance, PTL

\* However it was matched by static support or merged, a track ends within
\* track_lifetime_frames frames after its evidence became too old.
THEOREM TracksEndWithTheirEvidence == TrackerSpec => []LivesOnEvidence
<1>1. TrackerInv => LivesOnEvidence
  <2> SUFFICES ASSUME TrackerInv, step = "idle", NEW t \in tracks,
                      Len(frames) - TrackLifetimeFrames >= 1
               PROVE  frames[Len(frames) - TrackLifetimeFrames] - t.lastDynamic <= LongestSupport
    BY DEF LivesOnEvidence, LongestSupport
  <2>1. /\ Len(frames) \in Nat /\ Now \in Nat /\ t.missed \in Nat /\ t.lastDynamic \in Nat
        /\ \A i \in 1..Len(frames) : frames[i] \in Nat
    <3>1. \A i \in 1..Len(frames) : frames[i] \in Stamps
      BY ElementOfSeq DEF TrackerInv, TrackerTypeOK
    <3> QED
      BY <3>1, LiveTracks, StampAssumption DEF TrackerInv, Live, Track
  <2>2. LastMatch(t) = Len(frames) - t.missed /\ LastMatch(t) >= 1
    BY <2>1 DEF TrackerInv, EvidenceInv, LastMatch
  <2>3. LongestSupport \in Nat /\ LostTrackPredictionTime <= LongestSupport
    BY LifetimeAssumption DEF LongestSupport
  <2> DEFINE n == Len(frames) - TrackLifetimeFrames
  <2>4. n \in 1..Len(frames) /\ Len(frames) \in 1..Len(frames) /\ Now = frames[Len(frames)]
    BY <2>1, LifetimeAssumption DEF Now
  <2>5. CASE t.missed > TrackLifetimeFrames
    <3>1. frames[n] <= Now
      BY <2>4 DEF TrackerInv, FramesInv
    <3>2. Now - t.lastDynamic <= LostTrackPredictionTime
      BY <2>5 DEF TrackerInv, EvidenceInv
    <3> QED
      BY <2>1, <2>3, <2>4, <3>1, <3>2, LifetimeAssumption
  <2>6. CASE ~(t.missed > TrackLifetimeFrames)
    <3>1. LastMatch(t) \in 1..Len(frames) /\ n <= LastMatch(t)
      BY <2>1, <2>2, <2>6, LifetimeAssumption
    <3>2. frames[n] <= frames[LastMatch(t)]
      BY <2>4, <3>1 DEF TrackerInv, FramesInv
    <3>3. frames[LastMatch(t)] - t.lastDynamic <= LongestSupport
      BY DEF TrackerInv, EvidenceInv
    <3> QED
      BY <2>1, <2>3, <2>4, <3>1, <3>2, <3>3
  <2> QED
    BY <2>5, <2>6
<1> QED
  BY <1>1, TrackerInvariance, PTL

\* A candidate does not outlive its window unless it is missed in every frame.
THEOREM CandidatesGetDecided == TrackerSpec => []CandidatesAreDecided
<1>1. TrackerInv => CandidatesAreDecided
  BY DEF TrackerInv, DecidedInv, CandidatesAreDecided
<1> QED
  BY <1>1, TrackerInvariance, PTL

-----------------------------------------------------------------------------
(* Steps *)

\* what a step makes of the tracks, as IdentitiesEndForGood has it
LEMMA TracksGoOn ==
    ASSUME TrackerInv, [TrackerNext]_vars
    PROVE  \A t \in tracks' :
              \/ t.uid >= next_track_uid
              \/ \E s \in tracks : /\ s.uid = t.uid
                                   /\ s.confirmed => (t.confirmed /\ t.display = s.display)
<1> DEFINE GoesOn == \A t \in tracks' :
              \/ t.uid >= next_track_uid
              \/ \E s \in tracks : /\ s.uid = t.uid
                                   /\ s.confirmed => (t.confirmed /\ t.display = s.display)
<1>0. tracks' \subseteq tracks => GoesOn
  OBVIOUS
<1>1. ASSUME NEW stamp \in Stamps, NEW odom \in BOOLEAN, Begin(stamp, odom)
      PROVE  tracks' \subseteq tracks
  BY <1>1 DEF Begin
<1>2. ASSUME NEW s \in tracks, NEW c \in tracks, Absorb(s, c)
      PROVE  GoesOn
  <2>1. s.confirmed /\ c.confirmed /\ Live(s) /\ Live(c)
    BY <1>2, LiveTracks DEF Absorb, Duplicates, TrackerInv
  <2>2. /\ TakesOver(s, c).uid = s.uid /\ TakesOver(s, c).display = s.display
        /\ TakesOver(s, c).confirmed
    BY <2>1, TakesOverTrack
  <2> QED
    BY <1>2, <2>2 DEF Absorb
<1>3. ASSUME NEW D \in SUBSET tracks, NEW count \in MayCreate, NEW S \in SUBSET (tracks \ D),
             NEW F, NEW N, Associate(D, S, N, F, NewUids(count))
      PROVE  GoesOn
  <2>1. count \in Nat
    BY DEF MayCreate
  <2> QED
    BY <1>3, <2>1, AssociateStep
<1>4. ASSUME NEW K \in SUBSET tracks, Finish(K)
      PROVE  tracks' \subseteq tracks
  BY <1>4 DEF Finish
<1>5. CASE UNCHANGED vars
  BY <1>5 DEF vars
<1> HIDE DEF GoesOn
<1>6. GoesOn
  BY <1>0, <1>1, <1>2, <1>3, <1>4, <1>5 DEF TrackerNext, Waits, vars
<1> QED
  BY <1>6 DEF GoesOn

\* An identity that has ended does not come back, and a confirmed track keeps its
\* display_id while it lives.
THEOREM IdentitiesStayEnded == TrackerSpec => IdentitiesEndForGood
<1>1. TrackerInv /\ [TrackerNext]_vars =>
         [\A t \in tracks' :
             \/ t.uid >= next_track_uid
             \/ \E s \in tracks : /\ s.uid = t.uid
                                  /\ s.confirmed => (t.confirmed /\ t.display = s.display)]_vars
  BY TracksGoOn
<1> QED
  BY <1>1, TrackerInvariance, PTL DEF TrackerSpec, IdentitiesEndForGood

\* The tracker is the clock with births that the node takes it for.
THEOREM TrackerIsATrackClock == TrackerSpec => ImplementsTrackClock
<1> DEFINE births == {frames[t.born] : t \in tracks}
<1>1. TrackerInit => Node!Init
  BY DEF TrackerInit, Node!Init, Now
<1>2. TrackerInv /\ [TrackerNext]_vars => [Node!Next]_Node!trackClock
  <2> SUFFICES ASSUME TrackerInv, [TrackerNext]_vars PROVE [Node!Next]_Node!trackClock
    OBVIOUS
  <2> DEFINE Same == frames' = frames /\ births' \subseteq births \cup {Now}
  <2>0. Same => Node!Revise
    BY DEF Node!Revise, Now
  <2>1. ASSUME NEW stamp \in Stamps, NEW odom \in BOOLEAN, Begin(stamp, odom)
        PROVE  Node!Next
    <3>1. stamp \in Nat /\ frames \in Seq(Stamps) /\ Len(frames) \in Nat
      BY StampAssumption, LiveTracks DEF TrackerInv, TrackerTypeOK
    <3>2. CASE Newer(stamp) /\ frames' = Append(frames, stamp) /\ UNCHANGED tracks
      <4>1. Now' = stamp
        BY <3>1, <3>2 DEF Now
      <4>2. \A t \in tracks : frames'[t.born] = frames[t.born]
        BY <3>1, <3>2 DEF TrackerInv, TrackerTypeOK
      <4>3. births' = births
        BY <3>2, <4>2
      <4> QED
        BY <3>1, <3>2, <4>1, <4>3 DEF Newer, Node!Next, Node!Advance
    <3>3. CASE ResetForBackwardJump(stamp) /\ frames' = <<stamp>> /\ tracks' = {}
      <4>1. Now' = stamp /\ births' = {}
        BY <3>3 DEF Now
      <4> QED
        BY <3>1, <3>3, <4>1 DEF ResetForBackwardJump, Node!Next, Node!Restart
    <3> QED
      BY <2>1, <3>2, <3>3 DEF Begin
  <2>2. ASSUME NEW s \in tracks, NEW c \in tracks, Absorb(s, c)
        PROVE  Same
    <3>1. Live(s) /\ Live(c) /\ s.confirmed /\ c.confirmed
      BY <2>2, LiveTracks DEF Absorb, Duplicates, TrackerInv
    <3>2. TakesOver(s, c).born \in {s.born, c.born}
      BY <3>1, TakesOverTrack
    <3> QED
      BY <2>2, <3>2 DEF Absorb
  <2>3. ASSUME NEW D \in SUBSET tracks, NEW count \in MayCreate, NEW S \in SUBSET (tracks \ D),
               NEW F, NEW N, Associate(D, S, N, F, NewUids(count))
        PROVE  Same
    <3>1. count \in Nat
      BY DEF MayCreate
    <3>2. \A t \in tracks' : (\E s \in tracks : t.born = s.born) \/ t.born = Len(frames)
      BY <2>3, <3>1, AssociateStep
    <3>3. frames' = frames /\ Now = frames[Len(frames)]
      BY <2>3 DEF Associate, TrackerInv, FramesInv, Now
    <3> QED
      BY <3>2, <3>3
  <2>4. ASSUME NEW K \in SUBSET tracks, Finish(K)
        PROVE  Same
    BY <2>4 DEF Finish
  <2>5. CASE UNCHANGED vars
    BY <2>5 DEF vars, Node!trackClock, Now
  <2> HIDE DEF Same
  <2> QED
    BY <2>0, <2>1, <2>2, <2>3, <2>4, <2>5 DEF TrackerNext, Waits, Node!Next
<1> QED
  BY <1>1, <1>2, TrackerInvariance, PTL DEF TrackerSpec, ImplementsTrackClock, Node!Spec
=============================================================================
