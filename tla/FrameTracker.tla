---------------------------- MODULE FrameTracker ----------------------------
(***************************************************************************)
(* The integrated tracker of the M-detector node (FrameTracker.cpp): the   *)
(* life of a track from the detection that creates it over its candidate   *)
(* phase and confirmation to its removal, the merging of duplicates, and   *)
(* the two identities a track carries.                                     *)
(*                                                                         *)
(* One call of update() is several steps, because the consolidation of     *)
(* duplicates is a loop whose iterations see each other's effects: Begin,  *)
(* an Absorb for each merge of the first consolidation, Associate, an      *)
(* Absorb for each merge of the second, Finish.  Geometry is left open:    *)
(* which detections match which tracks, which are near the vehicle or      *)
(* fast, where a track is when duplicates are looked for (`place'), and    *)
(* which tracks the distance, bounding box, ground and volume gates drop.  *)
(* The node never calls update() with a zero stamp.                        *)
(***************************************************************************)
EXTENDS Integers, FiniteSets, SequencesExt

CONSTANTS
    Stamps,                   \* time stamps of frames, in ticks
    ResetGap,                 \* kBackwardJumpResetSeconds
    MinInitHits,              \* min_init_hits
    InitWindowSize,           \* init_window_size
    FastConfirmHits,          \* near_range_fast_confirm_hits
    TrackLifetimeFrames,      \* track_lifetime_frames
    LostTrackPredictionTime,  \* lost_track_prediction_time, in ticks
    StaticSupportHoldTime,    \* static_support_hold_time, in ticks
    SpeedGate,                \* static_support_min_activation_speed > 0
    Places,                   \* positions along a line, for the duplicate guard
    DuplicateGuardDistance,   \* duplicate_guard_distance
    MaxFrames,                \* bound: frames since the last reset
    MaxTracks,                \* bound: tracks alive at once
    MaxIdentities             \* bound: tracks ever created

ASSUME StampAssumption    == Stamps \subseteq Nat \ {0}
ASSUME GapAssumption      == ResetGap \in Nat \ {0}
ASSUME HitsAssumption     == /\ MinInitHits \in Nat \ {0}
                             /\ InitWindowSize \in Nat /\ InitWindowSize >= MinInitHits
                             /\ FastConfirmHits \in 1..InitWindowSize
ASSUME LifetimeAssumption == /\ TrackLifetimeFrames \in Nat
                             /\ LostTrackPredictionTime \in Nat
                             /\ StaticSupportHoldTime \in Nat /\ SpeedGate \in BOOLEAN
ASSUME PlaceAssumption    == Places \subseteq Int /\ DuplicateGuardDistance \in Int
ASSUME BoundAssumption    == MaxFrames \in Nat /\ MaxTracks \in Nat /\ MaxIdentities \in Nat

VARIABLES
    step,             \* "idle", or "predicted" or "associated" within an update
    frames,           \* stamps of the frames since the last reset: its length is
                      \* frame_index_, its last element last_frame_stamp_
    has_odom,         \* has_odom_ of the last frame
    tracks,           \* tracks_, a set: the code's order is that of the track_uid
    next_track_uid,   \* next_track_uid_
    next_display_id,  \* next_display_id_
    place,            \* positions of the confirmed tracks, within an update
    order,            \* the priority of a consolidation, as track_uids
    cursor            \* the survivor and candidate its loops are at, as positions in order

identities == <<next_track_uid, next_display_id>>
loop       == <<place, order, cursor>>
vars       == <<step, frames, has_odom, tracks, identities, loop>>

NoDisplay == -1

Track == [uid: Nat, display: Nat \cup {NoDisplay}, born: Nat, missed: Nat,
          confirmed: BOOLEAN, lastDynamic: Nat, near: BOOLEAN, gate: BOOLEAN,
          window: Seq(BOOLEAN)]

Uids(T) == {t.uid : t \in T}
Now     == IF frames = <<>> THEN 0 ELSE frames[Len(frames)]
Age(t)  == Len(frames) - t.born + 1

TrackerInit ==
    /\ step = "idle" /\ frames = <<>> /\ has_odom = FALSE
    /\ tracks = {}
    /\ next_track_uid = 0 /\ next_display_id = 0
    /\ place = <<>> /\ order = <<>> /\ cursor = <<0, 0>>

-----------------------------------------------------------------------------
(* The rules an update applies to a track *)

\* Faulty variants: static support renews itself for good; a candidate gets one frame
\* more than its window.
SupportRenewsItself(t) == t.confirmed /\ (SpeedGate => t.gate)
ExpiresLate(t) ==
    \/ t.missed > TrackLifetimeFrames
    \/ ~t.confirmed /\ Age(t) > InitWindowSize

CountHits(window) == Cardinality({i \in DOMAIN window : window[i]})

\* hit_window.push_back, trimmed to init_window_size
Pushed(window, hit) ==
    LET grown == Append(window, hit)
    IN  IF Len(grown) > InitWindowSize THEN Tail(grown) ELSE grown

ConfirmationHitThreshold(t, odom) == IF t.near /\ odom THEN FastConfirmHits ELSE MinInitHits

IsWithinLostPredictionWindow(t) == Now - t.lastDynamic <= LostTrackPredictionTime

\* whether a dynamic detection is nearby is left open
IsStaticSupportTrackEligible(t) ==
    t.confirmed /\ (SpeedGate => t.gate) /\ Now - t.lastDynamic <= StaticSupportHoldTime

\* RegisterMiss
Missed(t) == [t EXCEPT !.missed = @ + 1, !.window = Pushed(@, FALSE)]

\* Confirmation as far as UpdateTrack and CreateTrack decide it; Numbered gives out the name.
Judged(t) ==
    [t EXCEPT !.confirmed = @ \/ CountHits(t.window) >= ConfirmationHitThreshold(t, has_odom)]

\* UpdateTrack with a dynamic detection, near the vehicle or not, fast or not
Detected(t, near, fast) ==
    Judged([t EXCEPT !.missed = 0, !.window = Pushed(@, TRUE), !.lastDynamic = Now,
                     !.near = @ \/ near, !.gate = @ \/ fast])

\* UpdateTrack with a static support detection
Supported(t) == Judged([t EXCEPT !.missed = 0, !.window = Pushed(@, TRUE)])

CreateTrack(uid, near) ==
    Judged([uid |-> uid, display |-> NoDisplay, born |-> Len(frames), missed |-> 0,
            confirmed |-> FALSE, lastDynamic |-> Now, near |-> near, gate |-> FALSE,
            window |-> <<TRUE>>])

\* Faulty variant: the counter is read once per frame.
NumberedOnce(T) ==
    {IF t.confirmed /\ t.display = NoDisplay THEN [t EXCEPT !.display = next_display_id] ELSE t : t \in T}

\* Tracks confirmed in this frame are named in the order of the vector.
Unnamed(T)  == {t \in T : t.confirmed /\ t.display = NoDisplay}
Numbered(T) ==
    {IF t \in Unnamed(T)
     THEN [t EXCEPT !.display = next_display_id + Cardinality({s \in Unnamed(T) : s.uid < t.uid})]
     ELSE t : t \in T}

\* PruneTracks: missed for too long, or still unconfirmed at the end of the window
Expired(t) ==
    \/ /\ t.missed > TrackLifetimeFrames
       /\ ~(t.confirmed /\ IsWithinLostPredictionWindow(t))
    \/ /\ ~t.confirmed
       /\ Age(t) >= InitWindowSize
       /\ CountHits(t.window) < ConfirmationHitThreshold(t, has_odom)

-----------------------------------------------------------------------------
(* ConsolidateDuplicateConfirmedTracks *)

\* Oldest first; which of several tracks of one age comes first (total_hits
\* decides, then track_uid) is left open.
Priorities(T) ==
    {uids \in SetToSeqs(Uids(T)) :
        \A s, t \in T : \A i, j \in 1..Len(uids) :
            (uids[i] = s.uid /\ uids[j] = t.uid /\ s.born < t.born) => i < j}

Close(p, q) == p - q <= DuplicateGuardDistance /\ q - p <= DuplicateGuardDistance

Prepare(T) ==
    /\ place' \in [Uids({t \in T : t.confirmed}) -> Places]
    /\ order' \in Priorities(T)
    /\ cursor' = <<0, 0>>

Duplicates(s, c) ==
    s # c /\ s.confirmed /\ c.confirmed /\ Close(place[s.uid], place[c.uid])

Precedes(p, q) == p[1] < q[1] \/ (p[1] = q[1] /\ p[2] < q[2])

At(p, s, c) == order[p[1]] = s.uid /\ order[p[2]] = c.uid

\* the iterations of the two loops that are still to come and find a duplicate
Due ==
    {p \in (1..Len(order)) \X (1..Len(order)) :
        Precedes(cursor, p) /\ \E s, c \in tracks : At(p, s, c) /\ Duplicates(s, c)}

\* matched_this_frame
Matched(t) == step = "associated" /\ t.missed = 0

\* Faulty variant: the survivor keeps its track_uid only.
TakesOverUid(s, c) == [c EXCEPT !.uid = s.uid]

\* The survivor keeps its names and the older birth, and continues with the
\* estimate and the measurements of the track that was matched.
TakesOver(s, c) ==
    [c EXCEPT !.uid = s.uid, !.display = s.display,
              !.born = IF s.born < @ THEN s.born ELSE @,
              !.near = s.near \/ @, !.gate = s.gate \/ @]

Absorb(s, c) ==
    /\ step \in {"predicted", "associated"}
    /\ \E p \in Due : /\ At(p, s, c) /\ Duplicates(s, c)
                      /\ \A q \in Due : q = p \/ Precedes(p, q)
                      /\ cursor' = p
    /\ IF Matched(c) /\ ~Matched(s)
       THEN /\ tracks' = (tracks \ {s, c}) \cup {TakesOver(s, c)}
            /\ place' = [place EXCEPT ![s.uid] = place[c.uid]]
       ELSE tracks' = tracks \ {c} /\ UNCHANGED place
    /\ UNCHANGED <<step, frames, has_odom, identities, order>>

-----------------------------------------------------------------------------
(* Update *)

\* Faulty variant: any stamp that is not newer counts as a reset.
ResetsOnAnyStep(stamp) == frames # <<>> /\ stamp <= Now

\* update() throws, before it changes anything, on a stamp that is neither newer ...
Newer(stamp) == stamp > Now
\* ... nor older by the reset gap
ResetForBackwardJump(stamp) == frames # <<>> /\ Now - stamp >= ResetGap

\* the stamp check, the frame's odometry and PredictTracks
Begin(stamp, odom) ==
    /\ step = "idle"
    /\ \/ /\ Newer(stamp)
          /\ Len(frames) < MaxFrames
          /\ frames' = Append(frames, stamp)
          /\ UNCHANGED tracks
       \/ /\ ResetForBackwardJump(stamp)
          /\ frames' = <<stamp>>
          /\ tracks' = {}
    /\ has_odom' = odom
    /\ step' = "predicted"
    /\ Prepare(tracks')
    /\ UNCHANGED identities

\* AssociateAndUpdate: the tracks in D get a dynamic detection, those in S the
\* static support built for them, the others none; each further detection that
\* may initialize a track creates one.  N holds the track_uids of the tracks whose
\* detection is near the vehicle, F those that move fast.
Associated(D, S, N, F, uids) ==
    {Detected(t, t.uid \in N, t.uid \in F) : t \in D}
        \cup {Supported(t) : t \in S}
        \cup {Missed(t) : t \in tracks \ (D \cup S)}
        \cup {CreateTrack(u, u \in N) : u \in uids}

\* A confirmed track without a measurement stays where it was predicted, and the
\* recovery of unmatched tracks gives it any unclaimed detection close to it.
Coasts(t, uids) ==
    /\ place'[t.uid] = place[t.uid]
    /\ \A u \in uids \cap DOMAIN place' : ~Close(place'[u], place[t.uid])

Associate(D, S, N, F, uids) ==
    LET T == Associated(D, S, N, F, uids)
    IN  /\ step = "predicted" /\ Due = {}
        /\ D \cap S = {} /\ \A t \in S : IsStaticSupportTrackEligible(t)
        /\ N = {} \/ has_odom
        /\ tracks' = Numbered(T)
        /\ next_track_uid' = next_track_uid + Cardinality(uids)
        /\ next_display_id' = next_display_id + Cardinality(Unnamed(T))
        /\ step' = "associated"
        /\ Prepare(tracks')
        /\ \A t \in tracks \ (D \cup S) : t.confirmed => Coasts(t, uids)
        /\ UNCHANGED <<frames, has_odom>>

\* the four gates keep the tracks in K, then PruneTracks
Finish(K) ==
    /\ step = "associated" /\ Due = {}
    /\ tracks' = {t \in K : ~Expired(t)}
    /\ step' = "idle"
    /\ place' = <<>> /\ order' = <<>> /\ cursor' = <<0, 0>>
    /\ UNCHANGED <<frames, has_odom, identities>>

\* no frame has to come
Waits == step = "idle" /\ UNCHANGED vars

\* next_track_uid++ for each of `count` new tracks
NewUids(count) == next_track_uid..(next_track_uid + count - 1)

MayCreate == {count \in 0..MaxTracks : /\ Cardinality(tracks) + count <= MaxTracks
                                      /\ next_track_uid + count <= MaxIdentities}

TrackerNext ==
    \/ \E stamp \in Stamps, odom \in BOOLEAN : Begin(stamp, odom)
    \/ \E s, c \in tracks : Absorb(s, c)
    \/ \E D \in SUBSET tracks, count \in MayCreate :
       \E S \in SUBSET (tracks \ D), F \in SUBSET Uids(D),
          N \in SUBSET (Uids(D) \cup NewUids(count)) :
             Associate(D, S, N, F, NewUids(count))
    \/ \E K \in SUBSET tracks : Finish(K)
    \/ Waits

TrackerSpec == TrackerInit /\ [][TrackerNext]_vars

-----------------------------------------------------------------------------
(* Properties *)

\* The variables have their types, a track was born and measured within the frames
\* counted, and candidates are judged by their last init_window_size frames.
TrackerTypeOK ==
    /\ step \in {"idle", "predicted", "associated"}
    /\ frames \in Seq(Stamps)
    /\ has_odom \in BOOLEAN
    /\ tracks \subseteq Track
    /\ \A t \in tracks : /\ t.born \in 1..Len(frames)
                        /\ t.lastDynamic <= Now
                        /\ Len(t.window) <= InitWindowSize
    /\ next_track_uid \in Nat /\ next_display_id \in Nat
    /\ order \in Seq(Nat)
    /\ cursor \in Nat \X Nat

\* No two live tracks share a track_uid or a display_id, although a survivor
\* continues with the estimate of the duplicate it absorbs, and numbers are not
\* set back by a reset.
IdentitiesDistinct ==
    \A s, t \in tracks : s # t => /\ s.uid # t.uid
                                 /\ (s.display = NoDisplay \/ s.display # t.display)

\* An identity that has ended never comes back, not even in the tracks that
\* follow a backward jump of the clock (test
\* TrackDeletedByLifecycleCannotRecoverItsIdentity); a confirmed track keeps its
\* display_id for as long as it lives.
IdentitiesEndForGood ==
    [][\A t \in tracks' :
          \/ t.uid >= next_track_uid
          \/ \E s \in tracks : /\ s.uid = t.uid
                               /\ s.confirmed => (t.confirmed /\ t.display = s.display)]_vars

\* Static support does not keep a track alive: at most track_lifetime_frames frames
\* have come since the longest time after which a track can live without a
\* dynamic measurement was over, whatever it was matched or merged with in between.
LivesOnEvidence ==
    step = "idle" => \A t \in tracks :
        LET n == Len(frames) - TrackLifetimeFrames
            w == IF StaticSupportHoldTime > LostTrackPredictionTime
                 THEN StaticSupportHoldTime ELSE LostTrackPredictionTime
        IN  n >= 1 => frames[n] - t.lastDynamic <= w

\* Candidates do not stay candidates: past its initial window a track is
\* confirmed, or it has been missed in every frame since, even if odometry that
\* comes and goes changes the number of hits it needs.
CandidatesAreDecided ==
    step = "idle" => \A t \in tracks :
        ~t.confirmed => t.missed >= Age(t) - InitWindowSize + 1

\* The node's view of the tracker.
Node == INSTANCE TrackClock WITH
            Gap <- ResetGap, clock <- Now, births <- {frames[t.born] : t \in tracks}
ImplementsTrackClock == Node!Spec
=============================================================================
