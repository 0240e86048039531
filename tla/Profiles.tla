------------------------------ MODULE Profiles ------------------------------
(* The profile of one router (Profiling.cpp): how often it agreed to take    *)
(* part in tunnels, and how often it was taken or rejected as a hop for it.  *)
(* The counters live in memory; they are saved when the router leaves the    *)
(* netDb or the process stops, loaded when it is met again, and fall back to *)
(* what was saved when the process crashes.  A save may fail or be cut short, *)
(* and a file may expire or be unreadable.                                   *)
EXTENDS Integers

CONSTANTS ProfMaxAgreed, ProfMaxDeclined, ProfMaxTaken  \* bounds of the counters

VARIABLES
  profile,            \* m_Profile of the router's RouterInfo
  profLoaded,         \* whether the RouterInfo is in memory
  profFile,           \* the counters on disk; zeros when there is no file
  profRejectedInARow  \* history: rejections since the router was last taken, or since
                      \* its counters were lost
profVars == <<profile, profLoaded, profFile, profRejectedInARow>>

NewProfile == [agreed |-> 0, declined |-> 0, nonReplied |-> 0, taken |-> 0, rejected |-> 0]

TunnelBuildResponse(declines) ==
  /\ profLoaded
  /\ IF declines THEN profile.declined < ProfMaxDeclined ELSE profile.agreed < ProfMaxAgreed
  /\ profile' = IF declines THEN [profile EXCEPT !.declined = @ + 1]
                ELSE [profile EXCEPT !.agreed = @ + 1]
  /\ UNCHANGED <<profLoaded, profFile, profRejectedInARow>>

TunnelNonReplied ==
  /\ profLoaded /\ profile.nonReplied < 1  \* bound: nothing reads the counter but Save
  /\ profile' = [profile EXCEPT !.nonReplied = @ + 1]
  /\ UNCHANGED <<profLoaded, profFile, profRejectedInARow>>

\* Whoever declined once and never agreed is under 20%, so the five refusals of
\* IsAlwaysDeclining are never waited for.
IsAlwaysDeclining == profile.agreed = 0 /\ profile.declined >= 5
IsLowPartcipationRate == 4 * profile.agreed < profile.declined

\* Variant: the profile is reset, but the answer stays "bad".
RejectsStill(poor, pardoned) == poor
\* Whether a poor router is rejected this time.
Rejects(poor, pardoned) == poor /\ ~pardoned

\* IsBad, asked when a hop is chosen: a poor router is rejected, unless that has
\* happened more than ten times as often as it was taken; then its answers, not
\* the usage counters, are forgotten.
IsBad ==
  LET poor == IsAlwaysDeclining \/ IsLowPartcipationRate
      pardoned == poor /\ profile.rejected > 10 * (profile.taken + 1)
      bad == Rejects(poor, pardoned)
      asked == IF pardoned THEN [profile EXCEPT !.agreed = 0, !.declined = 0, !.nonReplied = 0]
               ELSE profile
  IN /\ profLoaded /\ profile.taken < ProfMaxTaken
     /\ profile' = IF bad THEN [asked EXCEPT !.rejected = @ + 1] ELSE [asked EXCEPT !.taken = @ + 1]
     /\ profRejectedInARow' = IF bad THEN profRejectedInARow + 1 ELSE 0
     /\ UNCHANGED <<profLoaded, profFile>>

\* What is read of a file that was cut at place k, the counters being written in
\* the order of the record: those before it, perhaps one without its last digit
\* (the bounds leave two), and zeros.
Left(v, n, k) == IF 2 * n <= k THEN v ELSE IF 2 * n = k + 1 THEN v \div 10 ELSE 0
CutAt(p, k) ==
  [agreed |-> Left(p.agreed, 1, k), declined |-> Left(p.declined, 2, k), nonReplied |-> Left(p.nonReplied, 3, k),
   taken |-> Left(p.taken, 4, k), rejected |-> Left(p.rejected, 5, k)]

\* Save, when the router leaves the netDb or the process stops.  A directory or a
\* file that cannot be written is only logged; a full disk or a crash cuts the file.
Save ==
  /\ profLoaded /\ profLoaded' = FALSE
  /\ profFile' \in {profile, profFile} \cup {CutAt(profile, k) : k \in 0..10}
  /\ profRejectedInARow' = IF profFile'.taken = profile.taken /\ profFile'.rejected = profile.rejected
                           THEN profRejectedInARow ELSE 0
  /\ profile' = NewProfile

\* Load: without a file, with one of more than three days, or with one that cannot
\* be read, the counters begin anew, whatever the file holds.
Load(lost) ==
  /\ ~profLoaded /\ profLoaded' = TRUE
  /\ profile' = IF lost THEN NewProfile ELSE profFile
  /\ profFile' = profile'
  /\ profRejectedInARow' = IF lost THEN 0 ELSE profRejectedInARow

\* The process dies; what was not saved is lost.
ProfCrash ==
  /\ profLoaded /\ profLoaded' = FALSE
  /\ profile' = NewProfile /\ profRejectedInARow' = 0
  /\ UNCHANGED profFile

ProfInit ==
  /\ profile = NewProfile /\ profFile = NewProfile
  /\ profLoaded = TRUE /\ profRejectedInARow = 0
ProfNext ==
  \/ \E declines \in BOOLEAN : TunnelBuildResponse(declines)
  \/ TunnelNonReplied \/ IsBad \/ Save \/ ProfCrash
  \/ \E lost \in BOOLEAN : Load(lost)

ProfSpec == ProfInit /\ [][ProfNext]_profVars

\* A router is not shunned for good: however often it declined, and however often
\* its counters were saved and loaded, it is rejected in a row at most ten times
\* as often as it was taken, and eleven times more, as long as the counters are
\* not lost: by a crash, by a save that fails or is cut short, or in a file that
\* expires or cannot be read, after each of which the count begins anew (IsBad,
\* Save, Load).
NotShunned == profLoaded => profRejectedInARow <= 10 * (profile.taken + 1) + 1
=============================================================================
