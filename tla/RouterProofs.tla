---------------------------- MODULE RouterProofs ----------------------------
(***************************************************************************)
(* The records of one router and what travels in its tunnels, for any       *)
(* constants: the profile of a peer does not shun it for good, the router   *)
(* info we publish agrees with itself, a tunnel's endpoint hands on the     *)
(* messages its gateway was given, in full, even when one overtakes the one *)
(* before it, and the containers and pools agree on the tunnels there are.  *)
(***************************************************************************)
EXTENDS Profiles, RouterContext, TunnelMessages, Tunnels, FiniteSetTheorems, SequenceTheorems,
        WellFoundedInduction, TLAPS

-----------------------------------------------------------------------------
(* Profiles.  The rejections in a row are among those the profile counts,   *)
(* in memory or, while the router is not known, on disk.                    *)
Profile == [agreed : Nat, declined : Nat, nonReplied : Nat, taken : Nat, rejected : Nat]

ProfBound(p) ==
  /\ profRejectedInARow <= p.rejected
  /\ profRejectedInARow <= 10 * (p.taken + 1) + 1

ProfInv ==
  /\ profile \in Profile /\ profFile \in Profile
  /\ profLoaded \in BOOLEAN /\ profRejectedInARow \in Nat
  /\ profLoaded = TRUE => ProfBound(profile)
  /\ profLoaded = FALSE => ProfBound(profFile)

(* A cut file is read as a profile.                                         *)
LEMMA CutProfile ==
  ASSUME NEW p \in Profile, NEW k \in 0..10
  PROVE  CutAt(p, k) \in Profile
<1>1. \A v \in Nat, n \in Nat : Left(v, n, k) \in Nat
  BY DEF Left
<1>2. p.agreed \in Nat /\ p.declined \in Nat /\ p.nonReplied \in Nat /\ p.taken \in Nat /\ p.rejected \in Nat
  BY DEF Profile
<1> QED
  BY <1>1, <1>2 DEF CutAt, Profile

LEMMA ProfStep == ProfInv /\ [ProfNext]_profVars => ProfInv'
<1> SUFFICES ASSUME ProfInv, [ProfNext]_profVars
             PROVE  ProfInv'
  OBVIOUS
<1>0. NewProfile \in Profile /\ NewProfile.rejected = 0 /\ NewProfile.taken = 0
  BY DEF NewProfile, Profile
<1>1. ASSUME NEW declines \in BOOLEAN, TunnelBuildResponse(declines)
      PROVE  ProfInv'
  <2>1. CASE declines
    BY <1>1, <2>1 DEF TunnelBuildResponse, ProfInv, Profile, ProfBound
  <2>2. CASE ~declines
    BY <1>1, <2>2 DEF TunnelBuildResponse, ProfInv, Profile, ProfBound
  <2> QED
    BY <2>1, <2>2
<1>2. CASE TunnelNonReplied
  BY <1>2 DEF TunnelNonReplied, ProfInv, Profile, ProfBound
<1>3. CASE IsBad
  <2>1. PICK poor, pardoned :
          /\ poor = (IsAlwaysDeclining \/ IsLowPartcipationRate)
          /\ pardoned = (poor /\ profile.rejected > 10 * (profile.taken + 1))
    OBVIOUS
  <2>2. PICK asked : asked = IF pardoned
                             THEN [profile EXCEPT !.agreed = 0, !.declined = 0, !.nonReplied = 0]
                             ELSE profile
    OBVIOUS
  <2>3. asked \in Profile /\ asked.taken = profile.taken /\ asked.rejected = profile.rejected
    BY <2>2 DEF ProfInv, Profile
  <2>4. CASE poor /\ ~pardoned
    <3>1. /\ profile' = [asked EXCEPT !.rejected = @ + 1]
          /\ profRejectedInARow' = profRejectedInARow + 1
      BY <1>3, <2>1, <2>2, <2>4, Zenon DEF IsBad, Rejects
    <3>2. /\ profile' \in Profile /\ profile'.taken = profile.taken
          /\ profile'.rejected = profile.rejected + 1
      BY <2>3, <3>1 DEF Profile
    <3>3. profile.rejected <= 10 * (profile.taken + 1)
      BY <2>1, <2>4 DEF ProfInv, Profile
    <3>4. profLoaded /\ profLoaded' /\ profFile' = profFile
      BY <1>3 DEF IsBad
    <3> QED
      BY <3>1, <3>2, <3>3, <3>4 DEF ProfInv, ProfBound, Profile
  <2>5. CASE ~(poor /\ ~pardoned)
    <3>1. profile' = [asked EXCEPT !.taken = @ + 1] /\ profRejectedInARow' = 0
      BY <1>3, <2>1, <2>2, <2>5, Zenon DEF IsBad, Rejects
    <3>2. profile' \in Profile
      BY <2>3, <3>1 DEF Profile
    <3>3. profLoaded' /\ profFile' = profFile
      BY <1>3 DEF IsBad, ProfInv
    <3> QED
      BY <3>1, <3>2, <3>3 DEF ProfInv, ProfBound, Profile
  <2> QED
    BY <2>4, <2>5
<1>4. CASE Save
  <2>1. profLoaded = TRUE /\ profLoaded' = FALSE /\ profile' = NewProfile
    BY <1>4 DEF Save, ProfInv
  <2>2. /\ profile \in Profile /\ profFile \in Profile /\ profRejectedInARow \in Nat
        /\ profRejectedInARow <= profile.rejected
        /\ profRejectedInARow <= 10 * (profile.taken + 1) + 1
    BY <2>1 DEF ProfInv, ProfBound
  <2>3. \A k \in 0..10 : CutAt(profile, k) \in Profile
    BY <2>2, CutProfile
  <2>4. profFile' \in Profile
    BY <1>4, <2>2, <2>3 DEF Save
  <2>5. PICK f : f = profFile'
    OBVIOUS
  <2>6. f \in Profile /\ 0 <= f.rejected /\ 0 <= 10 * (f.taken + 1) + 1
    BY <2>4, <2>5 DEF Profile
  <2>7. CASE f.taken = profile.taken /\ f.rejected = profile.rejected
    <3>1. profRejectedInARow' = profRejectedInARow
      BY <1>4, <2>5, <2>7 DEF Save
    <3>2. ProfBound(f)'
      BY <2>2, <2>7, <3>1 DEF ProfBound
    <3> QED
      BY <1>0, <2>1, <2>2, <2>4, <2>5, <3>1, <3>2 DEF ProfInv, ProfBound
  <2>8. CASE ~(f.taken = profile.taken /\ f.rejected = profile.rejected)
    <3>1. profRejectedInARow' = 0
      BY <1>4, <2>5, <2>8 DEF Save
    <3> QED
      BY <1>0, <2>1, <2>4, <2>5, <2>6, <3>1 DEF ProfInv, ProfBound
  <2> QED
    BY <2>7, <2>8
<1>5. CASE ProfCrash
  <2>1. /\ profLoaded' = FALSE /\ profFile' = profFile /\ profile' = NewProfile
        /\ profRejectedInARow' = 0
    BY <1>5 DEF ProfCrash
  <2>2. profFile \in Profile /\ 0 <= profFile.rejected /\ 0 <= 10 * (profFile.taken + 1) + 1
    BY DEF ProfInv, Profile
  <2> QED
    BY <1>0, <2>1, <2>2 DEF ProfInv, ProfBound
<1>6. ASSUME NEW damaged \in BOOLEAN, Load(damaged)
      PROVE  ProfInv'
  BY <1>0, <1>6 DEF Load, ProfInv, ProfBound, Profile
<1>7. CASE UNCHANGED profVars
  BY <1>7 DEF profVars, ProfInv, ProfBound
<1> QED
  BY <1>1, <1>2, <1>3, <1>4, <1>5, <1>6, <1>7 DEF ProfNext

(* However often its profile was saved and loaded, a router is rejected in  *)
(* a row at most eleven times more than ten times for each time it was      *)
(* taken, as long as its counters are not lost (NotShunned).                *)
THEOREM SpecNotShunned == ProfSpec => []NotShunned
<1>1. ProfInit => ProfInv
  BY DEF ProfInit, ProfInv, ProfBound, NewProfile, Profile
<1>2. ProfInv => NotShunned
  BY DEF ProfInv, ProfBound, NotShunned
<1> QED
  BY <1>1, <1>2, ProfStep, PTL DEF ProfSpec

-----------------------------------------------------------------------------
(* Router context: addresses that are removed and added.                    *)

LEMMA NatMin ==
  ASSUME NEW T, T \subseteq Nat, T # {}
  PROVE  \E x \in T : \A y \in T : x <= y
<1> DEFINE R == {ss \in Nat \X Nat : ss[1] < ss[2]}
<1>1. IsWellFoundedOn(R, Nat)
  BY NatLessThanWellFounded DEF OpToRel
<1>2. PICK x \in T : \A y \in T : ~(<<y, x>> \in R)
  <2> HIDE DEF R
  <2> QED
    BY <1>1, WFMin
<1>3. \A y \in T : ~(y < x)
  BY <1>2
<1> QED
  BY <1>2, <1>3

(* Induction for a set of numbers.                                          *)
LEMMA NatSetInduction ==
  ASSUME NEW S, 0 \in S, \A m \in Nat : m \in S => m + 1 \in S
  PROVE  \A m \in Nat : m \in S
<1> DEFINE R == {ss \in Nat \X Nat : ss[1] < ss[2]}
           T == {m \in Nat : m \notin S}
<1>1. IsWellFoundedOn(R, Nat)
  BY NatLessThanWellFounded DEF OpToRel
<1>2. CASE T = {}
  BY <1>2
<1>3. CASE T # {}
  <2>1. PICK x \in T : \A y \in T : ~(<<y, x>> \in R)
    <3>1. T \subseteq Nat
      OBVIOUS
    <3> HIDE DEF R, T
    <3> QED
      BY <1>1, <1>3, <3>1, WFMin
  <2>2. \A y \in T : ~(y < x)
    BY <2>1
  <2>3. x \in Nat /\ x # 0
    OBVIOUS
  <2>4. x - 1 \in Nat /\ x - 1 < x /\ x - 1 + 1 = x
    BY <2>3
  <2>5. x - 1 \in S
    BY <2>2, <2>4
  <2> QED
    BY <2>4, <2>5
<1> QED
  BY <1>2, <1>3

(* At most one element goes, one of those that may.                         *)
LEMMA WithoutFirstFacts ==
  ASSUME NEW A, NEW s \in Seq(A), NEW S, NEW r, r = WithoutFirst(s, S)
  PROVE  /\ r \in Seq(A)
         /\ \/ r = s
            \/ \E at \in DOMAIN s :
                 /\ s[at] \in S /\ Len(r) = Len(s) - 1
                 /\ \A k \in 1 .. Len(r) : r[k] = IF k < at THEN s[k] ELSE s[k + 1]
<1> DEFINE hits == {k \in DOMAIN s : s[k] \in S}
           at == CHOOSE k \in hits : \A j \in hits : k <= j
<1>1. CASE hits = {}
  BY <1>1 DEF WithoutFirst
<1>2. CASE hits # {}
  <2>1. hits \subseteq Nat
    OBVIOUS
  <2>2. at \in hits
    <3>1. \E k \in hits : \A j \in hits : k <= j
      BY <1>2, <2>1, NatMin
    <3> QED
      BY <3>1
  <2>3. r = SubSeq(s, 1, at - 1) \o SubSeq(s, at + 1, Len(s))
    BY <1>2 DEF WithoutFirst
  <2>4. PICK x : x = at
    OBVIOUS
  <2>5. /\ x \in 1 .. Len(s) /\ s[x] \in S
        /\ r = SubSeq(s, 1, x - 1) \o SubSeq(s, x + 1, Len(s))
    BY <2>2, <2>3, <2>4, SMTT(30)
  <2> HIDE DEF at, hits
  <2>6. PICK p, q : p = SubSeq(s, 1, x - 1) /\ q = SubSeq(s, x + 1, Len(s))
    OBVIOUS
  <2>7. /\ p \in Seq(A) /\ Len(p) = x - 1
        /\ \A k \in 1 .. (x - 1) : p[k] = s[k]
    BY <2>5, <2>6, SubSeqProperties
  <2>8. /\ q \in Seq(A) /\ Len(q) = Len(s) - x
        /\ \A k \in 1 .. Len(q) : q[k] = s[x + k]
    BY <2>5, <2>6, SubSeqProperties
  <2>9. /\ r \in Seq(A) /\ Len(r) = Len(s) - 1
        /\ \A k \in 1 .. Len(r) : r[k] = IF k <= Len(p) THEN p[k] ELSE q[k - Len(p)]
    <3>1. r = p \o q
      BY <2>5, <2>6
    <3>2. /\ p \o q \in Seq(A) /\ Len(p \o q) = Len(p) + Len(q)
          /\ \A k \in 1 .. Len(p) + Len(q) : (p \o q)[k] = IF k <= Len(p) THEN p[k] ELSE q[k - Len(p)]
      BY <2>7, <2>8, ConcatProperties
    <3>3. Len(p) + Len(q) = Len(s) - 1
      BY <2>5, <2>7, <2>8
    <3> QED
      BY <3>1, <3>2, <3>3
  <2>10. ASSUME NEW k \in 1 .. Len(r)
         PROVE  r[k] = IF k < x THEN s[k] ELSE s[k + 1]
    <3>a. Len(s) \in Nat
      BY LenProperties
    <3>b. k \in 1 .. (Len(s) - 1) /\ x \in 1 .. Len(s)
      BY <2>5, <2>9
    <3>0. k \in Nat /\ x \in Nat /\ k <= Len(s) - 1 /\ k >= 1 /\ Len(p) = x - 1
      BY <2>7, <3>a, <3>b
    <3>1. CASE k < x
      <4>1. k \in 1 .. (x - 1) /\ k <= Len(p)
        BY <3>0, <3>1
      <4>2. r[k] = p[k]
        BY <2>9, <4>1
      <4> QED
        BY <2>7, <3>1, <4>1, <4>2
    <3>2. CASE k >= x
      <4>1. ~(k <= Len(p)) /\ k - Len(p) \in 1 .. Len(q) /\ x + (k - Len(p)) = k + 1
        BY <2>8, <3>0, <3>2
      <4>2. r[k] = q[k - Len(p)]
        BY <2>9, <4>1
      <4>3. q[k - Len(p)] = s[k + 1]
        BY <2>8, <4>1
      <4> QED
        BY <3>0, <3>2, <4>2, <4>3
    <3> QED
      BY <3>0, <3>1, <3>2
  <2>11. x \in DOMAIN s
    BY <2>5
  <2> QED
    BY <2>5, <2>9, <2>10, <2>11
<1> QED
  BY <1>1, <1>2

Addrs == [style : {"SSU", "NTCP"}, v6 : BOOLEAN]
NTCP4 == Addr("NTCP", FALSE)
SSU4 == Addr("SSU", FALSE)

(* An NTCP address over IPv4 is among the addresses; the first SSU address  *)
(* is of IPv4.                                                              *)
HasNTCP4(s) == \E k \in DOMAIN s : s[k] = NTCP4
FirstSSU4(s) ==
  \E k \in DOMAIN s : s[k] = SSU4 /\ \A j \in DOMAIN s : j < k => s[j].style # "SSU"

(* The addresses are all of IPv6, or the first of SSU is of IPv4, and with  *)
(* it comes one of NTCP where the router is said to be reachable.           *)
AllV6(s) == \A k \in DOMAIN s : s[k].v6
OffersSSU(s) == AllV6(s) \/ FirstSSU4(s)
OffersBoth(s) == AllV6(s) \/ (FirstSSU4(s) /\ HasNTCP4(s))

LEMMA AddrFacts ==
  /\ \A v6 \in BOOLEAN : Addr("NTCP", v6) \in Addrs /\ Addr("SSU", v6) \in Addrs
  /\ NTCP4 # Addr("NTCP", TRUE) /\ SSU4 # Addr("SSU", TRUE)
  /\ \A v6 \in BOOLEAN : NTCP4 # Addr("SSU", v6) /\ SSU4 # Addr("NTCP", v6)
  /\ NTCP4.style = "NTCP" /\ SSU4.style = "SSU"
  /\ NTCP4.v6 = FALSE /\ SSU4.v6 = FALSE
  /\ Addr("NTCP", TRUE).v6 = TRUE /\ Addr("SSU", TRUE).v6 = TRUE
  BY DEF Addr, Addrs, NTCP4, SSU4

LEMMA WithoutFirstKeeps ==
  ASSUME NEW s \in Seq(Addrs), NEW S, NEW r, r = WithoutFirst(s, S)
  PROVE  /\ r \in Seq(Addrs)
         /\ NTCP4 \notin S /\ HasNTCP4(s) => HasNTCP4(r)
         /\ SSU4 \notin S /\ FirstSSU4(s) => FirstSSU4(r)
         /\ AllV6(s) => AllV6(r)
<1>1. r \in Seq(Addrs)
  BY WithoutFirstFacts
<1>2. CASE r = s
  BY <1>1, <1>2
<1>3. ASSUME NEW at \in DOMAIN s, s[at] \in S, Len(r) = Len(s) - 1,
             \A k \in 1 .. Len(r) : r[k] = IF k < at THEN s[k] ELSE s[k + 1]
      PROVE  /\ NTCP4 \notin S /\ HasNTCP4(s) => HasNTCP4(r)
             /\ SSU4 \notin S /\ FirstSSU4(s) => FirstSSU4(r)
             /\ AllV6(s) => AllV6(r)
  <2>1. ASSUME NEW k \in DOMAIN s, s[k] \notin S
        PROVE  \E n \in DOMAIN r : /\ r[n] = s[k] /\ n = IF k < at THEN k ELSE k - 1
    <3>1. k \in 1 .. Len(s) /\ at \in 1 .. Len(s) /\ k # at
      BY <1>3, <2>1
    <3>2. CASE k < at
      BY <1>1, <1>3, <3>1, <3>2
    <3>3. CASE k > at
      <4>1. k - 1 \in 1 .. Len(r) /\ ~(k - 1 < at) /\ (k - 1) + 1 = k
        BY <1>3, <3>1, <3>3
      <4> QED
        BY <1>1, <1>3, <3>3, <4>1
    <3> QED
      BY <3>1, <3>2, <3>3
  <2>2. NTCP4 \notin S /\ HasNTCP4(s) => HasNTCP4(r)
    BY <2>1 DEF HasNTCP4
  <2>3. ASSUME SSU4 \notin S, FirstSSU4(s)
        PROVE  FirstSSU4(r)
    <3>1. PICK k \in DOMAIN s :
            s[k] = SSU4 /\ \A j \in DOMAIN s : j < k => s[j].style # "SSU"
      BY <2>3 DEF FirstSSU4
    <3>2. PICK n \in DOMAIN r : r[n] = SSU4 /\ n = IF k < at THEN k ELSE k - 1
      BY <2>1, <2>3, <3>1
    <3>3. ASSUME NEW j \in DOMAIN r, j < n
          PROVE  r[j].style # "SSU"
      <4>1. j \in 1 .. Len(r) /\ k \in 1 .. Len(s) /\ at \in 1 .. Len(s)
        BY <1>1, <3>1
      <4>2. CASE j < at
        <5>1. j \in DOMAIN s /\ j < k /\ r[j] = s[j]
          BY <1>3, <3>2, <3>3, <4>1, <4>2, SMTT(30)
        <5> QED
          BY <3>1, <5>1
      <4>3. CASE j >= at
        <5>1. j + 1 \in DOMAIN s /\ j + 1 < k /\ r[j] = s[j + 1]
          BY <1>3, <3>2, <3>3, <4>1, <4>3, SMTT(30)
        <5> QED
          BY <3>1, <5>1
      <4> QED
        BY <4>1, <4>2, <4>3
    <3> QED
      BY <3>2, <3>3 DEF FirstSSU4
  <2>4. ASSUME AllV6(s)
        PROVE  AllV6(r)
    <3>1. ASSUME NEW k \in DOMAIN r
          PROVE  r[k].v6
      <4>1. /\ k \in 1 .. Len(r) /\ k \in DOMAIN s /\ k + 1 \in DOMAIN s
        BY <1>1, <1>3
      <4>2. r[k] = s[k] \/ r[k] = s[k + 1]
        BY <1>3, <4>1
      <4> QED
        BY <2>4, <4>1, <4>2 DEF AllV6
    <3> QED
      BY <3>1 DEF AllV6
  <2> QED
    BY <2>2, <2>3, <2>4
<1> QED
  BY <1>1, <1>2, <1>3, WithoutFirstFacts

LEMMA WithoutFirstOffers ==
  ASSUME NEW s \in Seq(Addrs), NEW S, NEW r, r = WithoutFirst(s, S), SSU4 \notin S
  PROVE  /\ r \in Seq(Addrs)
         /\ OffersSSU(s) => OffersSSU(r)
         /\ NTCP4 \notin S /\ OffersBoth(s) => OffersBoth(r)
  BY WithoutFirstKeeps DEF OffersSSU, OffersBoth

-----------------------------------------------------------------------------
(* What is made of a router info that is in order.                          *)
Caps == {"reachable", "unreachable", "testing", "introducer", "floodfill", "high"}
Infos == [caps : SUBSET Caps, addresses : Seq(Addrs), introducers : SUBSET (CtxPeers \X CtxTags)]

InfoInv(info) ==
  /\ info \in Infos /\ OffersSSU(info.addresses)
  /\ ~IsUnreachable(info) => OffersBoth(info.addresses) /\ info.introducers = {}

LEMMA AppendKeeps ==
  ASSUME NEW s \in Seq(Addrs), NEW a \in Addrs, NEW r, r = Append(s, a)
  PROVE  /\ r \in Seq(Addrs)
         /\ HasNTCP4(s) \/ a = NTCP4 => HasNTCP4(r)
         /\ FirstSSU4(s) => FirstSSU4(r)
         /\ AllV6(s) /\ a.v6 => AllV6(r)
<1>1. /\ r \in Seq(Addrs) /\ Len(r) = Len(s) + 1 /\ r[Len(s) + 1] = a /\ Len(s) \in Nat
      /\ \A k \in 1 .. Len(s) : r[k] = s[k]
  BY AppendProperties, LenProperties
<1>2. DOMAIN s = 1 .. Len(s) /\ DOMAIN r = 1 .. (Len(s) + 1)
  BY <1>1
<1>3. HasNTCP4(s) \/ a = NTCP4 => HasNTCP4(r)
  BY <1>1, <1>2 DEF HasNTCP4
<1>4. ASSUME FirstSSU4(s)
      PROVE  FirstSSU4(r)
  <2>1. PICK k \in DOMAIN s : s[k] = SSU4 /\ \A j \in DOMAIN s : j < k => s[j].style # "SSU"
    BY <1>4 DEF FirstSSU4
  <2>2. k \in DOMAIN r /\ r[k] = SSU4
    BY <1>1, <1>2, <2>1
  <2>3. \A j \in DOMAIN r : j < k => j \in DOMAIN s /\ r[j] = s[j]
    BY <1>1, <1>2
  <2> QED
    BY <2>1, <2>2, <2>3 DEF FirstSSU4
<1>5. AllV6(s) /\ a.v6 => AllV6(r)
  BY <1>1, <1>2 DEF AllV6
<1> QED
  BY <1>1, <1>3, <1>4, <1>5

LEMMA AppendOffers ==
  ASSUME NEW s \in Seq(Addrs), NEW x \in Addrs, x.v6, NEW r, r = Append(s, x)
  PROVE  /\ r \in Seq(Addrs)
         /\ OffersSSU(s) => OffersSSU(r)
         /\ OffersBoth(s) => OffersBoth(r)
  BY AppendKeeps DEF OffersSSU, OffersBoth

LEMMA ConfiguredFacts ==
  ASSUME NEW info, InfoInv(info), ~IsUnreachable(info), NEW v6 \in BOOLEAN,
         NEW floodfill \in BOOLEAN, NEW bandwidth
  PROVE  /\ InfoInv(Configured(info, v6, floodfill, bandwidth))
         /\ ~IsUnreachable(Configured(info, v6, floodfill, bandwidth))
         /\ Configured(info, v6, floodfill, bandwidth).introducers = {}
<1>1. PICK a : a = IF v6 THEN info ELSE DisableV6(info)
  OBVIOUS
<1>2. InfoInv(a) /\ ~IsUnreachable(a) /\ a.introducers = {}
  <2>1. CASE v6
    BY <1>1, <2>1 DEF InfoInv
  <2>2. CASE ~v6
    <3>1. PICK s, t : /\ s = WithoutFirst(info.addresses, {Addr("NTCP", TRUE)})
                      /\ t = WithoutFirst(s, {Addr("SSU", TRUE)})
      OBVIOUS
    <3>2. a = [info EXCEPT !.addresses = t]
      BY <1>1, <2>2, <3>1 DEF DisableV6, InfoInv, Infos
    <3>3. info.addresses \in Seq(Addrs) /\ OffersBoth(info.addresses)
      BY DEF InfoInv, Infos, OffersSSU, OffersBoth
    <3>4. /\ NTCP4 \notin {Addr("NTCP", TRUE)} /\ SSU4 \notin {Addr("NTCP", TRUE)}
          /\ NTCP4 \notin {Addr("SSU", TRUE)} /\ SSU4 \notin {Addr("SSU", TRUE)}
      BY AddrFacts
    <3>5. s \in Seq(Addrs) /\ OffersBoth(s)
      BY <3>1, <3>3, <3>4, WithoutFirstOffers
    <3>6. t \in Seq(Addrs) /\ OffersBoth(t)
      BY <3>1, <3>4, <3>5, WithoutFirstOffers
    <3>7. a \in Infos /\ a.addresses = t /\ a.caps = info.caps /\ a.introducers = info.introducers
      BY <3>2, <3>6 DEF InfoInv, Infos
    <3> QED
      BY <3>6, <3>7 DEF InfoInv, IsUnreachable, OffersSSU, OffersBoth
  <2> QED
    BY <2>1, <2>2
<1>3. PICK b : b = SetFloodfill(a, floodfill)
  OBVIOUS
<1>4. /\ b \in Infos /\ b.addresses = a.addresses /\ b.introducers = a.introducers
      /\ b.caps \in {a.caps \cup {"floodfill"}, a.caps \ {"floodfill"}}
  <2>1. CASE floodfill
    BY <1>2, <1>3, <2>1 DEF SetFloodfill, InfoInv, Infos, Caps
  <2>2. CASE ~floodfill
    BY <1>2, <1>3, <2>2 DEF SetFloodfill, InfoInv, Infos, Caps
  <2> QED
    BY <2>1, <2>2
<1>5. PICK c : c = SetBandwidth(b, bandwidth)
  OBVIOUS
<1>6. /\ c \in Infos /\ c.addresses = b.addresses /\ c.introducers = b.introducers
      /\ c.caps \in {b.caps \cup {"high"}, b.caps \ {"high"}, b.caps}
  <2>1. CASE bandwidth = "high"
    BY <1>4, <1>5, <2>1 DEF SetBandwidth, Infos, Caps
  <2>2. CASE bandwidth = "low"
    BY <1>4, <1>5, <2>2 DEF SetBandwidth, Infos, Caps
  <2>3. CASE bandwidth \notin {"high", "low"}
    BY <1>4, <1>5, <2>3 DEF SetBandwidth, Infos, Caps
  <2> QED
    BY <2>1, <2>2, <2>3
<1>7. c = Configured(info, v6, floodfill, bandwidth)
  BY <1>1, <1>3, <1>5 DEF Configured
<1>8. InfoInv(c) /\ ~IsUnreachable(c) /\ c.introducers = {}
  <2>1. ~IsUnreachable(c) /\ c.introducers = {} /\ c.addresses = a.addresses
    BY <1>2, <1>4, <1>6 DEF IsUnreachable
  <2>2. OffersBoth(a.addresses)
    BY <1>2 DEF InfoInv, OffersSSU, OffersBoth
  <2> QED
    BY <1>6, <2>1, <2>2 DEF InfoInv, OffersSSU, OffersBoth
<1> QED
  BY <1>7, <1>8

LEMMA UnreachableFacts ==
  ASSUME NEW info, InfoInv(info)
  PROVE  /\ InfoInv(Unreachable(info)) /\ IsUnreachable(Unreachable(info))
         /\ Unreachable(info).introducers = {}
<1> PICK ntcp : ntcp = {Addr("NTCP", FALSE), Addr("NTCP", TRUE)}
  OBVIOUS
<1> PICK old : old = info.addresses
  OBVIOUS
<1>1. PICK s : s = WithoutFirst(old, ntcp)
  OBVIOUS
<1>2. old \in Seq(Addrs) /\ OffersSSU(old)
  BY DEF InfoInv, Infos, OffersSSU, OffersBoth
<1>3. SSU4 \notin ntcp
  BY AddrFacts
<1>4. s \in Seq(Addrs) /\ OffersSSU(s)
  BY <1>1, <1>2, <1>3, WithoutFirstOffers
<1>5. Unreachable(info) = [caps |-> {"unreachable", "testing"}, introducers |-> {}, addresses |-> s]
  BY <1>1 DEF Unreachable
<1> QED
  BY <1>4, <1>5 DEF InfoInv, Infos, IsUnreachable, Caps, OffersSSU, OffersBoth

(* With NTCP at the host of the first SSU address, the addresses are those   *)
(* of a reachable router.                                                   *)
LEMMA ReachableAddresses ==
  ASSUME NEW s \in Seq(Addrs), OffersSSU(s),
         NEW first \in DOMAIN s, s[first].style = "SSU",
         \A j \in DOMAIN s : s[j].style = "SSU" => first <= j,
         NEW t, t = Append(s, Addr("NTCP", s[first].v6))
  PROVE  t \in Seq(Addrs) /\ OffersBoth(t)
<1>1. CASE AllV6(s)
  <2>1. s[first].v6 = TRUE
    <3>1. s[first].v6 /\ s[first] \in Addrs
      BY <1>1 DEF AllV6
    <3> QED
      BY <3>1 DEF Addrs
  <2>2. t = Append(s, Addr("NTCP", TRUE))
    BY <2>1
  <2> QED
    BY <1>1, <2>2, AppendKeeps, AddrFacts DEF OffersSSU, OffersBoth
<1>2. CASE FirstSSU4(s)
  <2>1. PICK k \in DOMAIN s : s[k] = SSU4 /\ \A j \in DOMAIN s : j < k => s[j].style # "SSU"
    BY <1>2 DEF FirstSSU4
  <2>2. first = k
    <3>1. k \in Int /\ first \in Int
      OBVIOUS
    <3>2. first <= k /\ ~(first < k)
      BY <2>1, AddrFacts
    <3> QED
      BY <3>1, <3>2
  <2>3. Addr("NTCP", s[first].v6) = NTCP4
    BY <2>1, <2>2, AddrFacts DEF NTCP4
  <2>4. NTCP4 \in Addrs
    BY AddrFacts DEF NTCP4
  <2>5. t = Append(s, NTCP4)
    BY <2>3
  <2>6. t \in Seq(Addrs) /\ HasNTCP4(t) /\ FirstSSU4(t)
    BY <1>2, <2>4, <2>5, AppendKeeps
  <2> QED
    BY <2>6 DEF OffersSSU, OffersBoth
<1> QED
  BY <1>1, <1>2 DEF OffersSSU, OffersBoth

LEMMA ReachableFacts ==
  ASSUME NEW info, InfoInv(info)
  PROVE  /\ InfoInv(Reachable(info)) /\ ~IsUnreachable(Reachable(info))
         /\ Reachable(info).introducers = {}
<1> DEFINE s == info.addresses
           ssu == {k \in DOMAIN s : s[k].style = "SSU"}
           first == CHOOSE k \in ssu : \A j \in ssu : k <= j
           t == IF ssu = {} THEN s ELSE Append(s, Addr("NTCP", s[first].v6))
<1>1. s \in Seq(Addrs) /\ OffersSSU(s)
  BY DEF InfoInv, Infos, OffersSSU, OffersBoth
<1>2. t \in Seq(Addrs) /\ OffersBoth(t)
  <2>1. CASE ssu = {}
    <3>1. ~FirstSSU4(s)
      BY <2>1, AddrFacts DEF FirstSSU4
    <3> QED
      BY <1>1, <2>1, <3>1 DEF OffersSSU, OffersBoth
  <2>2. CASE ssu # {}
    <3>1. ssu \subseteq Nat
      BY <1>1
    <3>2. PICK k \in ssu : \A j \in ssu : k <= j
      BY <2>2, <3>1, NatMin
    <3>3. first \in ssu /\ \A j \in ssu : first <= j
      BY <3>2
    <3>4. /\ first \in DOMAIN s /\ s[first].style = "SSU"
          /\ \A j \in DOMAIN s : s[j].style = "SSU" => first <= j
      BY <3>3
    <3>5. t = Append(s, Addr("NTCP", s[first].v6))
      BY <2>2
    <3> HIDE DEF s, ssu, first, t
    <3> QED
      BY <1>1, <3>4, <3>5, ReachableAddresses
  <2> QED
    BY <2>1, <2>2
<1>3. PICK caps : caps = (info.caps \ {"unreachable"}) \cup {"reachable", "introducer"}
  OBVIOUS
<1>4. caps \in SUBSET Caps /\ "unreachable" \notin caps
  BY <1>3 DEF InfoInv, Infos, Caps
<1>5. Reachable(info) = [caps |-> caps, introducers |-> {}, addresses |-> t]
  BY <1>3 DEF Reachable
<1> HIDE DEF s, ssu, first, t
<1> QED
  BY <1>2, <1>4, <1>5 DEF InfoInv, Infos, IsUnreachable, OffersSSU, OffersBoth

LEMMA ReadBackFacts ==
  ASSUME NEW info, InfoInv(info)
  PROVE  InfoInv(ReadBack(info))
<1>1. PICK caps :
        /\ ReadBack(info) = [info EXCEPT !.caps = caps]
        /\ caps \subseteq info.caps \cup {"high"}
        /\ "unreachable" \in info.caps => "unreachable" \in caps
  <2>1. PICK ssu \in BOOLEAN :
          ReadBack(info) =
            [info EXCEPT !.caps = (IF "floodfill" \in info.caps THEN {"high"} ELSE {})
                           \cup (IF ssu THEN info.caps ELSE info.caps \ {"testing", "introducer"})]
    BY DEF ReadBack
  <2>2. PICK caps : caps = (IF "floodfill" \in info.caps THEN {"high"} ELSE {})
                           \cup (IF ssu THEN info.caps ELSE info.caps \ {"testing", "introducer"})
    OBVIOUS
  <2>3. /\ caps \subseteq info.caps \cup {"high"}
        /\ "unreachable" \in info.caps => "unreachable" \in caps
    BY <2>2
  <2> QED
    BY <2>1, <2>2, <2>3
<1>2. PICK r : r = ReadBack(info)
  OBVIOUS
<1>3. /\ r \in Infos /\ r.addresses = info.addresses /\ r.introducers = info.introducers
      /\ r.caps = caps
  BY <1>1, <1>2 DEF InfoInv, Infos, Caps
<1>4. IsUnreachable(r) <=> IsUnreachable(info)
  BY <1>1, <1>3 DEF IsUnreachable
<1>5. InfoInv(r)
  BY <1>3, <1>4 DEF InfoInv
<1> QED
  BY <1>2, <1>5

-----------------------------------------------------------------------------
(* The published router info is in order, the file is what a start reads of *)
(* it, and every introducer it names is on the list of the SSU server.      *)
CtxInv ==
  /\ supportsV6 \in BOOLEAN
  /\ InfoInv(ours) /\ InfoInv(ourFile)
  /\ introducers \subseteq CtxPeers \X CtxTags
  /\ \A intro \in ours.introducers : intro[1] \notin CtxElsewhere => intro \in introducers

LEMMA AppendTwo ==
  ASSUME NEW A, NEW s \in Seq(A), NEW x \in A, NEW y \in A
  PROVE  s \o <<x, y>> = Append(Append(s, x), y)
<1> DEFINE t == <<x, y>>
           a == Append(s, x)
           b == Append(a, y)
<1>1. t \in Seq(A) /\ Len(t) = 2 /\ t[1] = x /\ t[2] = y
  OBVIOUS
<1>2. /\ a \in Seq(A) /\ Len(a) = Len(s) + 1 /\ a[Len(s) + 1] = x
      /\ \A k \in 1 .. Len(s) : a[k] = s[k]
  BY AppendProperties
<1> HIDE DEF t, a
<1>3. /\ b \in Seq(A) /\ Len(b) = Len(a) + 1 /\ b[Len(a) + 1] = y
      /\ \A k \in 1 .. Len(a) : b[k] = a[k]
  BY <1>2, AppendProperties
<1>4. /\ s \o t \in Seq(A) /\ Len(s \o t) = Len(s) + 2
      /\ \A k \in 1 .. Len(s) + 2 : (s \o t)[k] = IF k <= Len(s) THEN s[k] ELSE t[k - Len(s)]
  <2>1. /\ s \o t \in Seq(A) /\ Len(s \o t) = Len(s) + Len(t)
        /\ \A k \in 1 .. Len(s) + Len(t) : (s \o t)[k] = IF k <= Len(s) THEN s[k] ELSE t[k - Len(s)]
    BY <1>1, ConcatProperties
  <2> QED
    BY <1>1, <2>1
<1>5. Len(s) \in Nat
  BY LenProperties
<1> HIDE DEF b
<1>6. ASSUME NEW k \in 1 .. Len(s) + 2
      PROVE  (s \o t)[k] = b[k]
  <2>0. (s \o t)[k] = IF k <= Len(s) THEN s[k] ELSE t[k - Len(s)]
    BY <1>4
  <2>1. CASE k <= Len(s)
    <3>1. k \in 1 .. Len(s) /\ k \in 1 .. Len(a)
      BY <1>2, <1>5, <2>1
    <3> QED
      BY <1>2, <1>3, <2>0, <2>1, <3>1
  <2>2. CASE k = Len(s) + 1
    <3>1. k \in 1 .. Len(a) /\ ~(k <= Len(s)) /\ k - Len(s) = 1
      BY <1>2, <1>5, <2>2
    <3> QED
      BY <1>1, <1>2, <1>3, <2>0, <2>2, <3>1
  <2>3. CASE k = Len(s) + 2
    <3>1. k = Len(a) + 1 /\ ~(k <= Len(s)) /\ k - Len(s) = 2
      BY <1>2, <1>5, <2>3
    <3> QED
      BY <1>1, <1>3, <2>0, <3>1
  <2>4. k <= Len(s) \/ k = Len(s) + 1 \/ k = Len(s) + 2
    BY <1>5, <1>6
  <2> QED
    BY <2>1, <2>2, <2>3, <2>4
<1>7. s \o t = b
  <2>1. Len(b) = Len(s) + 2
    BY <1>2, <1>3, <1>5
  <2> QED
    BY <1>3, <1>4, <1>6, <2>1, SeqEqual
<1> QED
  BY <1>7 DEF t, a, b

LEMMA UpdateNTCPV6AddressStep == CtxInv /\ UpdateNTCPV6Address => CtxInv'
<1> SUFFICES ASSUME CtxInv, UpdateNTCPV6Address
             PROVE  CtxInv'
  OBVIOUS
<1>1. PICK a, b : /\ a = Append(ours.addresses, Addr("NTCP", TRUE))
                  /\ b = Append(a, Addr("SSU", TRUE))
  OBVIOUS
<1>2. /\ ours.addresses \in Seq(Addrs) /\ OffersSSU(ours.addresses)
      /\ ~IsUnreachable(ours) => OffersBoth(ours.addresses)
      /\ ours.caps \subseteq Caps /\ ours.introducers \subseteq CtxPeers \X CtxTags
      /\ ours = [caps |-> ours.caps, addresses |-> ours.addresses, introducers |-> ours.introducers]
  BY DEF CtxInv, InfoInv, Infos
<1>3. /\ a \in Seq(Addrs) /\ OffersSSU(a)
      /\ OffersBoth(ours.addresses) => OffersBoth(a)
  BY <1>1, <1>2, AppendOffers, AddrFacts
<1>4. /\ b \in Seq(Addrs) /\ OffersSSU(b)
      /\ OffersBoth(ours.addresses) => OffersBoth(b)
  BY <1>1, <1>3, AppendOffers, AddrFacts
<1>5. ours.addresses \o <<Addr("NTCP", TRUE), Addr("SSU", TRUE)>> = b
  <2>1. Addr("NTCP", TRUE) \in Addrs /\ Addr("SSU", TRUE) \in Addrs
    BY AddrFacts
  <2>2. PICK s, x, y : s = ours.addresses /\ x = Addr("NTCP", TRUE) /\ y = Addr("SSU", TRUE)
    OBVIOUS
  <2>3. s \in Seq(Addrs) /\ x \in Addrs /\ y \in Addrs
    BY <1>2, <2>1, <2>2
  <2>4. s \o <<x, y>> = Append(Append(s, x), y)
    BY <2>3, AppendTwo
  <2> QED
    BY <1>1, <2>2, <2>4
<1>6. PICK caps : caps = ours.caps \cup {"testing", "introducer"}
  OBVIOUS
<1>7. caps \subseteq Caps /\ ("unreachable" \in caps <=> "unreachable" \in ours.caps)
  BY <1>2, <1>6 DEF Caps
<1>8. PICK new : new = [ours EXCEPT !.addresses = b, !.caps = caps]
  OBVIOUS
<1>9. new = [caps |-> caps, addresses |-> b, introducers |-> ours.introducers]
  BY <1>2, <1>8
<1>10. ours' = new /\ ourFile' = ReadBack(new)
  BY <1>5, <1>6, <1>8 DEF UpdateNTCPV6Address, Publishes
<1>11. ~IsUnreachable(ours) => ours.introducers = {}
  BY DEF CtxInv, InfoInv
<1>12. InfoInv(new) /\ new.introducers = ours.introducers
  <2>1. new \in Infos /\ new.introducers = ours.introducers /\ new.addresses = b
    BY <1>2, <1>4, <1>7, <1>9 DEF Infos
  <2>2. IsUnreachable(new) <=> IsUnreachable(ours)
    BY <1>7, <1>9 DEF IsUnreachable
  <2> QED
    BY <1>2, <1>4, <1>11, <2>1, <2>2 DEF InfoInv
<1>13. InfoInv(ReadBack(new))
  BY <1>12, ReadBackFacts
<1>14. UNCHANGED <<supportsV6, introducers>>
  BY DEF UpdateNTCPV6Address
<1> QED
  BY <1>10, <1>12, <1>13, <1>14 DEF CtxInv

LEMMA HandleIntroducersStep == CtxInv /\ HandleIntroducersUpdateTimer => CtxInv'
<1> SUFFICES ASSUME CtxInv, HandleIntroducersUpdateTimer
             PROVE  CtxInv'
  OBVIOUS
<1>0. UNCHANGED supportsV6
  BY DEF HandleIntroducersUpdateTimer
<1>1. CASE UNCHANGED <<ours, ourFile, introducers>>
  BY <1>0, <1>1 DEF CtxInv
<1>2. CASE ~UNCHANGED <<ours, ourFile, introducers>>
  <2>1. PICK info : info = IF IsUnreachable(ours) THEN ours ELSE Unreachable(ours)
    OBVIOUS
  <2>2. PICK kept : kept = {intro \in introducers : HasSession(intro)}
    OBVIOUS
  <2>3. PICK alive : alive = Alive(info)
    OBVIOUS
  <2>4. PICK new \in (IF Cardinality(kept) < CtxMaxIntroducers THEN FindIntroducers ELSE {{}}) :
          /\ Publishes([alive EXCEPT !.introducers = @ \cup Introduced(alive, new)])
          /\ introducers' = kept \cup Introduced(alive, new)
    BY <1>2, <2>1, <2>2, <2>3 DEF HandleIntroducersUpdateTimer
  <2>5. new \subseteq CtxPeers \X CtxTags
    <3>1. CASE new = {}
      BY <3>1
    <3>2. CASE new # {}
      <4>1. PICK p \in CtxPeers : introSessions[p] \in CtxTags /\ new = {<<p, introSessions[p]>>}
        BY <2>4, <3>2 DEF FindIntroducers
      <4> QED
        BY <4>1
    <3> QED
      BY <3>1, <3>2
  <2>6. PICK added : added = Introduced(alive, new)
    OBVIOUS
  <2>7. added \subseteq CtxPeers \X CtxTags
    BY <2>5, <2>6 DEF Introduced
  <2>8. /\ InfoInv(info) /\ IsUnreachable(info)
        /\ \A intro \in info.introducers : intro[1] \notin CtxElsewhere => intro \in introducers
    <3>1. CASE IsUnreachable(ours)
      BY <2>1, <3>1 DEF CtxInv
    <3>2. CASE ~IsUnreachable(ours)
      BY <2>1, <3>2, UnreachableFacts DEF CtxInv
    <3> QED
      BY <3>1, <3>2
  <2>9. PICK left : left = info.introducers \ {intro \in introducers : ~HasSession(intro) /\ intro[1] \notin CtxElsewhere}
    OBVIOUS
  <2>10. /\ info.caps \subseteq Caps /\ "unreachable" \in info.caps
         /\ info.addresses \in Seq(Addrs) /\ OffersSSU(info.addresses)
         /\ info.introducers \subseteq CtxPeers \X CtxTags
         /\ info = [caps |-> info.caps, addresses |-> info.addresses, introducers |-> info.introducers]
    BY <2>8 DEF InfoInv, Infos, IsUnreachable, OffersSSU, OffersBoth
  <2>11. alive = [caps |-> info.caps, addresses |-> info.addresses, introducers |-> left]
    BY <2>3, <2>9, <2>10 DEF Alive
  <2>12. /\ left \subseteq CtxPeers \X CtxTags /\ kept \subseteq CtxPeers \X CtxTags
         /\ \A intro \in left : intro[1] \notin CtxElsewhere => intro \in kept
    <3>1. left \subseteq info.introducers /\ kept \subseteq introducers
      BY <2>2, <2>9
    <3>2. ASSUME NEW intro \in left, intro[1] \notin CtxElsewhere
          PROVE  intro \in kept
      BY <2>2, <2>8, <2>9, <3>1, <3>2
    <3> QED
      BY <2>10, <3>1, <3>2 DEF CtxInv
  <2>13. PICK result : result = [alive EXCEPT !.introducers = @ \cup added]
    OBVIOUS
  <2>14. result = [caps |-> info.caps, addresses |-> info.addresses, introducers |-> left \cup added]
    BY <2>11, <2>13
  <2>15. ours' = result /\ ourFile' = ReadBack(result) /\ introducers' = kept \cup added
    BY <2>4, <2>6, <2>13 DEF Publishes
  <2>16. InfoInv(result) /\ result.introducers = left \cup added
    <3>1. result \in Infos /\ IsUnreachable(result)
      BY <2>7, <2>10, <2>12, <2>14 DEF Infos, IsUnreachable
    <3>2. result.addresses = info.addresses /\ result.introducers = left \cup added
      BY <2>14
    <3> QED
      BY <2>10, <3>1, <3>2 DEF InfoInv
  <2>17. InfoInv(ReadBack(result))
    BY <2>16, ReadBackFacts
  <2> QED
    BY <1>0, <2>7, <2>12, <2>15, <2>16, <2>17 DEF CtxInv
<1> QED
  BY <1>1, <1>2

LEMMA RouterStartStep ==
  ASSUME NEW v6 \in BOOLEAN, NEW floodfill \in BOOLEAN, NEW bandwidth,
         CtxInv, RouterStart(v6, floodfill, bandwidth)
  PROVE  CtxInv'
<1>1. PICK read : read = IF IsUnreachable(ourFile) THEN Reachable(ourFile) ELSE ourFile
  OBVIOUS
<1>2. InfoInv(read) /\ ~IsUnreachable(read)
  <2>1. CASE IsUnreachable(ourFile)
    BY <1>1, <2>1, ReachableFacts DEF CtxInv
  <2>2. CASE ~IsUnreachable(ourFile)
    BY <1>1, <2>2 DEF CtxInv
  <2> QED
    BY <2>1, <2>2
<1>3. PICK new : new = Configured(read, v6, floodfill, bandwidth)
  OBVIOUS
<1>4. InfoInv(new) /\ new.introducers = {}
  BY <1>2, <1>3, ConfiguredFacts
<1>5. InfoInv(ReadBack(new))
  BY <1>4, ReadBackFacts
<1>6. ours' = new /\ ourFile' = ReadBack(new) /\ supportsV6' = v6 /\ introducers' = {}
  BY <1>1, <1>3 DEF RouterStart, Publishes
<1> QED
  BY <1>4, <1>5, <1>6 DEF CtxInv

LEMMA CtxInitInv == CtxInit => CtxInv
<1> SUFFICES ASSUME CtxInit
             PROVE  CtxInv
  OBVIOUS
<1>1. ASSUME NEW hostV6 \in BOOLEAN
      PROVE  InfoInv(NewRouterInfo(hostV6)) /\ ~IsUnreachable(NewRouterInfo(hostV6))
  <2>1. PICK x, y, s : x = Addr("SSU", hostV6) /\ y = Addr("NTCP", hostV6) /\ s = <<x, y>>
    OBVIOUS
  <2>2. x \in Addrs /\ y \in Addrs
    BY <2>1, AddrFacts
  <2>3. s \in Seq(Addrs) /\ Len(s) = 2 /\ s[1] = x /\ s[2] = y
    BY <2>1, <2>2
  <2>4. DOMAIN s = {1, 2}
    <3>1. DOMAIN s = 1 .. Len(s)
      BY <2>3
    <3> QED
      BY <2>3, <3>1
  <2>5. OffersBoth(s)
    <3>1. CASE hostV6
      <4>1. x.v6 /\ y.v6
        BY <2>1, <3>1, AddrFacts
      <4> QED
        BY <2>3, <2>4, <4>1 DEF AllV6, OffersSSU, OffersBoth
    <3>2. CASE ~hostV6
      <4>1. hostV6 = FALSE
        BY <3>2
      <4>2. x = SSU4 /\ y = NTCP4
        BY <2>1, <4>1 DEF SSU4, NTCP4
      <4>3. FirstSSU4(s) /\ HasNTCP4(s)
        BY <2>3, <2>4, <4>2 DEF FirstSSU4, HasNTCP4
      <4> QED
        BY <4>3 DEF OffersSSU, OffersBoth
    <3> QED
      BY <3>1, <3>2
  <2>6. NewRouterInfo(hostV6) = [caps |-> {"reachable", "testing", "introducer"}, introducers |-> {},
                                 addresses |-> s]
    BY <2>1 DEF NewRouterInfo
  <2>7. ~IsUnreachable(NewRouterInfo(hostV6))
    BY <2>6 DEF IsUnreachable
  <2>8. NewRouterInfo(hostV6) \in Infos
    BY <2>3, <2>6 DEF Infos, Caps
  <2> QED
    BY <2>5, <2>6, <2>7, <2>8 DEF InfoInv, OffersSSU, OffersBoth
<1>2. PICK hostV6 \in BOOLEAN, floodfill \in BOOLEAN, bandwidth \in {"", "high", "low"} :
        ours = Configured(NewRouterInfo(hostV6), supportsV6, floodfill, bandwidth)
  BY DEF CtxInit
<1>3. supportsV6 \in BOOLEAN /\ introducers = {} /\ ourFile = ReadBack(ours)
  BY DEF CtxInit
<1>4. InfoInv(ours) /\ ours.introducers = {}
  BY <1>1, <1>2, <1>3, ConfiguredFacts
<1>5. InfoInv(ReadBack(ours))
  BY <1>4, ReadBackFacts
<1> QED
  BY <1>3, <1>4, <1>5 DEF CtxInv

(* Through restarts with any options and changes of status, a router that   *)
(* says it can be reached names no introducers and offers NTCP over IPv4    *)
(* when it offers SSU there, and those it names at the address of their     *)
(* session are on the list of the SSU server (PublishedConsistent).         *)
THEOREM SpecPublishedConsistent == CtxSpec => []PublishedConsistent
<1>1. CtxInv /\ [CtxNext]_ctxVars => CtxInv'
  <2> SUFFICES ASSUME CtxInv, [CtxNext]_ctxVars
               PROVE  CtxInv'
    OBVIOUS
  <2>1. CASE UpdateNTCPV6Address
    BY <2>1, UpdateNTCPV6AddressStep
  <2>2. ASSUME NEW s, SetStatus(s)
        PROVE  CtxInv'
    BY <2>2 DEF SetStatus, CtxInv
  <2>3. ASSUME NEW p, NEW session, IntroSession(p, session)
        PROVE  CtxInv'
    BY <2>3 DEF IntroSession, CtxInv
  <2>4. CASE HandleIntroducersUpdateTimer
    BY <2>4, HandleIntroducersStep
  <2>5. ASSUME NEW v6 \in BOOLEAN, NEW floodfill \in BOOLEAN, NEW bandwidth \in {"", "high", "low"},
               RouterStart(v6, floodfill, bandwidth)
        PROVE  CtxInv'
    BY <2>5, RouterStartStep
  <2>6. CASE UNCHANGED ctxVars
    BY <2>6 DEF ctxVars, CtxInv
  <2> QED
    BY <2>1, <2>2, <2>3, <2>4, <2>5, <2>6 DEF CtxNext
<1>2. CtxInv => PublishedConsistent
  <2> SUFFICES ASSUME CtxInv
               PROVE  PublishedConsistent
    OBVIOUS
  <2>1. ASSUME Offered(Addr("SSU", FALSE)), ~IsUnreachable(ours)
        PROVE  Offered(Addr("NTCP", FALSE))
    <3>1. ~AllV6(ours.addresses)
      BY <2>1, AddrFacts DEF Offered, AllV6, SSU4
    <3>2. OffersBoth(ours.addresses)
      BY <2>1 DEF CtxInv, InfoInv
    <3> QED
      BY <3>1, <3>2 DEF OffersSSU, OffersBoth, HasNTCP4, NTCP4, Offered
  <2> QED
    BY <2>1 DEF CtxInv, InfoInv, PublishedConsistent
<1> QED
  BY <1>1, <1>2, CtxInitInv, PTL DEF CtxSpec

-----------------------------------------------------------------------------
(* Tunnel messages.  Each message a gateway was given is cut in one way: its *)
(* first fragment has some number of bytes, the follow-on fragments have 996 *)
(* each and the last one ends with the message.  So a message under assembly *)
(* whose next fragment is number n lacks exactly what lies after the first   *)
(* n - 1 of them, whatever was lost, repeated or overtaken.  The sizes of    *)
(* the first fragments are a function that no variable holds: the invariant  *)
(* says that there is one.                                                   *)

(* A tunnel data message is taken fragment by fragment.                      *)
LEMMA FragmentByFragment ==
  ASSUME NEW e, NEW fs, NEW inbound, Len(fs) \in Nat
  PROVE  \E done : /\ done[0] = e
                   /\ \A i \in 1..Len(fs) : done[i] = HandleFragment(done[i - 1], fs[i], inbound)
                   /\ HandleDecryptedTunnelDataMsg(e, fs, inbound) = done[Len(fs)]
<1> DEFINE Done(n, f) == f = [i \in 0..n |-> IF i = 0 THEN e ELSE HandleFragment(f[i - 1], fs[i], inbound)]
           Bad == {n \in Nat : ~ \E f : Done(n, f)}
<1>1. Bad = {}
  <2>1. SUFFICES ASSUME NEW n \in Nat, ~ \E f : Done(n, f), \A k \in Nat : k < n => \E f : Done(k, f)
                 PROVE  FALSE
    <3>1. Bad \subseteq Nat
      OBVIOUS
    <3>2. ASSUME Bad # {} PROVE FALSE
      <4>1. PICK n \in Bad : \A k \in Bad : n <= k
        <5> HIDE DEF Bad
        <5> QED BY <3>1, <3>2, NatMin
      <4>2. \A k \in Nat : k < n => \E f : Done(k, f)
        BY <4>1
      <4> QED
        BY <2>1, <4>1, <4>2
    <3> QED
      BY <3>2
  <2>2. CASE n = 0
    <3>1. PICK f : f = [i \in 0..0 |-> e]
      OBVIOUS
    <3>2. Done(0, f)
      BY <3>1
    <3> QED
      BY <2>1, <2>2, <3>2
  <2>3. CASE n # 0
    <3>1. PICK f : Done(n - 1, f)
      <4>1. n - 1 \in Nat /\ n - 1 < n
        BY <2>3
      <4> HIDE DEF Done
      <4> QED
        BY <2>1, <4>1
    <3>2. PICK g : g = [i \in 0..n |-> IF i = n THEN HandleFragment(f[n - 1], fs[n], inbound) ELSE f[i]]
      OBVIOUS
    <3>3. Done(n, g)
      <4>1. \A i \in 0..n : g[i] = IF i = 0 THEN e ELSE HandleFragment(g[i - 1], fs[i], inbound)
        BY <2>3, <3>1, <3>2
      <4> QED
        BY <3>2, <4>1
    <3> QED
      BY <2>1, <3>3
  <2> QED
    BY <2>2, <2>3
<1>2. \E f : Done(Len(fs), f)
  BY <1>1
<1>3. PICK done : done = CHOOSE f : Done(Len(fs), f)
  OBVIOUS
<1>4. Done(Len(fs), done)
  BY <1>2, <1>3
<1>5. HandleDecryptedTunnelDataMsg(e, fs, inbound) = done[Len(fs)]
  BY <1>3 DEF HandleDecryptedTunnelDataMsg
<1>6. done[0] = e /\ \A i \in 1..Len(fs) : done[i] = HandleFragment(done[i - 1], fs[i], inbound)
  BY <1>4
<1> QED
  BY <1>5, <1>6

-----------------------------------------------------------------------------
(* Fragments of message m, whose first one has s bytes unless it is whole.  *)
Fragments == [msg : I2NPMsgs, num : Nat, from : Int, size : Int, last : BOOLEAN]
Cut(f, s) ==
  /\ f.size >= 0
  /\ f.num = 0 => f.from = 0 /\ (f.last => f.size = MsgLen[f.msg]) /\ (~f.last => f.size = s)
  /\ f.num # 0 => /\ f.from = s + (f.num - 1) * 996
                  /\ (f.last => f.from + f.size = MsgLen[f.msg]) /\ (~f.last => f.size = 996)
Pieces(s, G) == {f \in Fragments : f.msg \in G /\ Cut(f, s[f.msg])}
BuffersOf(A, I, B) == [open : BOOLEAN, current : A, room : I, complete : B]
Buffers(F) == BuffersOf(Seq(F), Int, Seq(Seq(F)))

(* What was cut stays so when more messages are given.                      *)
LEMMA PiecesMore ==
  ASSUME NEW s, NEW s2, NEW G, NEW H, G \subseteq H, \A k \in G : s2[k] = s[k]
  PROVE  Pieces(s, G) \subseteq Pieces(s2, H)
BY DEF Pieces, Cut

LEMMA SeqMore ==
  ASSUME NEW A, NEW B, A \subseteq B
  PROVE  Seq(A) \subseteq Seq(B) /\ Seq(Seq(A)) \subseteq Seq(Seq(B)) /\ Buffers(A) \subseteq Buffers(B)
<1>1. \A C, D : C \subseteq D => Seq(C) \subseteq Seq(D)
  OBVIOUS
<1>2. Seq(A) \subseteq Seq(B) /\ Seq(Seq(A)) \subseteq Seq(Seq(B))
  BY <1>1
<1> QED
  BY <1>2 DEF Buffers, BuffersOf

(* The fields of a buffer that is written to, over any sets of their values. *)
LEMMA BufferOpened ==
  ASSUME NEW A, NEW I, NEW B, NEW g \in BuffersOf(A, I, B),
         NEW a \in A, NEW n \in I
  PROVE  /\ [g EXCEPT !.open = TRUE, !.current = a, !.room = n]
              \in BuffersOf(A, I, B)
         /\ [g EXCEPT !.open = TRUE, !.current = a, !.room = n].room = n
BY DEF BuffersOf

LEMMA BufferClosed ==
  ASSUME NEW A, NEW I, NEW B, NEW g \in BuffersOf(A, I, B),
         NEW a \in A, NEW b \in B
  PROVE  /\ [g EXCEPT !.open = FALSE, !.current = a, !.complete = b]
              \in BuffersOf(A, I, B)
         /\ ~[g EXCEPT !.open = FALSE, !.current = a, !.complete = b].open
BY DEF BuffersOf

LEMMA BufferFilled ==
  ASSUME NEW A, NEW I, NEW B, NEW g \in BuffersOf(A, I, B),
         NEW a \in A, NEW n \in I
  PROVE  [g EXCEPT !.current = a, !.room = n] \in BuffersOf(A, I, B)
BY DEF BuffersOf

LEMMA BufferCurrent ==
  ASSUME NEW A, NEW I, NEW B, NEW g \in BuffersOf(A, I, B),
         NEW a \in A
  PROVE  [g EXCEPT !.current = a] \in BuffersOf(A, I, B)
BY DEF BuffersOf

LEMMA BufferComplete ==
  ASSUME NEW A, NEW I, NEW B, NEW g \in BuffersOf(A, I, B),
         NEW b \in B
  PROVE  [g EXCEPT !.complete = b] \in BuffersOf(A, I, B)
BY DEF BuffersOf

LEMMA BufferFields ==
  ASSUME NEW F, NEW g \in Buffers(F)
  PROVE  g.current \in Seq(F) /\ g.room \in Int /\ g.complete \in Seq(Seq(F))
BY DEF Buffers, BuffersOf

LEMMA CompleteKeeps ==
  ASSUME NEW F, NEW g \in Buffers(F)
  PROVE  /\ CompleteCurrentTunnelDataMessage(g) \in Buffers(F)
         /\ ~CompleteCurrentTunnelDataMessage(g).open
         /\ CreateCurrentTunnelDataMessage(g) \in Buffers(F)
         /\ CreateCurrentTunnelDataMessage(g).room = 1003
<1>1. PICK a : a = <<>> /\ a \in Seq(F)
  <2>1. <<>> \in Seq(F)
    OBVIOUS
  <2> QED
    BY <2>1, Zenon
<1>2. PICK n : n = 1003
  OBVIOUS
<1>3. n \in Int /\ a \in Seq(F) /\ g \in BuffersOf(Seq(F), Int, Seq(Seq(F)))
  <2>1. n \in Int
    BY <1>2
  <2> QED
    BY <1>1, <2>1, Zenon DEF Buffers
<1>6. CreateCurrentTunnelDataMessage(g) = [g EXCEPT !.open = TRUE, !.current = a, !.room = n]
  BY <1>1, <1>2, Zenon DEF CreateCurrentTunnelDataMessage, TUNNEL_DATA_MAX_PAYLOAD_SIZE
<1>7. PICK b : b = Append(g.complete, g.current)
  OBVIOUS
<1>8. b \in Seq(Seq(F))
  <2>1. g.complete \in Seq(Seq(F)) /\ g.current \in Seq(F)
    BY BufferFields
  <2> QED
    BY <1>7, <2>1
<1>9. [g EXCEPT !.open = FALSE, !.current = <<>>, !.complete = Append(@, g.current)]
        = [g EXCEPT !.open = FALSE, !.current = a, !.complete = b]
  BY <1>1, <1>7, Zenon
<1>10. CompleteCurrentTunnelDataMessage(g)
         = IF g.open THEN [g EXCEPT !.open = FALSE, !.current = a, !.complete = b] ELSE g
  BY <1>9, Zenon DEF CompleteCurrentTunnelDataMessage
<1>11. /\ [g EXCEPT !.open = TRUE, !.current = a, !.room = n] \in Buffers(F)
       /\ [g EXCEPT !.open = TRUE, !.current = a, !.room = n].room = n
  <2>1. [g EXCEPT !.open = TRUE, !.current = a, !.room = n] \in BuffersOf(Seq(F), Int, Seq(Seq(F)))
    BY <1>3, BufferOpened
  <2>2. [g EXCEPT !.open = TRUE, !.current = a, !.room = n].room = n
    BY <1>3 DEF BuffersOf
  <2> QED
    BY <2>1, <2>2, Zenon DEF Buffers
<1>12. /\ [g EXCEPT !.open = FALSE, !.current = a, !.complete = b] \in Buffers(F)
       /\ ~[g EXCEPT !.open = FALSE, !.current = a, !.complete = b].open
  BY <1>3, <1>8, BufferClosed, Zenon DEF Buffers
<1>13. CreateCurrentTunnelDataMessage(g) \in Buffers(F) /\ CreateCurrentTunnelDataMessage(g).room = 1003
  <2>1. CreateCurrentTunnelDataMessage(g) \in Buffers(F) /\ CreateCurrentTunnelDataMessage(g).room = n
    BY <1>6, <1>11, Zenon
  <2> QED
    BY <1>2, <2>1
<1>14. CompleteCurrentTunnelDataMessage(g) \in Buffers(F) /\ ~CompleteCurrentTunnelDataMessage(g).open
  BY <1>10, <1>12, Zenon
<1> QED
  BY <1>13, <1>14

LEMMA AddedKeeps ==
  ASSUME NEW F, NEW g \in Buffers(F), NEW f \in F, NEW length \in Int
  PROVE  Added(g, f, length) \in Buffers(F)
<1>3. g.current \in Seq(F) /\ g.room \in Int
  BY BufferFields
<1>4. PICK c : c = Append(g.current, f)
  OBVIOUS
<1>5. PICK n : n = g.room - length
  OBVIOUS
<1>6. c \in Seq(F) /\ n \in Int
  BY <1>3, <1>4, <1>5
<1>7. PICK h : h = [g EXCEPT !.current = c, !.room = n]
  OBVIOUS
<1>8. h \in Buffers(F)
  BY <1>6, <1>7, BufferFilled, Zenon DEF Buffers
<1>9. h = [g EXCEPT !.current = Append(@, f), !.room = @ - length]
  BY <1>4, <1>5, <1>7, Zenon
<1>10. Added(g, f, length) = IF h.room = 0 THEN CompleteCurrentTunnelDataMessage(h) ELSE h
  BY <1>9, Zenon DEF Added
<1> QED
  BY <1>8, <1>10, CompleteKeeps

LEMMA Lengths ==
  ASSUME NEW m \in I2NPMsgs
  PROVE  /\ m \in Nat /\ MsgLen[m] \in Nat \ {0} /\ DiLen(m) \in {1, 33, 37}
         /\ FullMsgLen(m) = DiLen(m) + MsgLen[m] + 2
<1>1. /\ I2NPMsgs \subseteq Nat /\ MsgLen \in [I2NPMsgs -> 1..I2NP_MAX_MESSAGE_SIZE]
      /\ MsgDelivery \in [I2NPMsgs -> {"local", "tunnel", "router"}]
  BY TunnelMessagesAssumption
<1>2. I2NP_MAX_MESSAGE_SIZE \in Nat
  BY DEF I2NP_MAX_MESSAGE_SIZE
<1>3. MsgLen[m] \in 1..I2NP_MAX_MESSAGE_SIZE /\ MsgDelivery[m] \in {"local", "tunnel", "router"} /\ m \in Nat
  BY <1>1
<1>4. MsgLen[m] \in Nat \ {0}
  BY <1>2, <1>3
<1>5. DiLen(m) \in {1, 33, 37}
  <2>1. DiLen(m) \in {1, 1 + 32, 1 + 4 + 32}
    BY <1>3, Zenon DEF DiLen
  <2> QED
    BY <2>1
<1>6. FullMsgLen(m) = DiLen(m) + MsgLen[m] + 2
  BY DEF FullMsgLen
<1> QED
  BY <1>3, <1>4, <1>5, <1>6

(* A message that fits is put whole.                                        *)
LEMMA PutWholeKeeps ==
  ASSUME NEW s \in [I2NPMsgs -> Int], NEW G, NEW m \in I2NPMsgs \cap G, NEW g \in Buffers(Pieces(s, G))
  PROVE  PutWhole(g, m) \in Buffers(Pieces(s, G))
<1>1. PICK f : f = [msg |-> m, num |-> 0, from |-> 0, size |-> MsgLen[m], last |-> TRUE]
  OBVIOUS
<1>2. f \in Pieces(s, G)
  BY <1>1, Lengths DEF Pieces, Fragments, Cut
<1>3. FullMsgLen(m) \in Int
  BY Lengths
<1>4. PutWhole(g, m) = Added(g, f, FullMsgLen(m))
  BY <1>1 DEF PutWhole
<1> QED
  BY <1>2, <1>3, <1>4, AddedKeeps

(* One that does not is cut up: how many bytes its first fragment has is    *)
(* said by the room there was.                                              *)
LEMMA FragmentMade ==
  ASSUME NEW m \in I2NPMsgs, NEW n \in Nat, NEW x \in Int, NEW z \in Int, NEW l \in BOOLEAN,
         NEW f, f = [msg |-> m, num |-> n, from |-> x, size |-> z, last |-> l]
  PROVE  f \in Fragments /\ f.msg = m /\ f.num = n /\ f.from = x /\ f.size = z /\ f.last = l
BY DEF Fragments

LEMMA PutFragmentsKeeps ==
  ASSUME NEW s \in [I2NPMsgs -> Int], NEW G, NEW m \in I2NPMsgs \cap G, NEW g \in Buffers(Pieces(s, G)),
         DiLen(m) + 6 <= g.room, s[m] = g.room - DiLen(m) - 6
  PROVE  PutFragments(g, m) \in Buffers(Pieces(s, G))
<1>1. PICK F : F = Pieces(s, G)
  OBVIOUS
<1>2. PICK rest : rest = MsgLen[m] - s[m]
  OBVIOUS
<1>3. s[m] \in Nat /\ rest \in Int /\ MsgLen[m] \in Nat
  <2>1. g.room \in Int /\ DiLen(m) \in Nat /\ MsgLen[m] \in Nat
    BY Lengths, BufferFields
  <2> QED
    BY <1>2, <2>1
<1>4. PICK first : first = [msg |-> m, num |-> 0, from |-> 0, size |-> s[m], last |-> FALSE]
  OBVIOUS
<1>5. first \in F
  <2>1. first \in Fragments
    BY <1>3, <1>4 DEF Fragments
  <2>2. first.msg = m /\ first.num = 0 /\ first.from = 0 /\ first.size = s[m] /\ first.last = FALSE
    BY <1>4
  <2> QED
    BY <1>1, <1>3, <2>1, <2>2 DEF Pieces, Cut
<1>6. PICK c : c = Append(g.current, first)
  OBVIOUS
<1>9. PICK h : h = [g EXCEPT !.current = c]
  OBVIOUS
<1>10. h \in Buffers(F)
  <2>1. g.current \in Seq(F)
    BY <1>1, BufferFields
  <2>2. c \in Seq(F)
    BY <1>5, <1>6, <2>1
  <2> QED
    BY <1>1, <1>9, <2>2, BufferCurrent, Zenon DEF Buffers
<1>11. PICK filled : filled = CompleteCurrentTunnelDataMessage(h)
  OBVIOUS
<1>12. filled \in Buffers(F)
  BY <1>10, <1>11, CompleteKeeps
<1> DEFINE size == g.room - DiLen(m) - 6
           most == TUNNEL_DATA_MAX_PAYLOAD_SIZE - 7
           left == MsgLen[m] - size
           many == (left + most - 1) \div most
           Next1(n) == [msg |-> m, num |-> n, from |-> size + (n - 1) * most,
                        size |-> IF n = many THEN left - (n - 1) * most ELSE most,
                        last |-> n = many]
           full == CompleteCurrentTunnelDataMessage(
                     [g EXCEPT !.current = Append(@, [msg |-> m, num |-> 0, from |-> 0,
                                                       size |-> size, last |-> FALSE])])
<1>13. PutFragments(g, m)
         = IF left <= 0 THEN full
           ELSE Added(CreateCurrentTunnelDataMessage(
                        [full EXCEPT !.complete = @ \o [n \in 1..(many - 1) |-> <<Next1(n)>>]]),
                      Next1(many), Next1(many).size + 7)
  BY Zenon DEF PutFragments
<1>14. size = s[m] /\ left = rest /\ most = 996
  BY <1>2 DEF TUNNEL_DATA_MAX_PAYLOAD_SIZE
<1>15. full = filled
  <2> HIDE DEF size
  <2> QED
    BY <1>4, <1>6, <1>9, <1>11, <1>14, Zenon
<1> HIDE DEF size, most, left, full
<1>16. CASE rest <= 0
  BY <1>1, <1>12, <1>13, <1>14, <1>15, <1>16
<1>17. CASE rest > 0
  <2>1. PICK count : count = (rest + 995) \div 996
    OBVIOUS
  <2>2. count \in Nat \ {0} /\ (count - 1) * 996 < rest /\ rest <= count * 996
    BY <1>3, <1>17, <2>1
  <2>3. many = count
    BY <1>3, <1>14, <2>1
  <2> HIDE DEF many
  <2>4. \A n \in 1..count : Next1(n) \in F
    <3>1. SUFFICES ASSUME NEW n \in 1..count
                   PROVE  Next1(n) \in F
      OBVIOUS
    <3>2. PICK l \in BOOLEAN : l = (n = many)
      OBVIOUS
    <3>3. PICK x : x = s[m] + (n - 1) * 996
      OBVIOUS
    <3>4. PICK z : z = IF n = count THEN rest - (n - 1) * 996 ELSE 996
      OBVIOUS
    <3>5. x \in Int /\ z \in Int /\ n \in Nat \ {0} /\ z >= 0
      BY <1>3, <2>2, <3>3, <3>4
    <3>6. PICK f : f = [msg |-> m, num |-> n, from |-> x, size |-> z, last |-> l]
      OBVIOUS
    <3>7. size + (n - 1) * most = x /\ (IF n = many THEN left - (n - 1) * most ELSE most) = z
      BY <1>14, <2>3, <3>3, <3>4
    <3>8. Next1(n) = f
      BY <3>2, <3>6, <3>7, Zenon
    <3>9. f \in Fragments /\ f.msg = m /\ f.num = n /\ f.from = x /\ f.size = z /\ f.last = l
      BY <3>5, <3>6, FragmentMade
    <3>10. Cut(f, s[m])
      <4>1. n # count => z = 996
        BY <3>4
      <4>2. n = count => x + z = MsgLen[m]
        BY <1>2, <1>3, <2>2, <3>3, <3>4
      <4> QED
        <5>1. f.last => n = count
          BY <2>3, <3>2, <3>9
        <5>2. ~f.last => n # count
          BY <2>3, <3>2, <3>9
        <5>3. /\ f.size >= 0 /\ f.num # 0 /\ f.from = s[m] + (f.num - 1) * 996
              /\ (n = count => f.from + f.size = MsgLen[m]) /\ (n # count => f.size = 996)
          BY <3>3, <3>5, <3>9, <4>1, <4>2
        <5> QED
          BY <3>9, <5>1, <5>2, <5>3, ZenonT(30) DEF Cut
    <3> QED
      BY <1>1, <3>8, <3>9, <3>10 DEF Pieces
  <2> HIDE DEF Next1
  <2>5. PICK middle : middle = [n \in 1..(many - 1) |-> <<Next1(n)>>]
    OBVIOUS
  <2>6. middle \in Seq(Seq(F))
    <3>1. \A n \in 1..(many - 1) : <<Next1(n)>> \in Seq(F)
      BY <2>2, <2>3, <2>4
    <3>2. many - 1 \in Nat
      BY <2>2, <2>3
    <3>3. middle \in [1..(many - 1) -> Seq(F)]
      BY <2>5, <3>1
    <3> QED
      BY <3>2, <3>3
  <2>7. PICK k : k = filled.complete \o middle
    OBVIOUS
  <2>8. PICK x : x = [filled EXCEPT !.complete = k]
    OBVIOUS
  <2>9. x \in Buffers(F)
    <3>1. k \in Seq(Seq(F))
      BY <1>12, <2>6, <2>7, BufferFields
    <3> QED
      BY <1>12, <2>8, <3>1, BufferComplete, Zenon DEF Buffers
  <2>10. PICK y : y = CreateCurrentTunnelDataMessage(x)
    OBVIOUS
  <2>11. y \in Buffers(F)
    BY <2>9, <2>10, CompleteKeeps
  <2>12. PICK f : f = Next1(many)
    OBVIOUS
  <2>13. f \in F /\ f.size + 7 \in Int
    <3>1. f \in F
      BY <2>2, <2>3, <2>4, <2>12
    <3> QED
      BY <1>1, <3>1 DEF Pieces, Fragments
  <2>14. PutFragments(g, m) = Added(y, f, f.size + 7)
    <3>1. ~(left <= 0)
      BY <1>3, <1>14, <1>17
    <3>2. [full EXCEPT !.complete = @ \o [n \in 1..(many - 1) |-> <<Next1(n)>>]] = x
      BY <1>15, <2>5, <2>7, <2>8, Zenon
    <3> QED
      BY <1>13, <2>10, <2>12, <3>1, <3>2, Zenon
  <2> QED
    BY <1>1, <2>11, <2>13, <2>14, AddedKeeps
<1> QED
  BY <1>3, <1>16, <1>17

(* What becomes of a buffer when the messages M are put into it as well.    *)
Takes(s, G, M, x) ==
  \E s2 \in [I2NPMsgs -> Int] : /\ \A k \in G : s2[k] = s[k]
                                /\ x \in Buffers(Pieces(s2, G \cup M))

LEMMA PutEither ==
  ASSUME NEW s \in [I2NPMsgs -> Int], NEW G, G \subseteq I2NPMsgs, NEW m \in I2NPMsgs \ G,
         NEW h \in Buffers(Pieces(s, G))
  PROVE  /\ Takes(s, G, {m}, PutWhole(h, m))
         /\ DiLen(m) + 6 <= h.room => Takes(s, G, {m}, PutFragments(h, m))
<1>1. Takes(s, G, {m}, PutWhole(h, m))
  <2>1. Pieces(s, G) \subseteq Pieces(s, G \cup {m})
    BY PiecesMore
  <2>2. h \in Buffers(Pieces(s, G \cup {m}))
    BY <2>1, SeqMore
  <2>3. PutWhole(h, m) \in Buffers(Pieces(s, G \cup {m}))
    BY <2>2, PutWholeKeeps
  <2> QED
    BY <2>3 DEF Takes
<1>2. ASSUME DiLen(m) + 6 <= h.room
      PROVE  Takes(s, G, {m}, PutFragments(h, m))
  <2>1. PICK d : d = h.room - DiLen(m) - 6
    OBVIOUS
  <2>2. d \in Int
    BY <2>1, Lengths, BufferFields
  <2>3. PICK s2 : s2 = [k \in I2NPMsgs |-> IF k = m THEN d ELSE s[k]]
    OBVIOUS
  <2>4. s2 \in [I2NPMsgs -> Int] /\ s2[m] = d /\ \A k \in G : s2[k] = s[k]
    BY <2>2, <2>3
  <2>5. Pieces(s, G) \subseteq Pieces(s2, G \cup {m})
    BY <2>4, PiecesMore
  <2>6. h \in Buffers(Pieces(s2, G \cup {m}))
    BY <2>5, SeqMore
  <2>7. PutFragments(h, m) \in Buffers(Pieces(s2, G \cup {m}))
    BY <1>2, <2>1, <2>4, <2>6, PutFragmentsKeeps
  <2> QED
    BY <2>4, <2>7, Zenon DEF Takes
<1> QED
  BY <1>1, <1>2

LEMMA PutIntoOpenKeeps ==
  ASSUME NEW s \in [I2NPMsgs -> Int], NEW G, G \subseteq I2NPMsgs, NEW m \in I2NPMsgs \ G,
         NEW g \in Buffers(Pieces(s, G)), NEW created
  PROVE  Takes(s, G, {m}, PutIntoOpen(g, m, created))
<1> DEFINE Again(x) == CreateCurrentTunnelDataMessage(CompleteCurrentTunnelDataMessage(x))
<1>1. PICK h : h = IF ~created /\ ShouldComplete(m, g.room) THEN Again(g) ELSE g
  OBVIOUS
<1>2. PICK fresh : fresh = Again(h)
  OBVIOUS
<1>3. PICK x : x = PutIntoOpen(g, m, created)
  OBVIOUS
<1>4. x = CASE FullMsgLen(m) <= g.room -> PutWhole(g, m)
            [] FullMsgLen(m) > g.room /\ DiLen(m) + 6 <= h.room -> PutFragments(h, m)
            [] FullMsgLen(m) > g.room /\ DiLen(m) + 6 > h.room ->
                 IF FullMsgLen(m) <= fresh.room THEN PutWhole(fresh, m) ELSE PutFragments(fresh, m)
  BY <1>1, <1>2, <1>3, Zenon DEF PutIntoOpen
<1>5. h \in Buffers(Pieces(s, G)) /\ fresh \in Buffers(Pieces(s, G)) /\ fresh.room = 1003
  BY <1>1, <1>2, CompleteKeeps
<1>6. DiLen(m) + 6 <= fresh.room /\ DiLen(m) \in Int /\ FullMsgLen(m) \in Int
  BY <1>5, Lengths
<1>7. g.room \in Int /\ h.room \in Int
  BY <1>5, BufferFields
<1> HIDE DEF Again
<1>8. CASE FullMsgLen(m) <= g.room
  <2>1. ~(FullMsgLen(m) > g.room)
    BY <1>6, <1>7, <1>8
  <2>2. x = PutWhole(g, m)
    BY <1>4, <1>8, <2>1, Zenon
  <2> QED
    BY <1>3, <2>2, PutEither, Zenon
<1>9. CASE FullMsgLen(m) > g.room /\ DiLen(m) + 6 <= h.room
  <2>1. ~(FullMsgLen(m) <= g.room) /\ ~(DiLen(m) + 6 > h.room)
    BY <1>6, <1>7, <1>9
  <2>2. x = PutFragments(h, m)
    BY <1>4, <1>9, <2>1, Zenon
  <2> QED
    BY <1>3, <1>5, <1>9, <2>2, PutEither, Zenon
<1>10. CASE FullMsgLen(m) > g.room /\ DiLen(m) + 6 > h.room
  <2>1. ~(FullMsgLen(m) <= g.room) /\ ~(DiLen(m) + 6 <= h.room)
    BY <1>6, <1>7, <1>10
  <2>2. x = IF FullMsgLen(m) <= fresh.room THEN PutWhole(fresh, m) ELSE PutFragments(fresh, m)
    BY <1>4, <1>10, <2>1, Zenon
  <2>3. Takes(s, G, {m}, PutWhole(fresh, m)) /\ Takes(s, G, {m}, PutFragments(fresh, m))
    BY <1>5, <1>6, PutEither, Zenon
  <2> QED
    BY <1>3, <2>2, <2>3, Zenon
<1> QED
  BY <1>6, <1>7, <1>8, <1>9, <1>10

(* Whatever message not given before is put into a gateway, the buffer holds *)
(* nothing but what was cut from the messages it was given.                  *)
LEMMA PutI2NPMsgKeeps ==
  ASSUME NEW s \in [I2NPMsgs -> Int], NEW G, G \subseteq I2NPMsgs, NEW m \in I2NPMsgs \ G,
         NEW g \in Buffers(Pieces(s, G))
  PROVE  Takes(s, G, {m}, PutI2NPMsg(g, m))
<1>1. CreateCurrentTunnelDataMessage(g) \in Buffers(Pieces(s, G))
  BY CompleteKeeps
<1>2. Takes(s, G, {m}, PutIntoOpen(g, m, FALSE))
  BY PutIntoOpenKeeps
<1>3. Takes(s, G, {m}, PutIntoOpen(CreateCurrentTunnelDataMessage(g), m, TRUE))
  BY <1>1, PutIntoOpenKeeps
<1> QED
  BY <1>2, <1>3, Zenon DEF PutI2NPMsg

(* A block of messages is put one by one.                                    *)
LEMMA MessageByMessage ==
  ASSUME NEW g, NEW ms, Len(ms) \in Nat
  PROVE  \E put : /\ put[0] = g
                  /\ \A i \in 1..Len(ms) : put[i] = PutI2NPMsg(put[i - 1], ms[i])
                  /\ PutAll(g, ms) = put[Len(ms)]
<1> DEFINE Done(n, f) == f = [i \in 0..n |-> IF i = 0 THEN g ELSE PutI2NPMsg(f[i - 1], ms[i])]
           Bad == {n \in Nat : ~ \E f : Done(n, f)}
<1>1. Bad = {}
  <2>1. SUFFICES ASSUME NEW n \in Nat, ~ \E f : Done(n, f), \A k \in Nat : k < n => \E f : Done(k, f)
                 PROVE  FALSE
    <3>1. Bad \subseteq Nat
      OBVIOUS
    <3>2. ASSUME Bad # {} PROVE FALSE
      <4>1. PICK n \in Bad : \A k \in Bad : n <= k
        <5> HIDE DEF Bad
        <5> QED BY <3>1, <3>2, NatMin
      <4>2. \A k \in Nat : k < n => \E f : Done(k, f)
        BY <4>1
      <4> QED
        BY <2>1, <4>1, <4>2
    <3> QED
      BY <3>2
  <2>2. CASE n = 0
    <3>1. PICK f : f = [i \in 0..0 |-> g]
      OBVIOUS
    <3>2. Done(0, f)
      BY <3>1
    <3> QED
      BY <2>1, <2>2, <3>2
  <2>3. CASE n # 0
    <3>1. PICK f : Done(n - 1, f)
      BY <2>1, <2>3
    <3>2. PICK h : h = [i \in 0..n |-> IF i = n THEN PutI2NPMsg(f[n - 1], ms[n]) ELSE f[i]]
      OBVIOUS
    <3>3. Done(n, h)
      <4>1. \A i \in 0..n : h[i] = IF i = 0 THEN g ELSE PutI2NPMsg(h[i - 1], ms[i])
        BY <2>3, <3>1, <3>2
      <4> QED
        BY <3>2, <4>1
    <3> QED
      BY <2>1, <3>3
  <2> QED
    BY <2>2, <2>3
<1>2. \E f : Done(Len(ms), f)
  BY <1>1
<1>3. PICK put : put = CHOOSE f : Done(Len(ms), f)
  OBVIOUS
<1>4. Done(Len(ms), put)
  BY <1>2, <1>3
<1>5. PutAll(g, ms) = put[Len(ms)]
  BY <1>3 DEF PutAll
<1>6. put[0] = g /\ \A i \in 1..Len(ms) : put[i] = PutI2NPMsg(put[i - 1], ms[i])
  BY <1>4
<1> QED
  BY <1>5, <1>6

LEMMA TakesOneMore ==
  ASSUME NEW s \in [I2NPMsgs -> Int], NEW G, NEW M, G \cup M \subseteq I2NPMsgs,
         NEW m \in I2NPMsgs \ (G \cup M), NEW g, Takes(s, G, M, g)
  PROVE  Takes(s, G, M \cup {m}, PutI2NPMsg(g, m))
<1>1. PICK s2 \in [I2NPMsgs -> Int] : (\A k \in G : s2[k] = s[k]) /\ g \in Buffers(Pieces(s2, G \cup M))
  BY DEF Takes
<1>2. Takes(s2, G \cup M, {m}, PutI2NPMsg(g, m))
  BY <1>1, PutI2NPMsgKeeps
<1>3. PICK s3 \in [I2NPMsgs -> Int] :
        /\ \A k \in G \cup M : s3[k] = s2[k]
        /\ PutI2NPMsg(g, m) \in Buffers(Pieces(s3, (G \cup M) \cup {m}))
  BY <1>2 DEF Takes
<1>4. (G \cup M) \cup {m} = G \cup (M \cup {m})
  OBVIOUS
<1>5. \A k \in G : s3[k] = s[k]
  BY <1>1, <1>3
<1> QED
  BY <1>3, <1>4, <1>5, Zenon DEF Takes

(* So is a block of messages of which none was given before.                *)
LEMMA PutAllKeeps ==
  ASSUME NEW s \in [I2NPMsgs -> Int], NEW G, G \subseteq I2NPMsgs, NEW ms \in Seq(I2NPMsgs),
         \A i, j \in DOMAIN ms : ms[i] = ms[j] => i = j, \A i \in DOMAIN ms : ms[i] \notin G,
         NEW g \in Buffers(Pieces(s, G))
  PROVE  Takes(s, G, {ms[i] : i \in DOMAIN ms}, PutAll(g, ms))
<1>1. Len(ms) \in Nat /\ DOMAIN ms = 1..Len(ms) /\ \A i \in 1..Len(ms) : ms[i] \in I2NPMsgs
  OBVIOUS
<1>2. PICK put : /\ put[0] = g
                 /\ \A i \in 1..Len(ms) : put[i] = PutI2NPMsg(put[i - 1], ms[i])
                 /\ PutAll(g, ms) = put[Len(ms)]
  BY <1>1, MessageByMessage
<1> DEFINE Prefix(n) == {ms[i] : i \in 1..n}
           Bad == {n \in 0..Len(ms) : ~Takes(s, G, Prefix(n), put[n])}
<1>3. Bad = {}
  <2>1. ASSUME Bad # {} PROVE FALSE
    <3>1. Bad \subseteq Nat
      BY <1>1
    <3>2. PICK n \in Bad : \A k \in Bad : n <= k
      <4> HIDE DEF Bad
      <4> QED
        BY <2>1, <3>1, NatMin
    <3>3. n \in 0..Len(ms) /\ ~Takes(s, G, Prefix(n), put[n])
      BY <3>2
    <3>4. CASE n = 0
      <4>1. Prefix(0) = {} /\ G \cup {} = G
        OBVIOUS
      <4>2. Takes(s, G, Prefix(0), g)
        <5> HIDE DEF Prefix
        <5> QED
          BY <4>1 DEF Takes
      <4> QED
        BY <1>2, <3>3, <3>4, <4>2
    <3>5. CASE n # 0
      <4>1. n - 1 \in 0..Len(ms) /\ n \in 1..Len(ms) /\ ~(n <= n - 1)
        BY <1>1, <3>3, <3>5
      <4>2. Takes(s, G, Prefix(n - 1), put[n - 1])
        BY <3>2, <4>1
      <4>3. ms[n] \in I2NPMsgs \ (G \cup Prefix(n - 1)) /\ G \cup Prefix(n - 1) \subseteq I2NPMsgs
        <5>1. ASSUME NEW i \in 1..n - 1, ms[n] = ms[i] PROVE FALSE
          <6>1. i \in DOMAIN ms /\ n \in DOMAIN ms /\ i # n
            BY <1>1, <4>1
          <6> QED
            BY <5>1, <6>1
        <5>2. n \in DOMAIN ms /\ ms[n] \in I2NPMsgs /\ ms[n] \notin G
          BY <1>1, <4>1
        <5>3. Prefix(n - 1) \subseteq I2NPMsgs
          BY <1>1, <4>1
        <5> QED
          BY <5>1, <5>2, <5>3
      <4>4. Prefix(n) = Prefix(n - 1) \cup {ms[n]}
        BY <1>1, <4>1
      <4>5. put[n] = PutI2NPMsg(put[n - 1], ms[n])
        BY <1>2, <4>1
      <4> HIDE DEF Prefix, Bad
      <4>6. Takes(s, G, Prefix(n - 1) \cup {ms[n]}, PutI2NPMsg(put[n - 1], ms[n]))
        BY <4>2, <4>3, TakesOneMore
      <4> QED
        BY <3>3, <4>4, <4>5, <4>6
    <3> QED
      BY <3>4, <3>5
  <2> QED
    BY <2>1
<1>4. Takes(s, G, Prefix(Len(ms)), put[Len(ms)])
  <2>1. Len(ms) \in 0..Len(ms)
    BY <1>1
  <2>2. \A n \in 0..Len(ms) : Takes(s, G, Prefix(n), put[n])
    <3> HIDE DEF Prefix
    <3> QED
      BY <1>3
  <2> QED
    BY <2>1, <2>2, Zenon
<1> QED
  BY <1>1, <1>2, <1>4

(* What goes to the transports and what is left behind.                      *)
LEMMA SendKeeps ==
  ASSUME NEW F, NEW g \in Buffers(F)
  PROVE  /\ Packed(g) \in Seq(Seq(F)) /\ SendBuffer(g) \in Buffers(F)
         /\ ~SendBuffer(g).open /\ SendBuffer(g).complete = <<>>
<1>1. PICK h : h = CompleteCurrentTunnelDataMessage(g)
  OBVIOUS
<1>2. h \in Buffers(F) /\ ~h.open
  BY <1>1, CompleteKeeps
<1>3. PICK b : b = <<>> /\ b \in Seq(Seq(F))
  <2>1. <<>> \in Seq(Seq(F))
    OBVIOUS
  <2> QED
    BY <2>1, Zenon
<1>4. SendBuffer(g) = [h EXCEPT !.complete = b]
  BY <1>1, <1>3, Zenon DEF SendBuffer
<1>5. [h EXCEPT !.complete = b] \in Buffers(F)
  BY <1>2, <1>3, BufferComplete, Zenon DEF Buffers
<1>6. ~[h EXCEPT !.complete = b].open /\ [h EXCEPT !.complete = b].complete = b
  BY <1>2 DEF Buffers, BuffersOf
<1>7. Packed(g) \in Seq(Seq(F))
  BY <1>1, <1>2, BufferFields DEF Packed
<1> QED
  BY <1>3, <1>4, <1>5, <1>6, <1>7, Zenon

(* Ranges end to end from the first byte of a message, and where they end.  *)
Ranges == Int \X Int
Joined(data) ==
  /\ data # <<>> /\ data[1][1] = 0
  /\ \A i \in DOMAIN data : data[i][2] >= 0
  /\ \A i \in 2..Len(data) : data[i][1] = data[i - 1][1] + data[i - 1][2]
EndOf(data) == data[Len(data)][1] + data[Len(data)][2]

LEMMA JoinedMore ==
  ASSUME NEW data \in Seq(Ranges), Joined(data), NEW x \in Ranges, x[1] = EndOf(data), x[2] >= 0
  PROVE  /\ Append(data, x) \in Seq(Ranges) /\ Joined(Append(data, x))
         /\ EndOf(Append(data, x)) = x[1] + x[2]
<1>1. PICK d : d = Append(data, x)
  OBVIOUS
<1>2. PICK n : n = Len(data)
  OBVIOUS
<1>3. n \in Nat \ {0} /\ DOMAIN data = 1..n
  BY <1>2 DEF Joined
<1>4. /\ d \in Seq(Ranges) /\ Len(d) = n + 1 /\ d[n + 1] = x
      /\ \A i \in 1..n : d[i] = data[i]
  BY <1>1, <1>2
<1>5. DOMAIN d = 1..(n + 1)
  BY <1>3, <1>4
<1>6. \A i \in 1..n : data[i] \in Ranges
  BY <1>3
<1>7. EndOf(d) = x[1] + x[2]
  BY <1>4 DEF EndOf
<1>8. EndOf(data) = data[n][1] + data[n][2]
  BY <1>2 DEF EndOf
<1>9. Joined(d)
  <2>1. d # <<>> /\ d[1][1] = 0
    BY <1>3, <1>4 DEF Joined
  <2>2. \A i \in DOMAIN d : d[i][2] >= 0
    BY <1>3, <1>4, <1>5 DEF Joined
  <2>3. ASSUME NEW i \in 2..Len(d)
        PROVE  d[i][1] = d[i - 1][1] + d[i - 1][2]
    <3>1. CASE i = n + 1
      BY <1>3, <1>4, <1>8, <3>1
    <3>2. CASE i # n + 1
      <4>1. i \in 2..n /\ i \in 1..n /\ i - 1 \in 1..n
        BY <1>3, <1>4, <3>2
      <4>2. data[i][1] = data[i - 1][1] + data[i - 1][2]
        BY <1>2, <4>1 DEF Joined
      <4> QED
        BY <1>4, <4>1, <4>2
    <3> QED
      BY <3>1, <3>2
  <2> QED
    BY <2>1, <2>2, <2>3 DEF Joined
<1> QED
  BY <1>1, <1>4, <1>7, <1>9

LEMMA JoinedOne ==
  ASSUME NEW x \in Ranges, x[1] = 0, x[2] >= 0
  PROVE  <<x>> \in Seq(Ranges) /\ Joined(<<x>>) /\ EndOf(<<x>>) = x[2]
<1>1. PICK d : d = <<x>>
  OBVIOUS
<1>2. d \in Seq(Ranges) /\ d # <<>> /\ Len(d) = 1 /\ d[1] = x /\ DOMAIN d = 1..1
  BY <1>1
<1>3. x[2] \in Int
  BY DEF Ranges
<1>4. EndOf(d) = x[2]
  BY <1>2, <1>3 DEF EndOf
<1>5. 2..Len(d) = {} /\ \A i \in DOMAIN d : i = 1
  BY <1>2
<1>6. Joined(d)
  BY <1>2, <1>5 DEF Joined
<1> QED
  BY <1>1, <1>2, <1>4, <1>6

(* A message under assembly has the bytes of its first fragment and of the  *)
(* follow-on fragments before the next; one that waits is a follow-on one.   *)
Parts == [next : Nat, data : Seq(Ranges)]
Begun(p, s) == Joined(p.data) /\ p.next # 0 /\ EndOf(p.data) = s + (p.next - 1) * 996
Assembled(s, G) ==
  {a \in UNION {[D -> Parts] : D \in SUBSET G} : \A m \in DOMAIN a : Begun(a[m], s[m])}
FollowOns(s, G, m) == {f \in Pieces(s, G) : f.msg = m /\ f.num # 0}
Waiting(s, G) ==
  {w \in UNION {[D -> Pieces(s, G)] : D \in SUBSET G} : \A m \in DOMAIN w : w[m] \in FollowOns(s, G, m)}
Handed(G) ==
  {h \in [msg : G, data : Seq(Ranges), how : {"handled", "tunnel", "router", "dropped"}] :
     Covers(h.msg, h.data)}
EndsOf(A, W, H) == [incomplete : A, outOfSequence : W, handed : H]
Endpoints(s, G) == EndsOf(Assembled(s, G), Waiting(s, G), Seq(Handed(G)))

LEMMA EndFields ==
  ASSUME NEW A, NEW W, NEW H, NEW e \in EndsOf(A, W, H)
  PROVE  e.incomplete \in A /\ e.outOfSequence \in W /\ e.handed \in H
BY DEF EndsOf

LEMMA EndAssembles ==
  ASSUME NEW s, NEW G, NEW e \in Endpoints(s, G), NEW a \in Assembled(s, G)
  PROVE  [e EXCEPT !.incomplete = a] \in Endpoints(s, G) /\ [e EXCEPT !.incomplete = a].incomplete = a
<1>1. PICK A, W, H : A = Assembled(s, G) /\ W = Waiting(s, G) /\ H = Seq(Handed(G))
  OBVIOUS
<1>2. Endpoints(s, G) = EndsOf(A, W, H)
  BY <1>1, Zenon DEF Endpoints
<1>3. e \in EndsOf(A, W, H) /\ a \in A
  BY <1>1, <1>2, Zenon
<1>4. [e EXCEPT !.incomplete = a] \in EndsOf(A, W, H) /\ [e EXCEPT !.incomplete = a].incomplete = a
  BY <1>3 DEF EndsOf
<1> QED
  BY <1>2, <1>4, Zenon

LEMMA EndWaits ==
  ASSUME NEW s, NEW G, NEW e \in Endpoints(s, G), NEW w \in Waiting(s, G)
  PROVE  /\ [e EXCEPT !.outOfSequence = w] \in Endpoints(s, G)
         /\ [e EXCEPT !.outOfSequence = w].incomplete = e.incomplete
<1>1. PICK A, W, H : A = Assembled(s, G) /\ W = Waiting(s, G) /\ H = Seq(Handed(G))
  OBVIOUS
<1>2. Endpoints(s, G) = EndsOf(A, W, H)
  BY <1>1, Zenon DEF Endpoints
<1>3. e \in EndsOf(A, W, H) /\ w \in W
  BY <1>1, <1>2, Zenon
<1>4. /\ [e EXCEPT !.outOfSequence = w] \in EndsOf(A, W, H)
      /\ [e EXCEPT !.outOfSequence = w].incomplete = e.incomplete
  BY <1>3 DEF EndsOf
<1> QED
  BY <1>2, <1>4, Zenon

LEMMA EndHands ==
  ASSUME NEW s, NEW G, NEW e \in Endpoints(s, G), NEW h \in Seq(Handed(G))
  PROVE  [e EXCEPT !.handed = h] \in Endpoints(s, G)
<1>1. PICK A, W, H : A = Assembled(s, G) /\ W = Waiting(s, G) /\ H = Seq(Handed(G))
  OBVIOUS
<1>2. Endpoints(s, G) = EndsOf(A, W, H)
  BY <1>1, Zenon DEF Endpoints
<1>3. e \in EndsOf(A, W, H) /\ h \in H
  BY <1>1, <1>2, Zenon
<1>4. [e EXCEPT !.handed = h] \in EndsOf(A, W, H)
  BY <1>3 DEF EndsOf
<1> QED
  BY <1>2, <1>4, Zenon

LEMMA AssembledPut ==
  ASSUME NEW s, NEW G, NEW a \in Assembled(s, G), NEW m \in G, NEW p \in Parts, Begun(p, s[m])
  PROVE  /\ Put(a, m, p) \in Assembled(s, G)
         /\ m \in DOMAIN a => [a EXCEPT ![m] = p] \in Assembled(s, G)
<1>1. PICK D \in SUBSET G : a \in [D -> Parts]
  BY DEF Assembled
<1>2. DOMAIN a = D /\ \A k \in D : Begun(a[k], s[k])
  BY <1>1 DEF Assembled
<1>3. Put(a, m, p) \in Assembled(s, G)
  <2>1. Put(a, m, p) \in [D \cup {m} -> Parts]
    BY <1>1, <1>2 DEF Put
  <2>2. \A k \in D \cup {m} : Begun(Put(a, m, p)[k], s[k])
    BY <1>2 DEF Put
  <2>3. D \cup {m} \in SUBSET G
    OBVIOUS
  <2> QED
    BY <2>1, <2>2, <2>3 DEF Assembled
<1>4. ASSUME m \in DOMAIN a
      PROVE  [a EXCEPT ![m] = p] \in Assembled(s, G)
  <2>1. [a EXCEPT ![m] = p] \in [D -> Parts]
    BY <1>1, <1>2
  <2>2. \A k \in D : Begun([a EXCEPT ![m] = p][k], s[k])
    BY <1>1, <1>2
  <2> QED
    BY <2>1, <2>2 DEF Assembled
<1> QED
  BY <1>3, <1>4

LEMMA AssembledWithout ==
  ASSUME NEW s, NEW G, NEW a \in Assembled(s, G), NEW m
  PROVE  Without(a, m) \in Assembled(s, G)
<1>1. PICK D \in SUBSET G : a \in [D -> Parts]
  BY DEF Assembled
<1>2. DOMAIN a = D /\ \A k \in D : Begun(a[k], s[k])
  BY <1>1 DEF Assembled
<1>3. Without(a, m) \in [D \ {m} -> Parts]
  BY <1>1, <1>2 DEF Without
<1>4. \A k \in D \ {m} : Begun(Without(a, m)[k], s[k])
  BY <1>2 DEF Without
<1>5. D \ {m} \in SUBSET G
  OBVIOUS
<1> QED
  BY <1>3, <1>4, <1>5 DEF Assembled

LEMMA WaitingPut ==
  ASSUME NEW s, NEW G, NEW w \in Waiting(s, G), NEW m \in G
  PROVE  /\ \A f \in FollowOns(s, G, m) : Put(w, m, f) \in Waiting(s, G)
         /\ Without(w, m) \in Waiting(s, G)
<1>1. PICK D \in SUBSET G : w \in [D -> Pieces(s, G)]
  BY DEF Waiting
<1>2. DOMAIN w = D /\ \A k \in D : w[k] \in FollowOns(s, G, k)
  BY <1>1 DEF Waiting
<1>3. ASSUME NEW f \in FollowOns(s, G, m)
      PROVE  Put(w, m, f) \in Waiting(s, G)
  <2>1. f \in Pieces(s, G)
    BY DEF FollowOns
  <2>2. Put(w, m, f) \in [D \cup {m} -> Pieces(s, G)]
    BY <1>1, <1>2, <2>1 DEF Put
  <2>3. \A k \in D \cup {m} : Put(w, m, f)[k] \in FollowOns(s, G, k)
    BY <1>2 DEF Put
  <2>4. D \cup {m} \in SUBSET G
    OBVIOUS
  <2> QED
    BY <2>2, <2>3, <2>4 DEF Waiting
<1>4. Without(w, m) \in Waiting(s, G)
  <2>1. Without(w, m) \in [D \ {m} -> Pieces(s, G)]
    BY <1>1, <1>2 DEF Without
  <2>2. \A k \in D \ {m} : Without(w, m)[k] \in FollowOns(s, G, k)
    BY <1>2 DEF Without
  <2>3. D \ {m} \in SUBSET G
    OBVIOUS
  <2> QED
    BY <2>1, <2>2, <2>3 DEF Waiting
<1> QED
  BY <1>3, <1>4

(* A whole message is passed on.                                             *)
LEMMA HandleNextKeeps ==
  ASSUME NEW s, NEW G, G \subseteq I2NPMsgs, NEW m \in G, NEW data \in Seq(Ranges), Covers(m, data),
         NEW e \in Endpoints(s, G), NEW inbound
  PROVE  HandleNextMessage(e, m, data, inbound) \in Endpoints(s, G)
<1>1. PICK how : how = CASE MsgDelivery[m] = "local" -> "handled"
                         [] MsgDelivery[m] = "tunnel" -> "tunnel"
                         [] MsgDelivery[m] = "router" -> IF inbound THEN "dropped" ELSE "router"
  OBVIOUS
<1>2. MsgDelivery[m] \in {"local", "tunnel", "router"}
  <2>1. m \in I2NPMsgs /\ MsgDelivery \in [I2NPMsgs -> {"local", "tunnel", "router"}]
    BY TunnelMessagesAssumption
  <2> QED
    BY <2>1
<1>3. how \in {"handled", "tunnel", "router", "dropped"}
  BY <1>1, <1>2, Zenon
<1>4. PICK x : x = [msg |-> m, data |-> data, how |-> how]
  OBVIOUS
<1>5. x \in Handed(G)
  BY <1>3, <1>4 DEF Handed
<1>6. PICK h : h = Append(e.handed, x)
  OBVIOUS
<1>7. h \in Seq(Handed(G))
  <2>1. e.handed \in Seq(Handed(G))
    BY EndFields DEF Endpoints
  <2> QED
    BY <1>5, <1>6, <2>1
<1>8. HandleNextMessage(e, m, data, inbound) = [e EXCEPT !.handed = h]
  BY <1>1, <1>4, <1>6, Zenon DEF HandleNextMessage
<1> QED
  BY <1>7, <1>8, EndHands

(* A message that the next fragment joins, and what is known of it.         *)
LEMMA NextJoins ==
  ASSUME NEW s \in [I2NPMsgs -> Int], NEW G, G \subseteq I2NPMsgs, NEW a \in Assembled(s, G),
         NEW m \in DOMAIN a, NEW f \in FollowOns(s, G, m), f.num = a[m].next
  PROVE  /\ m \in G /\ Append(a[m].data, Bytes(f)) \in Seq(Ranges)
         /\ f.last => Covers(m, Append(a[m].data, Bytes(f)))
         /\ ~f.last => LET p == [next |-> a[m].next + 1, data |-> Append(a[m].data, Bytes(f))]
                       IN p \in Parts /\ Begun(p, s[m])
<1>1. m \in G /\ a[m] \in Parts /\ Begun(a[m], s[m])
  BY DEF Assembled
<1>2. /\ f \in Fragments /\ f.msg = m /\ f.num # 0 /\ f.size >= 0 /\ f.from = s[m] + (f.num - 1) * 996
      /\ f.last => f.from + f.size = MsgLen[m]
      /\ ~f.last => f.size = 996
  BY DEF FollowOns, Pieces, Cut
<1>3. /\ a[m].data \in Seq(Ranges) /\ a[m].next \in Nat
      /\ Joined(a[m].data) /\ a[m].next # 0 /\ EndOf(a[m].data) = s[m] + (a[m].next - 1) * 996
  BY <1>1 DEF Parts, Begun
<1>4. PICK x : x = Bytes(f)
  OBVIOUS
<1>5. f.from \in Int /\ f.size \in Int
  BY <1>2 DEF Fragments
<1>6. x \in Ranges /\ x[1] = f.from /\ x[2] = f.size
  BY <1>4, <1>5 DEF Bytes, Ranges
<1>7. PICK d : d = Append(a[m].data, x)
  OBVIOUS
<1>8. d \in Seq(Ranges) /\ Joined(d) /\ EndOf(d) = f.from + f.size
  <2>1. x[1] = EndOf(a[m].data) /\ x[2] >= 0
    BY <1>2, <1>3, <1>6
  <2> QED
    BY <1>3, <1>6, <1>7, <2>1, JoinedMore
<1>9. f.last => Covers(m, d)
  BY <1>2, <1>8 DEF Covers, Joined, EndOf
<1>10. ASSUME ~f.last
       PROVE  LET p == [next |-> a[m].next + 1, data |-> d] IN p \in Parts /\ Begun(p, s[m])
  <2>1. PICK p : p = [next |-> a[m].next + 1, data |-> d]
    OBVIOUS
  <2>2. p \in Parts /\ p.next = a[m].next + 1 /\ p.data = d
    BY <1>3, <1>8, <2>1 DEF Parts
  <2>3. EndOf(d) = s[m] + (p.next - 1) * 996
    <3>1. s[m] \in Int
      BY <1>1
    <3>2. f.from + f.size = s[m] + (a[m].next - 1) * 996 + 996
      BY <1>2, <1>10
    <3> QED
      BY <1>3, <1>8, <2>2, <3>1, <3>2
  <2>4. Begun(p, s[m])
    BY <1>3, <1>8, <2>2, <2>3 DEF Begun
  <2> QED
    BY <2>1, <2>2, <2>4
<1> QED
  BY <1>1, <1>4, <1>7, <1>8, <1>9, <1>10

LEMMA WaitingJoins ==
  ASSUME NEW s \in [I2NPMsgs -> Int], NEW G, G \subseteq I2NPMsgs, NEW e \in Endpoints(s, G),
         NEW m \in DOMAIN e.incomplete, NEW inbound
  PROVE  HandleOutOfSequenceFragment(e, m, inbound) \in Endpoints(s, G)
<1>1. e.incomplete \in Assembled(s, G) /\ e.outOfSequence \in Waiting(s, G)
  BY EndFields, Zenon DEF Endpoints
<1>2. PICK waits : waits = e.outOfSequence[m]
  OBVIOUS
<1>3. PICK data : data = Append(e.incomplete[m].data, Bytes(waits))
  OBVIOUS
<1>4. PICK w : w = Without(e.outOfSequence, m)
  OBVIOUS
<1>5. PICK rest : rest = [e EXCEPT !.outOfSequence = w]
  OBVIOUS
<1>6. PICK x : x = HandleOutOfSequenceFragment(e, m, inbound)
  OBVIOUS
<1>7. m \in G
  BY <1>1 DEF Assembled
<1>8. rest \in Endpoints(s, G) /\ rest.incomplete = e.incomplete
  <2>1. w \in Waiting(s, G)
    BY <1>1, <1>4, <1>7, WaitingPut
  <2> QED
    BY <1>5, <2>1, EndWaits
<1>9. x = IF m \notin DOMAIN e.outOfSequence \/ waits.num # e.incomplete[m].next THEN e
          ELSE IF waits.last
          THEN HandleNextMessage([rest EXCEPT !.incomplete = Without(@, m)], m, data, inbound)
          ELSE [rest EXCEPT !.incomplete[m] = [next |-> @.next + 1, data |-> data]]
  <2> DEFINE wait == e.outOfSequence[m]
             joined == Append(e.incomplete[m].data, Bytes(wait))
             without == [e EXCEPT !.outOfSequence = Without(@, m)]
  <2>1. x = IF m \notin DOMAIN e.outOfSequence \/ wait.num # e.incomplete[m].next THEN e
            ELSE IF wait.last
            THEN HandleNextMessage([without EXCEPT !.incomplete = Without(@, m)], m, joined, inbound)
            ELSE [without EXCEPT !.incomplete[m] = [next |-> @.next + 1, data |-> joined]]
    BY <1>6, Zenon DEF HandleOutOfSequenceFragment
  <2>2. wait = waits /\ joined = data /\ without = rest
    BY <1>2, <1>3, <1>4, <1>5, Zenon
  <2> HIDE DEF wait, joined, without
  <2> QED
    BY <2>1, <2>2, Zenon
<1>10. CASE m \notin DOMAIN e.outOfSequence \/ waits.num # e.incomplete[m].next
  BY <1>6, <1>9, <1>10, Zenon
<1>11. CASE m \in DOMAIN e.outOfSequence /\ waits.num = e.incomplete[m].next
  <2>1. waits \in FollowOns(s, G, m)
    BY <1>1, <1>2, <1>11 DEF Waiting
  <2>2. /\ data \in Seq(Ranges)
        /\ waits.last => Covers(m, data)
        /\ ~waits.last => LET p == [next |-> e.incomplete[m].next + 1, data |-> data]
                          IN p \in Parts /\ Begun(p, s[m])
    BY <1>1, <1>3, <1>11, <2>1, NextJoins
  <2>3. CASE waits.last
    <3>1. PICK y : y = [rest EXCEPT !.incomplete = Without(e.incomplete, m)]
      OBVIOUS
    <3>2. y \in Endpoints(s, G)
      BY <1>1, <1>8, <3>1, AssembledWithout, EndAssembles, Zenon
    <3>3. x = HandleNextMessage(y, m, data, inbound)
      BY <1>8, <1>9, <1>11, <2>3, <3>1, Zenon
    <3>4. data \in Seq(Ranges) /\ Covers(m, data)
      BY <2>2, <2>3, Zenon
    <3> QED
      BY <1>6, <1>7, <3>2, <3>3, <3>4, HandleNextKeeps
  <2>4. CASE ~waits.last
    <3>1. PICK p : p = [next |-> e.incomplete[m].next + 1, data |-> data]
      OBVIOUS
    <3>2. p \in Parts /\ Begun(p, s[m])
      BY <2>2, <2>4, <3>1
    <3>3. PICK a : a = [e.incomplete EXCEPT ![m] = p]
      OBVIOUS
    <3>4. a \in Assembled(s, G)
      BY <1>1, <1>7, <3>2, <3>3, AssembledPut
    <3>5. [rest EXCEPT !.incomplete = a] \in Endpoints(s, G)
      BY <1>8, <3>4, EndAssembles, Zenon
    <3>6. [rest EXCEPT !.incomplete[m] = [next |-> @.next + 1, data |-> data]] = [rest EXCEPT !.incomplete = a]
      BY <1>8, <3>1, <3>3, Zenon
    <3> QED
      BY <1>6, <1>9, <1>11, <2>4, <3>5, <3>6, Zenon
  <2> QED
    BY <2>3, <2>4
<1> QED
  BY <1>10, <1>11

LEMMA FollowOnKeeps ==
  ASSUME NEW s \in [I2NPMsgs -> Int], NEW G, G \subseteq I2NPMsgs, NEW e \in Endpoints(s, G),
         NEW f \in Pieces(s, G), f.num # 0, NEW inbound
  PROVE  HandleFollowOnFragment(e, f, inbound) \in Endpoints(s, G)
<1>1. e.incomplete \in Assembled(s, G) /\ e.outOfSequence \in Waiting(s, G)
  BY EndFields, Zenon DEF Endpoints
<1>2. PICK m : m = f.msg
  OBVIOUS
<1>3. m \in G /\ f \in FollowOns(s, G, m)
  BY <1>2 DEF FollowOns, Pieces
<1>4. PICK data : data = Append(e.incomplete[m].data, Bytes(f))
  OBVIOUS
<1>5. PICK y : y = [e EXCEPT !.incomplete = Without(e.incomplete, m)]
  OBVIOUS
<1>6. y \in Endpoints(s, G)
  BY <1>1, <1>5, AssembledWithout, EndAssembles
<1>7. PICK z : z = [e EXCEPT !.incomplete[m] = [next |-> @.next + 1, data |-> data]]
  OBVIOUS
<1>8. PICK x : x = HandleFollowOnFragment(e, f, inbound)
  OBVIOUS
<1>9. x = IF ~NextFragment(e, f) THEN AddOutOfSequenceFragment(e, f)
          ELSE IF Length(data) + 2 >= I2NP_MAX_MESSAGE_SIZE THEN y
          ELSE IF f.last THEN HandleNextMessage(y, m, data, inbound)
          ELSE HandleOutOfSequenceFragment(z, m, inbound)
  <2> DEFINE joined == Append(e.incomplete[f.msg].data, Bytes(f))
             without == [e EXCEPT !.incomplete = Without(@, f.msg)]
             with == [e EXCEPT !.incomplete[f.msg] = [next |-> @.next + 1, data |-> joined]]
  <2>1. x = IF ~NextFragment(e, f) THEN AddOutOfSequenceFragment(e, f)
            ELSE IF Length(joined) + 2 >= I2NP_MAX_MESSAGE_SIZE THEN without
            ELSE IF f.last THEN HandleNextMessage(without, f.msg, joined, inbound)
            ELSE HandleOutOfSequenceFragment(with, f.msg, inbound)
    BY <1>8, Zenon DEF HandleFollowOnFragment
  <2>2. joined = data /\ without = y
    BY <1>2, <1>4, <1>5, Zenon
  <2>3. with = z
    BY <1>2, <1>4, <1>7, Zenon
  <2> HIDE DEF joined, without, with
  <2> QED
    BY <1>2, <2>1, <2>2, <2>3, Zenon
<1>10. CASE ~NextFragment(e, f)
  <2>1. CASE m \in DOMAIN e.outOfSequence
    BY <1>2, <1>8, <1>9, <1>10, <2>1, Zenon DEF AddOutOfSequenceFragment
  <2>2. CASE m \notin DOMAIN e.outOfSequence
    <3>1. PICK w : w = Put(e.outOfSequence, m, f)
      OBVIOUS
    <3>2. w \in Waiting(s, G)
      BY <1>1, <1>3, <3>1, WaitingPut
    <3>3. [e EXCEPT !.outOfSequence = w] \in Endpoints(s, G)
      BY <3>2, EndWaits
    <3>4. AddOutOfSequenceFragment(e, f) = [e EXCEPT !.outOfSequence = w]
      BY <1>2, <2>2, <3>1, Zenon DEF AddOutOfSequenceFragment
    <3> QED
      BY <1>8, <1>9, <1>10, <3>3, <3>4, Zenon
  <2> QED
    BY <2>1, <2>2
<1>11. CASE NextFragment(e, f) /\ Length(data) + 2 >= I2NP_MAX_MESSAGE_SIZE
  BY <1>6, <1>8, <1>9, <1>11, Zenon
<1>12. CASE NextFragment(e, f) /\ ~(Length(data) + 2 >= I2NP_MAX_MESSAGE_SIZE)
  <2>1. m \in DOMAIN e.incomplete /\ f.num = e.incomplete[m].next
    BY <1>2, <1>12, Zenon DEF NextFragment
  <2>2. /\ data \in Seq(Ranges)
        /\ f.last => Covers(m, data)
        /\ ~f.last => LET p == [next |-> e.incomplete[m].next + 1, data |-> data]
                      IN p \in Parts /\ Begun(p, s[m])
    BY <1>1, <1>3, <1>4, <2>1, NextJoins
  <2>3. CASE f.last
    <3>1. data \in Seq(Ranges) /\ Covers(m, data)
      BY <2>2, <2>3, Zenon
    <3>2. HandleNextMessage(y, m, data, inbound) \in Endpoints(s, G)
      BY <1>3, <1>6, <3>1, HandleNextKeeps
    <3> QED
      BY <1>8, <1>9, <1>12, <2>3, <3>2, Zenon
  <2>4. CASE ~f.last
    <3>1. PICK p : p = [next |-> e.incomplete[m].next + 1, data |-> data]
      OBVIOUS
    <3>2. p \in Parts /\ Begun(p, s[m])
      BY <2>2, <2>4, <3>1
    <3>3. PICK a : a = [e.incomplete EXCEPT ![m] = p]
      OBVIOUS
    <3>4. a \in Assembled(s, G) /\ m \in DOMAIN a
      BY <1>1, <1>3, <2>1, <3>2, <3>3, AssembledPut
    <3>5. [e EXCEPT !.incomplete = a] \in Endpoints(s, G) /\ [e EXCEPT !.incomplete = a].incomplete = a
      BY <3>4, EndAssembles
    <3>6. z = [e EXCEPT !.incomplete = a]
      BY <1>7, <3>1, <3>3, Zenon
    <3>7. z \in Endpoints(s, G) /\ m \in DOMAIN z.incomplete
      BY <3>4, <3>5, <3>6, Zenon
    <3>8. HandleOutOfSequenceFragment(z, m, inbound) \in Endpoints(s, G)
      BY <3>7, WaitingJoins
    <3> QED
      BY <1>8, <1>9, <1>12, <2>4, <3>8, Zenon
  <2> QED
    BY <2>3, <2>4
<1> QED
  BY <1>10, <1>11, <1>12

LEMMA FirstKeeps ==
  ASSUME NEW s \in [I2NPMsgs -> Int], NEW G, G \subseteq I2NPMsgs, NEW e \in Endpoints(s, G),
         NEW f \in Pieces(s, G), f.num = 0, ~f.last, NEW inbound
  PROVE  HandleFirstFragment(e, f, inbound) \in Endpoints(s, G)
<1>1. e.incomplete \in Assembled(s, G)
  BY EndFields, Zenon DEF Endpoints
<1>2. PICK m : m = f.msg
  OBVIOUS
<1>3. m \in G /\ f \in Fragments /\ f.from = 0 /\ f.size = s[m] /\ f.size >= 0
  BY <1>2 DEF Pieces, Cut
<1>4. PICK x : x = Bytes(f)
  OBVIOUS
<1>5. x \in Ranges /\ x[1] = 0 /\ x[2] = s[m] /\ x[2] >= 0
  <2>1. f.from \in Int /\ f.size \in Int
    BY <1>3 DEF Fragments
  <2> QED
    BY <1>3, <1>4, <2>1 DEF Bytes, Ranges
<1>6. PICK d : d = <<x>>
  OBVIOUS
<1>7. d \in Seq(Ranges) /\ Joined(d) /\ EndOf(d) = s[m]
  BY <1>5, <1>6, JoinedOne
<1>9. PICK p : p = [next |-> 1, data |-> d]
  OBVIOUS
<1>10. p \in Parts /\ Begun(p, s[m])
  <2>1. p \in Parts /\ p.next = 1 /\ p.data = d
    BY <1>7, <1>9 DEF Parts
  <2>2. s[m] = s[m] + (p.next - 1) * 996
    BY <1>3, <2>1
  <2> QED
    BY <1>7, <2>1, <2>2 DEF Begun
<1>11. PICK a : a = Put(e.incomplete, m, p)
  OBVIOUS
<1>12. a \in Assembled(s, G) /\ m \in DOMAIN a
  <2>1. a \in Assembled(s, G)
    BY <1>1, <1>3, <1>10, <1>11, AssembledPut
  <2> QED
    BY <1>11, <2>1 DEF Put
<1>13. PICK z : z = [e EXCEPT !.incomplete = a]
  OBVIOUS
<1>14. z \in Endpoints(s, G) /\ z.incomplete = a
  BY <1>12, <1>13, EndAssembles
<1>15. HandleOutOfSequenceFragment(z, m, inbound) \in Endpoints(s, G)
  BY <1>12, <1>14, WaitingJoins
<1>16. HandleFirstFragment(e, f, inbound)
         = IF m \in DOMAIN e.incomplete THEN e ELSE HandleOutOfSequenceFragment(z, m, inbound)
  BY <1>2, <1>4, <1>6, <1>9, <1>11, <1>13, Zenon DEF HandleFirstFragment
<1> QED
  BY <1>15, <1>16, Zenon

LEMMA FragmentKeeps ==
  ASSUME NEW s \in [I2NPMsgs -> Int], NEW G, G \subseteq I2NPMsgs, NEW e \in Endpoints(s, G),
         NEW f \in Pieces(s, G), NEW inbound
  PROVE  HandleFragment(e, f, inbound) \in Endpoints(s, G)
<1>1. PICK x : x = HandleFragment(e, f, inbound)
  OBVIOUS
<1>2. x = CASE f.num = 0 /\ f.last -> HandleNextMessage(e, f.msg, <<Bytes(f)>>, inbound)
            [] ~(f.num = 0 /\ f.last) /\ f.msg = 0 -> e
            [] f.num = 0 /\ ~f.last /\ f.msg # 0 -> HandleFirstFragment(e, f, inbound)
            [] f.num # 0 /\ f.msg # 0 -> HandleFollowOnFragment(e, f, inbound)
  BY <1>1, Zenon DEF HandleFragment
<1>3. CASE f.num = 0 /\ f.last
  <2>1. x = HandleNextMessage(e, f.msg, <<Bytes(f)>>, inbound)
    BY <1>2, <1>3, Zenon
  <2>2. f.msg \in G /\ f \in Fragments /\ f.from = 0 /\ f.size = MsgLen[f.msg] /\ f.size >= 0
    BY <1>3 DEF Pieces, Cut
  <2>3. f.from \in Int /\ f.size \in Int
    BY <2>2 DEF Fragments
  <2>4. PICK r : r = Bytes(f)
    OBVIOUS
  <2>5. r \in Ranges /\ r[1] = 0 /\ r[2] = MsgLen[f.msg] /\ r[2] >= 0
    BY <2>2, <2>3, <2>4 DEF Bytes, Ranges
  <2>6. PICK d : d = <<r>>
    OBVIOUS
  <2>7. d \in Seq(Ranges) /\ Joined(d) /\ EndOf(d) = MsgLen[f.msg]
    BY <2>5, <2>6, JoinedOne
  <2>8. Covers(f.msg, d)
    BY <2>7 DEF Covers, Joined, EndOf
  <2>9. HandleNextMessage(e, f.msg, d, inbound) \in Endpoints(s, G)
    BY <2>2, <2>7, <2>8, HandleNextKeeps
  <2> QED
    BY <1>1, <2>1, <2>4, <2>6, <2>9, Zenon
<1>4. CASE ~(f.num = 0 /\ f.last) /\ f.msg = 0
  BY <1>1, <1>2, <1>4, Zenon
<1>5. CASE f.num = 0 /\ ~f.last /\ f.msg # 0
  <2>1. x = HandleFirstFragment(e, f, inbound)
    BY <1>2, <1>5, Zenon
  <2> QED
    BY <1>1, <1>5, <2>1, FirstKeeps
<1>6. CASE f.num # 0 /\ f.msg # 0
  <2>1. x = HandleFollowOnFragment(e, f, inbound)
    BY <1>2, <1>6, Zenon
  <2> QED
    BY <1>1, <1>6, <2>1, FollowOnKeeps
<1> QED
  BY <1>3, <1>4, <1>5, <1>6, Zenon

LEMMA DataMsgKeeps ==
  ASSUME NEW s \in [I2NPMsgs -> Int], NEW G, G \subseteq I2NPMsgs, NEW e \in Endpoints(s, G),
         NEW fs \in Seq(Pieces(s, G)), NEW inbound
  PROVE  HandleDecryptedTunnelDataMsg(e, fs, inbound) \in Endpoints(s, G)
<1>1. Len(fs) \in Nat /\ \A i \in 1..Len(fs) : fs[i] \in Pieces(s, G)
  OBVIOUS
<1>2. PICK done : /\ done[0] = e
                  /\ \A i \in 1..Len(fs) : done[i] = HandleFragment(done[i - 1], fs[i], inbound)
                  /\ HandleDecryptedTunnelDataMsg(e, fs, inbound) = done[Len(fs)]
  <2>1. PICK gs, d : gs = fs /\ d = e
    OBVIOUS
  <2>2. Len(gs) \in Nat
    BY <1>1, <2>1, Zenon
  <2>3. \E done : /\ done[0] = d
                  /\ \A i \in 1..Len(gs) : done[i] = HandleFragment(done[i - 1], gs[i], inbound)
                  /\ HandleDecryptedTunnelDataMsg(d, gs, inbound) = done[Len(gs)]
    BY <2>2, FragmentByFragment
  <2> QED
    BY <2>1, <2>3, Zenon
<1> DEFINE Bad == {n \in 0..Len(fs) : done[n] \notin Endpoints(s, G)}
<1>3. ASSUME Bad # {} PROVE FALSE
  <2>1. Bad \subseteq Nat
    BY <1>1
  <2>2. PICK n \in Bad : \A k \in Bad : n <= k
    <3> HIDE DEF Bad
    <3> QED
      BY <1>3, <2>1, NatMin
  <2>3. n # 0 /\ n \in 1..Len(fs) /\ n - 1 \in 0..Len(fs) /\ ~(n <= n - 1)
    BY <1>1, <1>2, <2>2
  <2>4. done[n - 1] \in Endpoints(s, G)
    BY <2>2, <2>3
  <2>5. done[n] = HandleFragment(done[n - 1], fs[n], inbound)
    BY <1>2, <2>3
  <2>6. done[n] \in Endpoints(s, G)
    BY <1>1, <2>3, <2>4, <2>5, FragmentKeeps
  <2> QED
    BY <2>2, <2>6
<1>4. Len(fs) \in 0..Len(fs)
  BY <1>1
<1>5. done[Len(fs)] \in Endpoints(s, G)
  BY <1>3, <1>4
<1> QED
  BY <1>2, <1>5, Zenon

-----------------------------------------------------------------------------
(* A tunnel's gateway g, wire w and endpoint e, when the gateway was given   *)
(* the messages G: what is on its way was cut from them, each with one size  *)
(* of its first fragment, and what is under assembly fits that size.         *)
Sound(g, w, e, G) ==
  /\ G \subseteq I2NPMsgs
  /\ \E s \in [I2NPMsgs -> Int] : /\ g \in Buffers(Pieces(s, G))
                                 /\ w \in Seq(Seq(Pieces(s, G)))
                                 /\ e \in Endpoints(s, G)

LEMMA EndpointsMore ==
  ASSUME NEW s, NEW s2, NEW G, NEW H, G \subseteq H, \A k \in G : s2[k] = s[k]
  PROVE  Endpoints(s, G) \subseteq Endpoints(s2, H)
<1>1. Pieces(s, G) \subseteq Pieces(s2, H)
  BY PiecesMore
<1>2. ASSUME NEW a \in Assembled(s, G)
      PROVE  a \in Assembled(s2, H)
  <2>1. PICK D \in SUBSET G : a \in [D -> Parts]
    BY DEF Assembled
  <2>2. D \in SUBSET H /\ DOMAIN a = D /\ \A k \in D : Begun(a[k], s2[k])
    BY <2>1 DEF Assembled
  <2> QED
    BY <2>1, <2>2 DEF Assembled
<1>3. ASSUME NEW w \in Waiting(s, G)
      PROVE  w \in Waiting(s2, H)
  <2>1. PICK D \in SUBSET G : w \in [D -> Pieces(s, G)]
    BY DEF Waiting
  <2>2. DOMAIN w = D /\ \A k \in D : w[k] \in FollowOns(s, G, k)
    BY <2>1 DEF Waiting
  <2>3. \A k \in D : w[k] \in FollowOns(s2, H, k)
    BY <1>1, <2>2 DEF FollowOns
  <2>4. D \in SUBSET H /\ w \in [D -> Pieces(s2, H)]
    BY <1>1, <2>1
  <2> QED
    BY <2>2, <2>3, <2>4 DEF Waiting
<1>4. Handed(G) \subseteq Handed(H)
  BY DEF Handed
<1>5. Seq(Handed(G)) \subseteq Seq(Handed(H))
  BY <1>4, SeqMore
<1>6. ASSUME NEW e \in Endpoints(s, G)
      PROVE  e \in Endpoints(s2, H)
  <2>1. PICK A, W, K, A2, W2, K2 :
          /\ A = Assembled(s, G) /\ W = Waiting(s, G) /\ K = Seq(Handed(G))
          /\ A2 = Assembled(s2, H) /\ W2 = Waiting(s2, H) /\ K2 = Seq(Handed(H))
    OBVIOUS
  <2>2. A \subseteq A2 /\ W \subseteq W2 /\ K \subseteq K2
    BY <1>2, <1>3, <1>5, <2>1
  <2>3. e \in EndsOf(A, W, K)
    BY <2>1, Zenon DEF Endpoints
  <2>4. e \in EndsOf(A2, W2, K2)
    BY <2>2, <2>3 DEF EndsOf
  <2> QED
    BY <2>1, <2>4, Zenon DEF Endpoints
<1> QED
  BY <1>6

LEMMA SoundTakes ==
  ASSUME NEW g, NEW w, NEW e, NEW G, Sound(g, w, e, G), NEW M \in SUBSET I2NPMsgs, NEW g2,
         \A s \in [I2NPMsgs -> Int] : g \in Buffers(Pieces(s, G)) => Takes(s, G, M, g2)
  PROVE  Sound(g2, w, e, G \cup M)
<1>1. PICK s \in [I2NPMsgs -> Int] : /\ g \in Buffers(Pieces(s, G))
                                    /\ w \in Seq(Seq(Pieces(s, G)))
                                    /\ e \in Endpoints(s, G)
  BY DEF Sound
<1>2. PICK s2 \in [I2NPMsgs -> Int] : (\A k \in G : s2[k] = s[k]) /\ g2 \in Buffers(Pieces(s2, G \cup M))
  BY <1>1 DEF Takes
<1>3. PICK H : H = G \cup M
  OBVIOUS
<1>4. G \subseteq H /\ H \subseteq I2NPMsgs
  BY <1>3 DEF Sound
<1>5. Pieces(s, G) \subseteq Pieces(s2, H)
  BY <1>2, <1>4, PiecesMore
<1>6. w \in Seq(Seq(Pieces(s2, H)))
  BY <1>1, <1>5, SeqMore
<1>7. e \in Endpoints(s2, H)
  BY <1>1, <1>2, <1>4, EndpointsMore
<1>8. g2 \in Buffers(Pieces(s2, H))
  BY <1>2, <1>3
<1>9. Sound(g2, w, e, H)
  BY <1>4, <1>6, <1>7, <1>8, Zenon DEF Sound
<1> QED
  BY <1>3, <1>9

LEMMA SoundSends ==
  ASSUME NEW g, NEW w, NEW e, NEW G, Sound(g, w, e, G)
  PROVE  /\ Sound(SendBuffer(g), w \o Packed(g), e, G)
         /\ ~SendBuffer(g).open /\ SendBuffer(g).complete = <<>>
<1>1. PICK s \in [I2NPMsgs -> Int] : /\ g \in Buffers(Pieces(s, G))
                                    /\ w \in Seq(Seq(Pieces(s, G)))
                                    /\ e \in Endpoints(s, G)
  BY DEF Sound
<1>2. PICK F : F = Pieces(s, G)
  OBVIOUS
<1>3. /\ Packed(g) \in Seq(Seq(F)) /\ SendBuffer(g) \in Buffers(F)
      /\ ~SendBuffer(g).open /\ SendBuffer(g).complete = <<>>
  BY <1>1, <1>2, SendKeeps
<1>4. w \o Packed(g) \in Seq(Seq(F))
  BY <1>1, <1>2, <1>3
<1> QED
  BY <1>1, <1>2, <1>3, <1>4, Zenon DEF Sound

LEMMA SoundWire ==
  ASSUME NEW g, NEW w, NEW e, NEW G, Sound(g, w, e, G)
  PROVE  /\ w # <<>> => Sound(g, Tail(w), e, G) /\ Sound(g, Append(w, Head(w)), e, G)
         /\ \A i \in DOMAIN w : \A inbound :
              Sound(g, SubSeq(w, 1, i - 1) \o SubSeq(w, i + 1, Len(w)),
                    HandleDecryptedTunnelDataMsg(e, w[i], inbound), G)
<1>1. PICK s \in [I2NPMsgs -> Int] : /\ g \in Buffers(Pieces(s, G))
                                    /\ w \in Seq(Seq(Pieces(s, G)))
                                    /\ e \in Endpoints(s, G)
  BY DEF Sound
<1>2. G \subseteq I2NPMsgs
  BY DEF Sound
<1>3. PICK S : S = Seq(Pieces(s, G))
  OBVIOUS
<1>4. w \in Seq(S)
  BY <1>1, <1>3
<1>5. ASSUME w # <<>>
      PROVE  Sound(g, Tail(w), e, G) /\ Sound(g, Append(w, Head(w)), e, G)
  <2>1. Tail(w) \in Seq(S) /\ Append(w, Head(w)) \in Seq(S)
    BY <1>4, <1>5
  <2> QED
    BY <1>1, <1>2, <1>3, <2>1, Zenon DEF Sound
<1>6. ASSUME NEW i \in DOMAIN w, NEW inbound
      PROVE  Sound(g, SubSeq(w, 1, i - 1) \o SubSeq(w, i + 1, Len(w)),
                   HandleDecryptedTunnelDataMsg(e, w[i], inbound), G)
  <2>1. w[i] \in S /\ i \in 1..Len(w) /\ Len(w) \in Nat
    BY <1>4
  <2>2. SubSeq(w, 1, i - 1) \in Seq(S) /\ SubSeq(w, i + 1, Len(w)) \in Seq(S)
    <3>1. \A a \in 1..Len(w) : w[a] \in S
      BY <1>4
    <3>2. \A a \in 1..(Len(w) + 1), b \in 0..Len(w) : SubSeq(w, a, b) \in Seq(S)
      BY <1>4, <3>1, SubSeqProperties
    <3>3. 1 \in 1..(Len(w) + 1) /\ i - 1 \in 0..Len(w) /\ i + 1 \in 1..(Len(w) + 1) /\ Len(w) \in 0..Len(w)
      BY <2>1
    <3> QED
      BY <3>2, <3>3
  <2>3. SubSeq(w, 1, i - 1) \o SubSeq(w, i + 1, Len(w)) \in Seq(S)
    BY <2>2
  <2>4. HandleDecryptedTunnelDataMsg(e, w[i], inbound) \in Endpoints(s, G)
    <3>1. w[i] \in Seq(Pieces(s, G))
      BY <1>3, <2>1, Zenon
    <3> QED
      BY <1>1, <1>2, <3>1, DataMsgKeeps
  <2> QED
    BY <1>1, <1>2, <1>3, <2>3, <2>4, Zenon DEF Sound
<1> QED
  BY <1>5, <1>6

-----------------------------------------------------------------------------
(* The messages given to the gateway of tunnel t; a message waiting for the *)
(* transit gateway is not one of them, and waits once.                       *)
GivenTo(t) == {given[t][j] : j \in DOMAIN given[t]}
ForGateway(q) == q.type = "gateway"
QueuedOnce ==
  /\ msgQueue \in Seq(Queued)
  /\ run.msg.type # "none" => run.msg \in Queued
  /\ ForGateway(run.msg) => run.msg.body \notin GivenTo("transit")
  /\ \A i \in DOMAIN msgQueue : ForGateway(msgQueue[i]) =>
       /\ msgQueue[i].body \notin GivenTo("transit")
       /\ ForGateway(run.msg) => msgQueue[i].body # run.msg.body
       /\ \A j \in DOMAIN msgQueue :
            ForGateway(msgQueue[j]) /\ msgQueue[j].body = msgQueue[i].body => i = j
TunnelShape ==
  /\ DOMAIN gateway = Tunneled /\ DOMAIN wire = Tunneled /\ DOMAIN endpoint = Tunneled
  /\ DOMAIN given = Tunneled /\ given["transit"] \in Seq(I2NPMsgs) /\ given["own"] \in Seq(I2NPMsgs)
AllSound == \A t \in Tunneled : Sound(gateway[t], wire[t], endpoint[t], GivenTo(t))
TMsgInv == TunnelShape /\ AllSound /\ QueuedOnce

LEMMA QueuedFields ==
  ASSUME NEW q \in Queued
  PROVE  /\ q = [type |-> q.type, body |-> q.body]
         /\ q.type \in {"gateway", "data", "unknown", "build"}
         /\ q.type = "gateway" => q.body \in I2NPMsgs
BY DEF Queued

LEMMA HandedSound ==
  TMsgInv => HandedInFull
<1> SUFFICES ASSUME TMsgInv, NEW t \in Tunneled, NEW i \in DOMAIN endpoint[t].handed
             PROVE  /\ Covers(endpoint[t].handed[i].msg, endpoint[t].handed[i].data)
                    /\ \E j \in DOMAIN given[t] : given[t][j] = endpoint[t].handed[i].msg
  BY DEF HandedInFull
<1>1. PICK s : endpoint[t] \in Endpoints(s, GivenTo(t))
  BY DEF TMsgInv, AllSound, Sound
<1>2. endpoint[t].handed \in Seq(Handed(GivenTo(t)))
  BY <1>1, EndFields, Zenon DEF Endpoints
<1>3. endpoint[t].handed[i] \in Handed(GivenTo(t))
  BY <1>2
<1> QED
  BY <1>3 DEF Handed, GivenTo

LEMMA TMsgInitInv == TMsgInit => TMsgInv
<1> SUFFICES ASSUME TMsgInit PROVE TMsgInv
  OBVIOUS
<1>1. TunnelShape
  BY DEF TMsgInit, TunnelShape, Tunneled
<1>2. AllSound
  <2>1. SUFFICES ASSUME NEW t \in Tunneled
                 PROVE  Sound(EmptyBuffer, <<>>, EmptyEndpoint, GivenTo(t))
    BY DEF TMsgInit, AllSound
  <2>2. GivenTo(t) = {}
    BY DEF TMsgInit, GivenTo
  <2>3. PICK s : s = [m \in I2NPMsgs |-> 0]
    OBVIOUS
  <2>4. s \in [I2NPMsgs -> Int]
    BY <2>3
  <2>5. EmptyBuffer \in Buffers(Pieces(s, {}))
    <3>1. <<>> \in Seq(Pieces(s, {})) /\ <<>> \in Seq(Seq(Pieces(s, {}))) /\ 0 \in Int
      OBVIOUS
    <3> QED
      BY <3>1 DEF EmptyBuffer, Buffers, BuffersOf
  <2>6. EmptyEndpoint \in Endpoints(s, {})
    <3>1. <<>> \in Assembled(s, {})
      BY DEF Assembled
    <3>2. <<>> \in Waiting(s, {})
      BY DEF Waiting
    <3>3. <<>> \in Seq(Handed({}))
      OBVIOUS
    <3> QED
      BY <3>1, <3>2, <3>3 DEF EmptyEndpoint, Endpoints, EndsOf
  <2>7. <<>> \in Seq(Seq(Pieces(s, {})))
    OBVIOUS
  <2> QED
    BY <2>2, <2>4, <2>5, <2>6, <2>7, Zenon DEF Sound
<1>3. QueuedOnce
  BY DEF TMsgInit, QueuedOnce, Idle, ForGateway
<1> QED
  BY <1>1, <1>2, <1>3 DEF TMsgInv

(* What flushing tunnel t leaves.                                            *)
LEMMA FlushSound ==
  ASSUME NEW t, NEW g, NEW h, NEW w, DOMAIN g = Tunneled, DOMAIN w = Tunneled, NEW e, NEW G,
         Sound(g["transit"], w["transit"], e, G),
         NEW r, r = FlushTunnelDataMsgs(t, g, h, w)
  PROVE  /\ Sound(r.g["transit"], r.w["transit"], e, G)
         /\ DOMAIN r.g = Tunneled /\ DOMAIN r.w = Tunneled
         /\ r.g["own"] = g["own"] /\ r.w["own"] = w["own"]
         /\ t = "transit" => ~r.g["transit"].open /\ r.g["transit"].complete = <<>> /\ r.h = h
         /\ t # "transit" => r.g = g /\ r.w = w
         /\ t = "participant" => r.h = 0
         /\ t # "participant" => r.h = h
<1> DEFINE sent == [g EXCEPT !["transit"] = SendBuffer(@)]
           more == [w EXCEPT !["transit"] = @ \o Packed(g["transit"])]
<1>1. CASE t = "transit"
  <2>1. r = [g |-> sent, h |-> h, w |-> more]
    BY <1>1, Zenon DEF FlushTunnelDataMsgs
  <2>2. /\ DOMAIN sent = Tunneled /\ sent["transit"] = SendBuffer(g["transit"]) /\ sent["own"] = g["own"]
        /\ DOMAIN more = Tunneled /\ more["transit"] = w["transit"] \o Packed(g["transit"])
        /\ more["own"] = w["own"]
    BY DEF Tunneled
  <2> HIDE DEF sent, more
  <2>3. r.g = sent /\ r.h = h /\ r.w = more
    BY <2>1
  <2>4. /\ Sound(SendBuffer(g["transit"]), w["transit"] \o Packed(g["transit"]), e, G)
        /\ ~SendBuffer(g["transit"]).open /\ SendBuffer(g["transit"]).complete = <<>>
    BY SoundSends
  <2> QED
    BY <1>1, <2>2, <2>3, <2>4
<1>2. CASE t = "participant"
  <2>1. r = [g |-> g, h |-> 0, w |-> w]
    BY <1>2, Zenon DEF FlushTunnelDataMsgs
  <2> QED
    BY <1>2, <2>1
<1>3. CASE t # "transit" /\ t # "participant"
  <2>1. r = [g |-> g, h |-> h, w |-> w]
    BY <1>3, Zenon DEF FlushTunnelDataMsgs
  <2> QED
    BY <1>3, <2>1
<1> QED
  BY <1>1, <1>2, <1>3

(* The steps of the wire change one tunnel's wire and endpoint.             *)
LEMMA WireStep ==
  ASSUME TMsgInv, NEW t \in Tunneled, NEW w, NEW e,
         wire' = [wire EXCEPT ![t] = w],
         DOMAIN endpoint' = Tunneled, endpoint'[t] = e, \A u \in Tunneled \ {t} : endpoint'[u] = endpoint[u],
         UNCHANGED <<gateway, given, msgQueue, run>>,
         Sound(gateway[t], w, e, GivenTo(t))
  PROVE  TMsgInv'
<1>1. TunnelShape'
  BY DEF TMsgInv, TunnelShape
<1>2. \A u \in Tunneled : GivenTo(u)' = GivenTo(u)
  BY DEF GivenTo
<1>3. AllSound'
  <2>1. SUFFICES ASSUME NEW u \in Tunneled
                 PROVE  Sound(gateway[u], wire'[u], endpoint'[u], GivenTo(u))
    BY <1>2, Zenon DEF AllSound
  <2>2. CASE u = t
    BY <2>2 DEF TMsgInv, TunnelShape
  <2>3. CASE u # t
    BY <2>3 DEF TMsgInv, TunnelShape, AllSound
  <2> QED
    BY <2>2, <2>3
<1>4. QueuedOnce'
  BY <1>2 DEF TMsgInv, QueuedOnce, Tunneled
<1> QED
  BY <1>1, <1>3, <1>4 DEF TMsgInv

LEMMA TMsgWire ==
  TMsgInv /\ WireNext => TMsgInv'
<1> SUFFICES ASSUME TMsgInv, NEW t \in Tunneled,
                    (\E i \in DOMAIN wire[t] : Deliver(t, i)) \/ Lose(t) \/ Duplicate(t)
             PROVE  TMsgInv'
  BY DEF WireNext
<1>1. Sound(gateway[t], wire[t], endpoint[t], GivenTo(t)) /\ DOMAIN endpoint = Tunneled
  BY DEF TMsgInv, AllSound, TunnelShape
<1>2. ASSUME NEW i \in DOMAIN wire[t], Deliver(t, i)
      PROVE  TMsgInv'
  <2>1. PICK w : w = SubSeq(wire[t], 1, i - 1) \o SubSeq(wire[t], i + 1, Len(wire[t]))
    OBVIOUS
  <2>2. PICK inbound : inbound = (t = "transit")
    OBVIOUS
  <2>3. PICK e : e = HandleDecryptedTunnelDataMsg(endpoint[t], wire[t][i], inbound)
    OBVIOUS
  <2>4. Sound(gateway[t], w, e, GivenTo(t))
    BY <1>1, <2>1, <2>3, SoundWire
  <2>5. wire' = [wire EXCEPT ![t] = w] /\ endpoint' = [endpoint EXCEPT ![t] = e]
    BY <1>2, <2>1, <2>2, <2>3, Zenon DEF Deliver
  <2>7. DOMAIN endpoint' = Tunneled /\ endpoint'[t] = e /\ \A u \in Tunneled \ {t} : endpoint'[u] = endpoint[u]
    BY <1>1, <2>5
  <2>6. UNCHANGED <<gateway, given, msgQueue, run>>
    BY <1>2 DEF Deliver
  <2> QED
    BY <2>4, <2>5, <2>6, <2>7, WireStep
<1>3. ASSUME Lose(t)
      PROVE  TMsgInv'
  <2>1. PICK w : w = Tail(wire[t])
    OBVIOUS
  <2>2. Sound(gateway[t], w, endpoint[t], GivenTo(t))
    BY <1>1, <1>3, <2>1, SoundWire DEF Lose
  <2>3. wire' = [wire EXCEPT ![t] = w] /\ UNCHANGED <<gateway, given, msgQueue, run>>
    BY <1>3, <2>1 DEF Lose
  <2>4. endpoint' = endpoint
    BY <1>3 DEF Lose
  <2> QED
    BY <1>1, <2>2, <2>3, <2>4, WireStep
<1>4. ASSUME Duplicate(t)
      PROVE  TMsgInv'
  <2>1. PICK w : w = Append(wire[t], Head(wire[t]))
    OBVIOUS
  <2>2. Sound(gateway[t], w, endpoint[t], GivenTo(t))
    BY <1>1, <1>4, <2>1, SoundWire DEF Duplicate
  <2>3. wire' = [wire EXCEPT ![t] = w] /\ UNCHANGED <<gateway, given, msgQueue, run>>
    BY <1>4, <2>1 DEF Duplicate
  <2>4. endpoint' = endpoint
    BY <1>4 DEF Duplicate
  <2> QED
    BY <1>1, <2>2, <2>3, <2>4, WireStep
<1> QED
  BY <1>2, <1>3, <1>4

(* The blocks of our own destinations.                                       *)
LEMMA TMsgOwn ==
  TMsgInv /\ OwnNext => TMsgInv'
<1> SUFFICES ASSUME TMsgInv, NEW ms \in OwnBlocks, SendTunnelDataMsgs(ms)
             PROVE  TMsgInv'
  BY DEF OwnNext
<1>1. ms \in Seq(I2NPMsgs) /\ \A i, j \in DOMAIN ms : ms[i] = ms[j] => i = j
  BY TunnelMessagesAssumption
<1>2. \A j \in DOMAIN ms : ms[j] \notin GivenTo("own")
  BY DEF SendTunnelDataMsgs, GivenTo
<1>3. PICK M : M = {ms[i] : i \in DOMAIN ms}
  OBVIOUS
<1>4. M \in SUBSET I2NPMsgs
  BY <1>1, <1>3
<1>5. PICK G : G = GivenTo("own")
  OBVIOUS
<1>6. Sound(gateway["own"], wire["own"], endpoint["own"], G)
  BY <1>5 DEF TMsgInv, AllSound, Tunneled
<1>7. PICK g : g = PutAll(gateway["own"], ms)
  OBVIOUS
<1>8. Sound(g, wire["own"], endpoint["own"], G \cup M)
  <2>1. ASSUME NEW s \in [I2NPMsgs -> Int], gateway["own"] \in Buffers(Pieces(s, G))
        PROVE  Takes(s, G, M, g)
    <3>1. G \subseteq I2NPMsgs
      BY <1>6 DEF Sound
    <3> QED
      BY <1>1, <1>2, <1>3, <1>5, <1>7, <2>1, <3>1, PutAllKeeps
  <2> QED
    BY <1>4, <1>6, <2>1, SoundTakes
<1>9. Sound(SendBuffer(g), wire["own"] \o Packed(g), endpoint["own"], G \cup M)
  BY <1>8, SoundSends
<1>10. /\ gateway' = [gateway EXCEPT !["own"] = SendBuffer(g)]
       /\ wire' = [wire EXCEPT !["own"] = wire["own"] \o Packed(g)]
       /\ given' = [given EXCEPT !["own"] = given["own"] \o ms]
       /\ UNCHANGED <<endpoint, msgQueue, run>>
  BY <1>7 DEF SendTunnelDataMsgs
<1>11. TunnelShape /\ AllSound /\ QueuedOnce
  BY DEF TMsgInv
<1>12. /\ gateway'["own"] = SendBuffer(g) /\ gateway'["transit"] = gateway["transit"]
       /\ wire'["own"] = wire["own"] \o Packed(g) /\ wire'["transit"] = wire["transit"]
       /\ given'["own"] = given["own"] \o ms /\ given'["transit"] = given["transit"]
       /\ endpoint' = endpoint
       /\ DOMAIN gateway' = Tunneled /\ DOMAIN wire' = Tunneled /\ DOMAIN given' = Tunneled
  BY <1>10, <1>11 DEF TunnelShape, Tunneled
<1>13. TunnelShape'
  BY <1>1, <1>11, <1>12 DEF TunnelShape
<1>14. GivenTo("transit")' = GivenTo("transit")
  BY <1>12 DEF GivenTo
<1>15. GivenTo("own")' = G \cup M
  <2>1. PICK a, b : a = given["own"] /\ b = given'["own"]
    OBVIOUS
  <2>2. /\ b = a \o ms /\ a \in Seq(I2NPMsgs) /\ G = {a[j] : j \in DOMAIN a}
        /\ GivenTo("own")' = {b[j] : j \in DOMAIN b}
    BY <1>5, <1>11, <1>12, <2>1 DEF GivenTo, TunnelShape
  <2>3. /\ Len(b) = Len(a) + Len(ms) /\ DOMAIN b = 1..Len(b) /\ DOMAIN a = 1..Len(a)
        /\ DOMAIN ms = 1..Len(ms) /\ Len(a) \in Nat /\ Len(ms) \in Nat
        /\ \A j \in 1..Len(a) : b[j] = a[j]
        /\ \A j \in 1..Len(ms) : b[Len(a) + j] = ms[j]
    BY <1>1, <2>2
  <2>4. \A j \in DOMAIN b : j \in DOMAIN a \/ (j - Len(a) \in DOMAIN ms /\ b[j] = ms[j - Len(a)])
    BY <2>3
  <2>5. {b[j] : j \in DOMAIN b} \subseteq G \cup M
    BY <1>3, <2>2, <2>3, <2>4
  <2>6. G \subseteq {b[j] : j \in DOMAIN b}
    BY <2>2, <2>3
  <2>7. M \subseteq {b[j] : j \in DOMAIN b}
    <3>1. \A j \in DOMAIN ms : Len(a) + j \in DOMAIN b
      BY <2>3
    <3> QED
      BY <1>3, <2>3, <3>1
  <2> QED
    BY <2>2, <2>5, <2>6, <2>7
<1>16. AllSound'
  <2>1. Sound(gateway'["own"], wire'["own"], endpoint'["own"], GivenTo("own")')
    BY <1>9, <1>12, <1>15
  <2>2. Sound(gateway'["transit"], wire'["transit"], endpoint'["transit"], GivenTo("transit")')
    BY <1>11, <1>12, <1>14 DEF AllSound, Tunneled
  <2> QED
    BY <2>1, <2>2 DEF AllSound, Tunneled
<1>17. QueuedOnce'
  BY <1>10, <1>11, <1>14 DEF QueuedOnce
<1> QED
  BY <1>13, <1>16, <1>17 DEF TMsgInv

LEMMA TMsgPost ==
  ASSUME TMsgInv, NEW q \in Queued, PostTunnelData(q)
  PROVE  TMsgInv'
<1>1. TunnelShape /\ AllSound /\ QueuedOnce
  BY DEF TMsgInv
<1>2. UNCHANGED <<gateway, given, endpoint, wire, run>> /\ msgQueue' = Append(msgQueue, q)
  BY DEF PostTunnelData
<1>3. \A t : GivenTo(t)' = GivenTo(t)
  BY <1>2 DEF GivenTo
<1>4. TunnelShape' /\ AllSound'
  BY <1>1, <1>2, <1>3 DEF TunnelShape, AllSound
<1>5. PICK n : n = Len(msgQueue)
  OBVIOUS
<1>6. /\ msgQueue \in Seq(Queued) /\ n \in Nat /\ DOMAIN msgQueue = 1..n
      /\ msgQueue' \in Seq(Queued) /\ DOMAIN msgQueue' = 1..(n + 1) /\ msgQueue'[n + 1] = q
      /\ \A i \in 1..n : msgQueue'[i] = msgQueue[i]
  BY <1>1, <1>2, <1>5 DEF QueuedOnce
<1>7. ForGateway(q) => /\ q.body \notin GivenTo("transit")
                       /\ ForGateway(run.msg) => q.body # run.msg.body
                       /\ \A i \in 1..n : ForGateway(msgQueue[i]) => msgQueue[i].body # q.body
  <2> SUFFICES ASSUME ForGateway(q)
               PROVE  /\ q.body \notin GivenTo("transit")
                      /\ ForGateway(run.msg) => q.body # run.msg.body
                      /\ \A i \in 1..n : ForGateway(msgQueue[i]) => msgQueue[i].body # q.body
    OBVIOUS
  <2>1. /\ q # run.msg /\ \A i \in DOMAIN msgQueue : msgQueue[i] # q
        /\ \A i \in DOMAIN given["transit"] : given["transit"][i] # q.body
    BY DEF PostTunnelData, ForGateway
  <2>2. \A x \in Queued : ForGateway(x) /\ x.body = q.body => x = q
    BY QueuedFields DEF ForGateway
  <2>3. ForGateway(run.msg) => run.msg \in Queued
    BY <1>1 DEF QueuedOnce, ForGateway
  <2>4. \A i \in 1..n : msgQueue[i] \in Queued
    BY <1>6
  <2> QED
    BY <1>6, <2>1, <2>2, <2>3, <2>4 DEF GivenTo
<1>8. QueuedOnce'
  <2>1. run.msg.type # "none" => run.msg \in Queued
    BY <1>1 DEF QueuedOnce
  <2>2. ForGateway(run.msg) => run.msg.body \notin GivenTo("transit")
    BY <1>1 DEF QueuedOnce
  <2>3. ASSUME NEW i \in DOMAIN msgQueue', ForGateway(msgQueue'[i])
        PROVE  /\ msgQueue'[i].body \notin GivenTo("transit")
               /\ ForGateway(run.msg) => msgQueue'[i].body # run.msg.body
               /\ \A j \in DOMAIN msgQueue' :
                    ForGateway(msgQueue'[j]) /\ msgQueue'[j].body = msgQueue'[i].body => i = j
    <3>1. CASE i = n + 1
      <4>1. msgQueue'[i] = q /\ ForGateway(q)
        BY <1>6, <2>3, <3>1
      <4>2. ASSUME NEW j \in DOMAIN msgQueue', ForGateway(msgQueue'[j]), msgQueue'[j].body = msgQueue'[i].body
            PROVE  i = j
        <5>1. CASE j \in 1..n
          BY <1>6, <1>7, <4>1, <4>2, <5>1
        <5>2. CASE j \notin 1..n
          BY <1>6, <3>1, <5>2
        <5> QED
          BY <5>1, <5>2
      <4> QED
        BY <1>7, <4>1, <4>2
    <3>2. CASE i # n + 1
      <4>1. i \in 1..n /\ msgQueue'[i] = msgQueue[i] /\ ForGateway(msgQueue[i])
        BY <1>6, <2>3, <3>2
      <4>2. ASSUME NEW j \in DOMAIN msgQueue', ForGateway(msgQueue'[j]), msgQueue'[j].body = msgQueue'[i].body
            PROVE  i = j
        <5>1. CASE j \in 1..n
          BY <1>1, <1>6, <4>1, <4>2, <5>1 DEF QueuedOnce
        <5>2. CASE j = n + 1
          BY <1>6, <1>7, <4>1, <4>2, <5>2
        <5> QED
          BY <1>6, <5>1, <5>2
      <4> QED
        BY <1>1, <1>6, <4>1, <4>2 DEF QueuedOnce
    <3> QED
      BY <3>1, <3>2
  <2> QED
    BY <1>2, <1>3, <1>6, <2>1, <2>2, <2>3 DEF QueuedOnce
<1> QED
  BY <1>4, <1>8 DEF TMsgInv

(* The next message is taken from the queue, and none is given meanwhile    *)
(* that waits there.                                                         *)
LEMMA NextTaken ==
  ASSUME QueuedOnce, msgQueue # <<>>, msgQueue' = Tail(msgQueue), run'.msg = Head(msgQueue),
         \A i \in DOMAIN msgQueue : ForGateway(msgQueue[i]) => msgQueue[i].body \notin GivenTo("transit")'
  PROVE  QueuedOnce'
<1>1. PICK n : n = Len(msgQueue)
  OBVIOUS
<1>2. /\ msgQueue \in Seq(Queued) /\ n \in Nat \ {0} /\ DOMAIN msgQueue = 1..n
      /\ msgQueue' \in Seq(Queued) /\ DOMAIN msgQueue' = 1..(n - 1) /\ run'.msg = msgQueue[1]
      /\ \A i \in 1..(n - 1) : msgQueue'[i] = msgQueue[i + 1]
  BY <1>1 DEF QueuedOnce
<1>3. run'.msg \in Queued
  BY <1>2
<1>4. \A i \in 1..n : ForGateway(msgQueue[i]) => \A j \in 1..n :
        ForGateway(msgQueue[j]) /\ msgQueue[j].body = msgQueue[i].body => i = j
  BY <1>2 DEF QueuedOnce
<1>5. ForGateway(run'.msg) => run'.msg.body \notin GivenTo("transit")'
  BY <1>2
<1>6. ASSUME NEW i \in DOMAIN msgQueue', ForGateway(msgQueue'[i])
      PROVE  /\ msgQueue'[i].body \notin GivenTo("transit")'
             /\ ForGateway(run'.msg) => msgQueue'[i].body # run'.msg.body
             /\ \A j \in DOMAIN msgQueue' :
                  ForGateway(msgQueue'[j]) /\ msgQueue'[j].body = msgQueue'[i].body => i = j
  <2>1. i \in 1..(n - 1) /\ i + 1 \in 1..n /\ 1 \in 1..n /\ i + 1 # 1 /\ msgQueue'[i] = msgQueue[i + 1]
    BY <1>2
  <2>2. ASSUME NEW j \in DOMAIN msgQueue', ForGateway(msgQueue'[j]), msgQueue'[j].body = msgQueue'[i].body
        PROVE  i = j
    <3>1. j \in 1..(n - 1) /\ j + 1 \in 1..n /\ msgQueue'[j] = msgQueue[j + 1]
      BY <1>2
    <3>2. i + 1 = j + 1
      BY <1>4, <1>6, <2>1, <2>2, <3>1
    <3> QED
      BY <2>1, <3>1, <3>2
  <2>3. msgQueue'[i].body \notin GivenTo("transit")'
    BY <1>2, <1>6, <2>1
  <2>4. ForGateway(run'.msg) => msgQueue'[i].body # run'.msg.body
    BY <1>2, <1>4, <1>6, <2>1
  <2> QED
    BY <2>2, <2>3, <2>4
<1> QED
  BY <1>2, <1>3, <1>5, <1>6 DEF QueuedOnce

(* A batch begins with the first message that waits.                        *)
LEMMA TMsgBegin ==
  TMsgInv /\ BeginBatch => TMsgInv'
<1> SUFFICES ASSUME TMsgInv, BeginBatch PROVE TMsgInv'
  OBVIOUS
<1>1. TunnelShape /\ AllSound /\ QueuedOnce
  BY DEF TMsgInv
<1>2. /\ UNCHANGED <<gateway, given, endpoint, wire>> /\ msgQueue # <<>>
      /\ msgQueue' = Tail(msgQueue) /\ run' = [Idle EXCEPT !.msg = Head(msgQueue)]
  BY DEF BeginBatch
<1>3. \A t : GivenTo(t)' = GivenTo(t)
  BY <1>2 DEF GivenTo
<1>4. TunnelShape' /\ AllSound'
  BY <1>1, <1>2, <1>3 DEF TunnelShape, AllSound
<1>5. run'.msg = Head(msgQueue)
  BY <1>2 DEF Idle
<1>6. QueuedOnce'
  <2>1. \A i \in DOMAIN msgQueue : ForGateway(msgQueue[i]) => msgQueue[i].body \notin GivenTo("transit")'
    BY <1>1, <1>3 DEF QueuedOnce
  <2> QED
    BY <1>1, <1>2, <1>5, <2>1, NextTaken
<1> QED
  BY <1>4, <1>6 DEF TMsgInv

(* One turn of Run, with its locals spelt out.                               *)
Turn(id, tunnelID, tun, before, put, kept, after) ==
  /\ id = TunnelOf(run.msg) /\ tun = Found(id)
  /\ tunnelID = IF id = NoTunnel THEN run.prevID ELSE id
  /\ before = FlushTunnelDataMsgs(FlushPrevious(id, tun), gateway, held, wire)
  /\ put = IF tun = "transit"
           THEN [before.g EXCEPT !["transit"] = PutI2NPMsg(@, run.msg.body)] ELSE before.g
  /\ kept = IF tun = "participant" THEN before.h + 1 ELSE before.h
  /\ after = FlushTunnelDataMsgs(IF msgQueue = <<>> THEN tun ELSE NoTunnel, put, kept, before.w)
  /\ gateway' = after.g /\ held' = after.h /\ wire' = after.w
  /\ given' = IF tun = "transit"
              THEN [given EXCEPT !["transit"] = Append(@, run.msg.body)] ELSE given
  /\ run' = IF msgQueue = <<>> THEN Idle
            ELSE [msg |-> Head(msgQueue), prevID |-> tunnelID, prev |-> tun]
  /\ msgQueue' = IF msgQueue = <<>> THEN <<>> ELSE Tail(msgQueue)
  /\ behindBuild' =
       (behindBuild \cup IF id = NoTunnel /\ run.prev # NoTunnel THEN {run.prev} ELSE {})
         \ {t \in {"transit", "participant"} : t = tun}
  /\ UNCHANGED endpoint

LEMMA TurnOf ==
  ASSUME HandleQueued
  PROVE  \E id, tunnelID, tun, before, put, kept, after :
           Turn(id, tunnelID, tun, before, put, kept, after)
<1> DEFINE id == TunnelOf(run.msg)
           tunnelID == IF id = NoTunnel THEN run.prevID ELSE id
           tun == Found(id)
           before == FlushTunnelDataMsgs(FlushPrevious(id, tun), gateway, held, wire)
           put == IF tun = "transit"
                  THEN [before.g EXCEPT !["transit"] = PutI2NPMsg(@, run.msg.body)] ELSE before.g
           kept == IF tun = "participant" THEN before.h + 1 ELSE before.h
           after == FlushTunnelDataMsgs(IF msgQueue = <<>> THEN tun ELSE NoTunnel, put, kept, before.w)
<1>1. /\ gateway' = after.g /\ held' = after.h /\ wire' = after.w
      /\ given' = IF tun = "transit"
                  THEN [given EXCEPT !["transit"] = Append(@, run.msg.body)] ELSE given
      /\ run' = IF msgQueue = <<>> THEN Idle
                ELSE [msg |-> Head(msgQueue), prevID |-> tunnelID, prev |-> tun]
      /\ msgQueue' = IF msgQueue = <<>> THEN <<>> ELSE Tail(msgQueue)
      /\ behindBuild' =
           (behindBuild \cup IF id = NoTunnel /\ run.prev # NoTunnel THEN {run.prev} ELSE {})
             \ {t \in {"transit", "participant"} : t = tun}
      /\ UNCHANGED endpoint
  BY Zenon DEF HandleQueued
<1>2. /\ id = TunnelOf(run.msg) /\ tun = Found(id)
      /\ tunnelID = IF id = NoTunnel THEN run.prevID ELSE id
      /\ before = FlushTunnelDataMsgs(FlushPrevious(id, tun), gateway, held, wire)
      /\ put = IF tun = "transit"
               THEN [before.g EXCEPT !["transit"] = PutI2NPMsg(@, run.msg.body)] ELSE before.g
      /\ kept = IF tun = "participant" THEN before.h + 1 ELSE before.h
      /\ after = FlushTunnelDataMsgs(IF msgQueue = <<>> THEN tun ELSE NoTunnel, put, kept, before.w)
  BY Zenon
<1> HIDE DEF id, tunnelID, tun, before, put, kept, after
<1>3. Turn(id, tunnelID, tun, before, put, kept, after)
  BY <1>1, <1>2, Zenon DEF Turn
<1> QED
  BY <1>3, Zenon

(* The tunnels a message may be for.                                         *)
LEMMA TunnelOfQueued ==
  ASSUME NEW q \in Queued
  PROVE  /\ q.type = "gateway" => TunnelOf(q) = "transit" /\ Found(TunnelOf(q)) = "transit"
         /\ q.type = "data" => TunnelOf(q) = "participant" /\ Found(TunnelOf(q)) = "participant"
         /\ q.type = "unknown" => TunnelOf(q) = "gone" /\ Found(TunnelOf(q)) = NoTunnel
         /\ q.type = "build" => TunnelOf(q) = NoTunnel /\ Found(TunnelOf(q)) = NoTunnel
         /\ q.type \in {"gateway", "data", "unknown", "build"}
<1>1. q.type \in {"gateway", "data", "unknown", "build"}
  BY QueuedFields
<1>2. CASE q.type = "gateway"
  <2>1. TunnelOf(q) = "transit"
    BY <1>2, Zenon DEF TunnelOf
  <2> QED
    BY <1>2, <2>1 DEF Found
<1>3. CASE q.type = "data"
  <2>1. TunnelOf(q) = "participant"
    BY <1>3, Zenon DEF TunnelOf
  <2> QED
    BY <1>3, <2>1 DEF Found
<1>4. CASE q.type = "unknown"
  <2>1. TunnelOf(q) = "gone"
    BY <1>4, Zenon DEF TunnelOf
  <2> QED
    BY <1>4, <2>1 DEF Found
<1>5. CASE q.type = "build"
  <2>1. TunnelOf(q) = NoTunnel
    <3>1. q.type # "gateway" /\ q.type # "data" /\ q.type # "unknown"
      BY <1>5
    <3> QED
      BY <3>1, Zenon DEF TunnelOf
  <2> QED
    BY <1>5, <2>1 DEF Found, NoTunnel
<1> QED
  BY <1>1, <1>2, <1>3, <1>4, <1>5

(* What is put into the transit gateway, after the tunnel before was        *)
(* flushed, is a message it was not given before.                            *)
LEMMA TurnPuts ==
  ASSUME TMsgInv, HandleQueued, NEW id, NEW tunnelID, NEW tun, NEW before, NEW put, NEW kept, NEW after,
         Turn(id, tunnelID, tun, before, put, kept, after),
         NEW G, G = GivenTo("transit"), NEW M, M = IF tun = "transit" THEN {run.msg.body} ELSE {}
  PROVE  /\ tun = "transit" => ForGateway(run.msg) /\ run.msg.body \in I2NPMsgs \ G
         /\ Sound(before.g["transit"], before.w["transit"], endpoint["transit"], G)
         /\ DOMAIN before.g = Tunneled /\ DOMAIN before.w = Tunneled
         /\ before.w["own"] = wire["own"]
         /\ Sound(put["transit"], before.w["transit"], endpoint["transit"], G \cup M)
         /\ DOMAIN put = Tunneled /\ put["own"] = gateway["own"]
<1>1. TunnelShape /\ AllSound /\ QueuedOnce
  BY DEF TMsgInv
<1>2. run.msg \in Queued
  BY <1>1 DEF HandleQueued, QueuedOnce
<1>3. Turn(id, tunnelID, tun, before, put, kept, after)
  OBVIOUS
<1>4. G = GivenTo("transit")
  OBVIOUS
<1>5. PICK m : m = run.msg.body
  OBVIOUS
<1>6. M = IF tun = "transit" THEN {m} ELSE {}
  BY <1>5
<1>7. tun = "transit" => ForGateway(run.msg) /\ m \in I2NPMsgs /\ m \notin G
  <2>1. tun = "transit" => ForGateway(run.msg)
    BY <1>2, <1>3, TunnelOfQueued DEF ForGateway, NoTunnel, Turn
  <2>2. ForGateway(run.msg) => m \in I2NPMsgs
    BY <1>2, <1>5, QueuedFields DEF ForGateway
  <2>3. ForGateway(run.msg) => m \notin G
    BY <1>1, <1>4, <1>5 DEF QueuedOnce
  <2> QED
    BY <2>1, <2>2, <2>3
<1>8. DOMAIN gateway = Tunneled /\ DOMAIN wire = Tunneled /\ DOMAIN given = Tunneled
      /\ DOMAIN endpoint = Tunneled
  BY <1>1 DEF TunnelShape
<1>9. PICK e : e = endpoint["transit"]
  OBVIOUS
<1>10. Sound(gateway["transit"], wire["transit"], e, G) /\ Sound(gateway["own"], wire["own"], endpoint["own"], GivenTo("own"))
  BY <1>1, <1>4, <1>9 DEF AllSound, Tunneled
<1>11. /\ Sound(before.g["transit"], before.w["transit"], e, G)
       /\ DOMAIN before.g = Tunneled /\ DOMAIN before.w = Tunneled
       /\ before.g["own"] = gateway["own"] /\ before.w["own"] = wire["own"]
  <2>1. before = FlushTunnelDataMsgs(FlushPrevious(id, tun), gateway, held, wire)
    BY <1>3 DEF Turn
  <2> QED
    BY <1>8, <1>10, <2>1, FlushSound
<1>12. /\ Sound(put["transit"], before.w["transit"], e, G \cup M)
       /\ DOMAIN put = Tunneled /\ put["own"] = gateway["own"]
  <2>1. CASE tun = "transit"
    <3>1. put = [before.g EXCEPT !["transit"] = PutI2NPMsg(before.g["transit"], m)]
      BY <1>3, <1>5, <2>1 DEF Turn
    <3>2. put["transit"] = PutI2NPMsg(before.g["transit"], m) /\ DOMAIN put = Tunneled /\ put["own"] = gateway["own"]
      BY <1>11, <3>1 DEF Tunneled
    <3>3. PICK g : g = before.g["transit"]
      OBVIOUS
    <3>4. G \subseteq I2NPMsgs /\ M = {m} /\ m \in I2NPMsgs \ G
      BY <1>6, <1>7, <1>10, <2>1 DEF Sound
    <3>5. ASSUME NEW s \in [I2NPMsgs -> Int], g \in Buffers(Pieces(s, G))
          PROVE  Takes(s, G, M, PutI2NPMsg(g, m))
      BY <3>4, <3>5, PutI2NPMsgKeeps
    <3>6. M \in SUBSET I2NPMsgs /\ Sound(g, before.w["transit"], e, G)
      BY <1>11, <3>3, <3>4
    <3>7. Sound(PutI2NPMsg(g, m), before.w["transit"], e, G \cup M)
      BY <3>5, <3>6, SoundTakes
    <3> QED
      BY <3>2, <3>3, <3>7
  <2>2. CASE tun # "transit"
    <3>1. put = before.g /\ G \cup M = G
      BY <1>3, <1>6, <2>2 DEF Turn
    <3> QED
      BY <1>11, <3>1
  <2> QED
    BY <2>1, <2>2
<1> QED
  BY <1>5, <1>7, <1>9, <1>11, <1>12

LEMMA TMsgHandle ==
  TMsgInv /\ HandleQueued => TMsgInv'
<1> SUFFICES ASSUME TMsgInv, HandleQueued PROVE TMsgInv'
  OBVIOUS
<1>1. TunnelShape /\ AllSound /\ QueuedOnce
  BY DEF TMsgInv
<1>2. run.msg \in Queued
  BY <1>1 DEF HandleQueued, QueuedOnce
<1>3. PICK id, tunnelID, tun, before, put, kept, after :
        Turn(id, tunnelID, tun, before, put, kept, after)
  BY TurnOf
<1>4. PICK G : G = GivenTo("transit")
  OBVIOUS
<1>5. PICK m : m = run.msg.body
  OBVIOUS
<1>6. PICK M : M = IF tun = "transit" THEN {m} ELSE {}
  OBVIOUS
<1>7. /\ tun = "transit" => ForGateway(run.msg) /\ run.msg.body \in I2NPMsgs \ G
      /\ Sound(before.g["transit"], before.w["transit"], endpoint["transit"], G)
      /\ DOMAIN before.g = Tunneled /\ DOMAIN before.w = Tunneled
      /\ before.w["own"] = wire["own"]
      /\ Sound(put["transit"], before.w["transit"], endpoint["transit"], G \cup M)
      /\ DOMAIN put = Tunneled /\ put["own"] = gateway["own"]
  <2>1. M = IF tun = "transit" THEN {run.msg.body} ELSE {}
    BY <1>5, <1>6
  <2> QED
    BY <1>3, <1>4, <2>1, TurnPuts
<1>8. DOMAIN gateway = Tunneled /\ DOMAIN wire = Tunneled /\ DOMAIN given = Tunneled
      /\ DOMAIN endpoint = Tunneled
  BY <1>1 DEF TunnelShape
<1>9. PICK e : e = endpoint["transit"]
  OBVIOUS
<1>10. Sound(gateway["transit"], wire["transit"], e, G) /\ Sound(gateway["own"], wire["own"], endpoint["own"], GivenTo("own"))
  BY <1>1, <1>4, <1>9 DEF AllSound, Tunneled
<1>13. /\ Sound(after.g["transit"], after.w["transit"], e, G \cup M)
       /\ DOMAIN after.g = Tunneled /\ DOMAIN after.w = Tunneled
       /\ after.g["own"] = gateway["own"] /\ after.w["own"] = wire["own"]
  <2>1. PICK last : last = IF msgQueue = <<>> THEN tun ELSE NoTunnel
    OBVIOUS
  <2>2. after = FlushTunnelDataMsgs(last, put, kept, before.w)
    BY <1>3, <2>1 DEF Turn
  <2>3. /\ Sound(after.g["transit"], after.w["transit"], e, G \cup M)
        /\ DOMAIN after.g = Tunneled /\ DOMAIN after.w = Tunneled
        /\ after.g["own"] = put["own"] /\ after.w["own"] = before.w["own"]
    BY <1>7, <1>9, <2>2, FlushSound
  <2> QED
    BY <1>7, <2>3
<1>14. /\ given'["own"] = given["own"] /\ DOMAIN given' = Tunneled
       /\ tun = "transit" => given'["transit"] = Append(given["transit"], m)
       /\ tun # "transit" => given'["transit"] = given["transit"]
  BY <1>3, <1>5, <1>8 DEF Tunneled, Turn
<1>15. given'["transit"] \in Seq(I2NPMsgs) /\ GivenTo("transit")' = G \cup M
  <2>1. PICK a, b : a = given["transit"] /\ b = given'["transit"]
    OBVIOUS
  <2>2. a \in Seq(I2NPMsgs) /\ G = {a[j] : j \in DOMAIN a} /\ GivenTo("transit")' = {b[j] : j \in DOMAIN b}
    BY <1>1, <1>4, <2>1 DEF TunnelShape, GivenTo
  <2>3. CASE tun = "transit"
    <3>1. b = Append(a, m) /\ m \in I2NPMsgs /\ M = {m}
      BY <1>5, <1>6, <1>7, <1>14, <2>1, <2>3
    <3>2. /\ b \in Seq(I2NPMsgs) /\ Len(a) \in Nat /\ DOMAIN a = 1..Len(a) /\ DOMAIN b = 1..(Len(a) + 1)
          /\ b[Len(a) + 1] = m /\ \A j \in 1..Len(a) : b[j] = a[j]
      BY <2>2, <3>1
    <3>3. {b[j] : j \in DOMAIN b} = {a[j] : j \in DOMAIN a} \cup {m}
      <4>1. Len(a) + 1 \in DOMAIN b /\ \A j \in DOMAIN b : j \in DOMAIN a \/ j = Len(a) + 1
        BY <3>2
      <4>2. \A j \in DOMAIN a : j \in DOMAIN b
        BY <3>2
      <4> QED
        BY <3>2, <4>1, <4>2
    <3> QED
      BY <2>1, <2>2, <3>1, <3>2, <3>3
  <2>4. CASE tun # "transit"
    BY <1>6, <1>14, <2>1, <2>2, <2>4
  <2> QED
    BY <2>3, <2>4
<1>16. TunnelShape'
  <2>1. given'["own"] \in Seq(I2NPMsgs)
    BY <1>1, <1>14 DEF TunnelShape
  <2>2. DOMAIN gateway' = Tunneled /\ DOMAIN wire' = Tunneled /\ DOMAIN endpoint' = Tunneled
    BY <1>3, <1>8, <1>13 DEF Turn
  <2> QED
    BY <1>14, <1>15, <2>1, <2>2 DEF TunnelShape
<1>17. AllSound'
  <2>1. Sound(gateway'["transit"], wire'["transit"], endpoint'["transit"], GivenTo("transit")')
    <3>1. gateway' = after.g /\ wire' = after.w /\ endpoint' = endpoint
      BY <1>3 DEF Turn
    <3>2. endpoint'["transit"] = e
      BY <1>9, <3>1
    <3> QED
      BY <1>13, <1>15, <3>1, <3>2, Zenon
  <2>2. GivenTo("own")' = GivenTo("own")
    BY <1>14 DEF GivenTo
  <2>3. Sound(gateway'["own"], wire'["own"], endpoint'["own"], GivenTo("own")')
    BY <1>3, <1>10, <1>13, <2>2 DEF Turn
  <2> QED
    BY <2>1, <2>3 DEF AllSound, Tunneled
<1>18. QueuedOnce'
  <2>1. CASE msgQueue = <<>>
    <3>1. msgQueue' = <<>> /\ run'.msg.type = "none"
      BY <1>3, <2>1 DEF Idle, Turn
    <3> QED
      BY <3>1 DEF QueuedOnce, ForGateway
  <2>2. CASE msgQueue # <<>>
    <3>1. msgQueue' = Tail(msgQueue) /\ run'.msg = Head(msgQueue)
      BY <1>3, <2>2 DEF Turn
    <3>2. ASSUME NEW i \in DOMAIN msgQueue, ForGateway(msgQueue[i])
          PROVE  msgQueue[i].body \notin GivenTo("transit")'
      <4>1. msgQueue[i].body \notin G /\ (ForGateway(run.msg) => msgQueue[i].body # m)
        BY <1>1, <1>4, <1>5, <3>2 DEF QueuedOnce
      <4> QED
        BY <1>5, <1>6, <1>7, <1>15, <4>1
    <3> QED
      BY <1>1, <2>2, <3>1, <3>2, NextTaken
  <2> QED
    BY <2>1, <2>2
<1> QED
  BY <1>16, <1>17, <1>18 DEF TMsgInv

LEMMA TMsgNextInv == TMsgInv /\ [TMsgNext]_tmsgVars => TMsgInv'
<1> SUFFICES ASSUME TMsgInv, [TMsgNext]_tmsgVars PROVE TMsgInv'
  OBVIOUS
<1>1. CASE TransitNext
  BY <1>1, TMsgPost, TMsgBegin, TMsgHandle DEF TransitNext
<1>2. CASE OwnNext
  BY <1>2, TMsgOwn
<1>3. CASE WireNext
  BY <1>3, TMsgWire
<1>4. CASE UNCHANGED tmsgVars
  BY <1>4 DEF tmsgVars, TMsgInv, TunnelShape, AllSound, QueuedOnce, GivenTo
<1> QED
  BY <1>1, <1>2, <1>3, <1>4 DEF TMsgNext

(* Nothing leaves a tunnel but the messages its gateway was given, with      *)
(* every byte at its place, whatever the wire loses, repeats or reorders.    *)
THEOREM SpecHandedInFull == TMsgSpec => []HandedInFull
<1>1. TMsgInit => TMsgInv
  BY TMsgInitInv
<1>2. TMsgInv /\ [TMsgNext]_tmsgVars => TMsgInv'
  BY TMsgNextInv
<1>3. TMsgInv => HandedInFull
  BY HandedSound
<1> QED
  BY <1>1, <1>2, <1>3, PTL DEF TMsgSpec

-----------------------------------------------------------------------------
(* Tunnel messages: one may overtake another.  What is on its way through a *)
(* tunnel is one line: the wire, and behind it what the gateway has not sent. *)
Unsent(g) == IF g.open THEN Append(g.complete, g.current) ELSE g.complete
Line(g, w) == w \o Unsent(g)

(* The fragments of m in a tunnel data message x, when there is one.          *)
Has(x, m) == \E j \in DOMAIN x : x[j].msg = m
Sole(x, m) == {x[j] : j \in {i \in DOMAIN x : x[i].msg = m /\ \A k \in DOMAIN x : x[k].msg = m => k = i}}
Absent(L, m) == \A i \in DOMAIN L : ~Has(L[i], m)

(* Fragment number n of m, which does not go beyond its end.                  *)
Fragment(m, n, last) ==
  {f \in Fragments : f.msg = m /\ f.num = n /\ f.last = last /\ f.from + f.size <= MsgLen[m]}

(* The fragments d to c of m, the last one, follow each other on line L from *)
(* place p on, and no other fragment of m is there behind place q.            *)
AbsentBehind(L, m, q) == \A i \in DOMAIN L : q < i => ~Has(L[i], m)
OnLine(L, m, q, p, d, c) ==
  /\ p \in Nat /\ d \in Nat /\ c \in Nat /\ q < p /\ d <= c /\ p + (c - d) <= Len(L)
  /\ \A i \in DOMAIN L : q < i /\ Has(L[i], m) => p <= i /\ i <= p + (c - d)
  /\ \A n \in d..c : Sole(L[p + (n - d)], m) \cap Fragment(m, n, n = c) # {}
(* Or there is but one fragment, which has all of m and is not the last.      *)
BeyondAt(L, m, p) ==
  /\ p \in DOMAIN L /\ \A i \in DOMAIN L : Has(L[i], m) => i = p
  /\ \E f \in Sole(L[p], m) : f.num = 0 /\ ~f.last /\ f.size >= MsgLen[m]

(* What the endpoint e knows of m.                                            *)
At(f, m) == {f[k] : k \in {m} \cap DOMAIN f}
Times(h, m) == {i \in DOMAIN h : h[i].msg = m}
View(e, m) == [asm |-> At(e.incomplete, m), waits |-> At(e.outOfSequence, m), times |-> Times(e.handed, m)]
Nothing(v) == v.asm = {} /\ v.waits = {} /\ v.times = {}
AssembledTo(v, d) == IF d = 0 THEN v.asm = {} ELSE \E q \in v.asm : v.asm = {q} /\ q.next = d

Finished(v) == v.asm = {} /\ v.waits = {} /\ \E i \in v.times : v.times = {i}
Going(v, d) == AssembledTo(v, d) /\ v.waits = {} /\ v.times = {}

(* The lives of a message: its fragments come in order; one has overtaken the *)
(* one before it; it was passed on; it is cut up although it fits.            *)
Ahead(L, v, m, o) ==
  \E p \in DOMAIN L, d, c \in Nat : /\ OnLine(L, m, 0, p, d, c) /\ Going(v, d)
                                    /\ d # 0 /\ o = 0 => p = 1
Gap(L, v, m, o) ==
  /\ o # 0 /\ 1 \in DOMAIN L /\ v.times = {}
  /\ \E d \in Nat, u \in v.waits :
       /\ AssembledTo(v, d) /\ Sole(L[1], m) \cap Fragment(m, d, FALSE) # {}
       /\ v.waits = {u} /\ u \in Fragment(m, d + 1, u.last)
       /\ IF u.last THEN AbsentBehind(L, m, 1) ELSE \E c \in Nat : OnLine(L, m, 1, 2, d + 2, c)
PassedOn(L, v, m) == Absent(L, m) /\ Finished(v)
Beyond(L, v, m) == Nothing(v) /\ \E p \in DOMAIN L : BeyondAt(L, m, p)
Stuck(L, v, m) == Absent(L, m) /\ \E q \in v.asm : v.asm = {q} /\ q.data[1][2] >= MsgLen[m]
Story(L, v, m, G, o) ==
  IF m \in G THEN Ahead(L, v, m, o) \/ Gap(L, v, m, o) \/ PassedOn(L, v, m) \/ Beyond(L, v, m) \/ Stuck(L, v, m)
  ELSE Absent(L, m) /\ Nothing(v)

Told == {m \in I2NPMsgs \ {0} : MsgLen[m] + 2 < I2NP_MAX_MESSAGE_SIZE}
NoTwice(a) == \A i, j \in DOMAIN a : a[i] = a[j] => i = j
GivenOnce == \A t \in Tunneled : NoTwice(given[t])
Stories(g, w, e, G, o) == \A m \in Told : Story(Line(g, w), View(e, m), m, G, o)
OvertakenInv ==
  /\ lost \in Nat /\ duplicated \in Nat /\ overtaken \in Nat
  /\ GivenOnce
  /\ lost = 0 /\ duplicated = 0 /\ overtaken <= 1 =>
       \A t \in Tunneled : Stories(gateway[t], wire[t], endpoint[t], GivenTo(t), overtaken)

-----------------------------------------------------------------------------
(* The fields of an endpoint, and what a table holds of one message.          *)
IsEnd(e) == e = [incomplete |-> e.incomplete, outOfSequence |-> e.outOfSequence, handed |-> e.handed]

IsSeq(h) == \E S : h \in Seq(S)

LEMMA EndChanges ==
  ASSUME NEW e, IsEnd(e), NEW x, NEW y
  PROVE  /\ y = [e EXCEPT !.incomplete = x] =>
              IsEnd(y) /\ y.incomplete = x /\ y.outOfSequence = e.outOfSequence /\ y.handed = e.handed
         /\ y = [e EXCEPT !.outOfSequence = x] =>
              IsEnd(y) /\ y.incomplete = e.incomplete /\ y.outOfSequence = x /\ y.handed = e.handed
         /\ y = [e EXCEPT !.handed = x] =>
              IsEnd(y) /\ y.incomplete = e.incomplete /\ y.outOfSequence = e.outOfSequence /\ y.handed = x
<1>1. PICK a, w, h : a = e.incomplete /\ w = e.outOfSequence /\ h = e.handed
  OBVIOUS
<1>2. e = [incomplete |-> a, outOfSequence |-> w, handed |-> h]
  BY <1>1, Zenon DEF IsEnd
<1>3. /\ [e EXCEPT !.incomplete = x] = [incomplete |-> x, outOfSequence |-> w, handed |-> h]
      /\ [e EXCEPT !.outOfSequence = x] = [incomplete |-> a, outOfSequence |-> x, handed |-> h]
      /\ [e EXCEPT !.handed = x] = [incomplete |-> a, outOfSequence |-> w, handed |-> x]
  BY <1>2
<1> QED
  BY <1>1, <1>3 DEF IsEnd

LEMMA EndIs ==
  ASSUME NEW s, NEW G, NEW e \in Endpoints(s, G)
  PROVE  /\ IsEnd(e) /\ e.incomplete \in Assembled(s, G) /\ e.outOfSequence \in Waiting(s, G)
         /\ IsSeq(e.handed)
<1>1. PICK A, W, H : A = Assembled(s, G) /\ W = Waiting(s, G) /\ H = Seq(Handed(G))
  OBVIOUS
<1>2. e \in EndsOf(A, W, H)
  BY <1>1, Zenon DEF Endpoints
<1>3. IsEnd(e) /\ e.incomplete \in A /\ e.outOfSequence \in W /\ e.handed \in H
  BY <1>2 DEF EndsOf, IsEnd
<1>4. IsSeq(e.handed)
  BY <1>1, <1>3 DEF IsSeq
<1> QED
  BY <1>1, <1>3, <1>4, Zenon

LEMMA AtIs ==
  ASSUME NEW f, NEW m
  PROVE  (m \in DOMAIN f => At(f, m) = {f[m]}) /\ (m \notin DOMAIN f => At(f, m) = {})
BY DEF At

LEMMA AtSame ==
  ASSUME NEW f, NEW g, NEW m, m \in DOMAIN f <=> m \in DOMAIN g, m \in DOMAIN f => f[m] = g[m]
  PROVE  At(f, m) = At(g, m)
BY DEF At

LEMMA AtPut ==
  ASSUME NEW f, NEW m, NEW v
  PROVE  At(Put(f, m, v), m) = {v} /\ \A k : k # m => At(Put(f, m, v), k) = At(f, k)
<1>1. PICK g : g = Put(f, m, v)
  OBVIOUS
<1>2. DOMAIN g = DOMAIN f \cup {m} /\ g[m] = v /\ \A k \in DOMAIN f : k # m => g[k] = f[k]
  BY <1>1 DEF Put
<1>3. At(g, m) = {v} /\ \A k : k # m => At(g, k) = At(f, k)
  BY <1>2, AtIs, AtSame
<1> QED
  BY <1>1, <1>3

LEMMA AtWithout ==
  ASSUME NEW f, NEW m
  PROVE  At(Without(f, m), m) = {} /\ \A k : k # m => At(Without(f, m), k) = At(f, k)
<1>1. PICK g : g = Without(f, m)
  OBVIOUS
<1>2. DOMAIN g = DOMAIN f \ {m} /\ \A k \in DOMAIN f : k # m => g[k] = f[k]
  BY <1>1 DEF Without
<1>3. At(g, m) = {} /\ \A k : k # m => At(g, k) = At(f, k)
  BY <1>2, AtIs, AtSame
<1> QED
  BY <1>1, <1>3

LEMMA AtExcept ==
  ASSUME NEW f, NEW m \in DOMAIN f, NEW v, NEW g, g = [f EXCEPT ![m] = v]
  PROVE  At(g, m) = {v} /\ \A k : k # m => At(g, k) = At(f, k)
<1>1. DOMAIN g = DOMAIN f /\ g[m] = v /\ \A k \in DOMAIN f : k # m => g[k] = f[k]
  OBVIOUS
<1> QED
  <2>1. At(g, m) = {v}
    BY <1>1, AtIs
  <2>2. ASSUME NEW k, k # m PROVE At(g, k) = At(f, k)
    <3>1. (k \in DOMAIN f <=> k \in DOMAIN g) /\ (k \in DOMAIN f => f[k] = g[k])
      BY <1>1, <2>2
    <3> QED
      BY <3>1, AtSame
  <2> QED
    BY <2>1, <2>2

LEMMA TimesMore ==
  ASSUME NEW h, IsSeq(h), NEW x
  PROVE  /\ \A k : k # x.msg => Times(Append(h, x), k) = Times(h, k)
         /\ Times(h, x.msg) = {} => \E i : Times(Append(h, x), x.msg) = {i}
<1> DEFINE r == Append(h, x)
<1>0. PICK S : h \in Seq(S)
  BY DEF IsSeq
<1>1. PICK n : n = Len(h)
  OBVIOUS
<1>2. /\ n \in Nat /\ DOMAIN h = 1..n /\ DOMAIN r = 1..(n + 1) /\ r[n + 1] = x
      /\ \A i \in 1..n : r[i] = h[i]
  BY <1>0, <1>1
<1> HIDE DEF r
<1>3. \A i : i \in DOMAIN r <=> i \in DOMAIN h \/ i = n + 1
  BY <1>2
<1>4. n + 1 \notin DOMAIN h
  BY <1>2
<1>5. ASSUME NEW k, k # x.msg
      PROVE  Times(r, k) = Times(h, k)
  BY <1>2, <1>3, <1>5 DEF Times
<1>6. Times(h, x.msg) = {} => Times(r, x.msg) = {n + 1}
  BY <1>2, <1>3 DEF Times
<1>7. r = Append(h, x)
  BY DEF r
<1> QED
  BY <1>5, <1>6, <1>7, Zenon

(* A message that is passed on.                                              *)
Passes(e, m, x) ==
  /\ IsEnd(x) /\ x.incomplete = e.incomplete /\ x.outOfSequence = e.outOfSequence
  /\ \A k : k # m => Times(x.handed, k) = Times(e.handed, k)
  /\ Times(e.handed, m) = {} => \E i : Times(x.handed, m) = {i}

LEMMA HandleNextPasses ==
  ASSUME NEW e, IsEnd(e), IsSeq(e.handed), NEW m, NEW data, NEW inbound
  PROVE  Passes(e, m, HandleNextMessage(e, m, data, inbound))
<1>8. PICK x : x = HandleNextMessage(e, m, data, inbound)
  OBVIOUS
<1>1. PICK how : how = CASE MsgDelivery[m] = "local" -> "handled"
                         [] MsgDelivery[m] = "tunnel" -> "tunnel"
                         [] MsgDelivery[m] = "router" -> IF inbound THEN "dropped" ELSE "router"
  OBVIOUS
<1>2. PICK y : y = [msg |-> m, data |-> data, how |-> how]
  OBVIOUS
<1>3. PICK h : h = Append(e.handed, y)
  OBVIOUS
<1>4. x = [e EXCEPT !.handed = h]
  BY <1>1, <1>2, <1>3, <1>8, Zenon DEF HandleNextMessage
<1>5. IsEnd(x) /\ x.handed = h /\ x.incomplete = e.incomplete /\ x.outOfSequence = e.outOfSequence
  BY <1>4, EndChanges
<1>6. y.msg = m
  BY <1>2
<1>7. /\ \A k : k # y.msg => Times(h, k) = Times(e.handed, k)
      /\ Times(e.handed, y.msg) = {} => \E i : Times(h, y.msg) = {i}
  <2>1. /\ \A k : k # y.msg => Times(Append(e.handed, y), k) = Times(e.handed, k)
        /\ Times(e.handed, y.msg) = {} => \E i : Times(Append(e.handed, y), y.msg) = {i}
    BY TimesMore
  <2> QED
    BY <1>3, <2>1, Zenon
<1> QED
  BY <1>5, <1>6, <1>7, <1>8 DEF Passes

LEMMA ViewSame ==
  ASSUME NEW x, NEW e, NEW k, At(x.incomplete, k) = At(e.incomplete, k),
         At(x.outOfSequence, k) = At(e.outOfSequence, k), Times(x.handed, k) = Times(e.handed, k)
  PROVE  View(x, k) = View(e, k)
BY DEF View

LEMMA ViewFields ==
  ASSUME NEW e, NEW k
  PROVE  /\ View(e, k).asm = At(e.incomplete, k) /\ View(e, k).waits = At(e.outOfSequence, k)
         /\ View(e, k).times = Times(e.handed, k)
BY DEF View

(* What message m was, and is once x was done to the endpoint.                *)
OnlyOf(e, x, m) == \A k : k # m => View(x, k) = View(e, k)
Handed1(v, v2) == v2.asm = {} /\ (v.times = {} => \E i : v2.times = {i})
Goes(v, v2, n) == v2.times = v.times /\ \E p \in v2.asm : v2.asm = {p} /\ p.next = n

OutOfSequenceDoes(e, m, x, n) ==
  /\ OnlyOf(e, x, m)
  /\ View(e, m).waits = {} => x = e
  /\ \A u \in View(e, m).waits : View(e, m).waits = {u} /\ u.num = n =>
       /\ View(x, m).waits = {}
       /\ u.last => Handed1(View(e, m), View(x, m))
       /\ ~u.last => Goes(View(e, m), View(x, m), n + 1)

LEMMA OutOfSequenceView ==
  ASSUME NEW e, IsEnd(e), IsSeq(e.handed), NEW m \in DOMAIN e.incomplete, NEW inbound
  PROVE  OutOfSequenceDoes(e, m, HandleOutOfSequenceFragment(e, m, inbound), e.incomplete[m].next)
<1>14. PICK q, x : q = e.incomplete[m] /\ x = HandleOutOfSequenceFragment(e, m, inbound)
  OBVIOUS
<1>15. PICK v, v2 : v = View(e, m) /\ v2 = View(x, m)
  OBVIOUS
<1>1. PICK a, w, h : a = e.incomplete /\ w = e.outOfSequence /\ h = e.handed
  OBVIOUS
<1>2. PICK waits : waits = w[m]
  OBVIOUS
<1>3. PICK data : data = Append(q.data, Bytes(waits))
  OBVIOUS
<1>4. PICK rest : rest = [e EXCEPT !.outOfSequence = Without(w, m)]
  OBVIOUS
<1>5. PICK y : y = [rest EXCEPT !.incomplete = Without(a, m)]
  OBVIOUS
<1>6. PICK p : p = [next |-> q.next + 1, data |-> data]
  OBVIOUS
<1>7. PICK z : z = [rest EXCEPT !.incomplete = [a EXCEPT ![m] = p]]
  OBVIOUS
<1>8. IsEnd(rest) /\ rest.incomplete = a /\ rest.outOfSequence = Without(w, m) /\ rest.handed = h
  BY <1>1, <1>4, EndChanges
<1>9. x = IF m \notin DOMAIN w \/ waits.num # q.next THEN e
          ELSE IF waits.last THEN HandleNextMessage(y, m, data, inbound) ELSE z
  <2> DEFINE wait == e.outOfSequence[m]
             joined == Append(e.incomplete[m].data, Bytes(wait))
             without == [e EXCEPT !.outOfSequence = Without(@, m)]
  <2>1. x = IF m \notin DOMAIN e.outOfSequence \/ wait.num # e.incomplete[m].next THEN e
            ELSE IF wait.last
            THEN HandleNextMessage([without EXCEPT !.incomplete = Without(@, m)], m, joined, inbound)
            ELSE [without EXCEPT !.incomplete[m] = [next |-> @.next + 1, data |-> joined]]
    BY <1>14, Zenon DEF HandleOutOfSequenceFragment
  <2>2. wait = waits /\ joined = data /\ without = rest
    BY <1>1, <1>2, <1>3, <1>4, <1>14, Zenon
  <2> HIDE DEF wait, joined, without
  <2>3. /\ [without EXCEPT !.incomplete = Without(@, m)] = y
        /\ [without EXCEPT !.incomplete[m] = [next |-> @.next + 1, data |-> joined]] = z
    BY <1>1, <1>5, <1>6, <1>7, <1>8, <1>14, <2>2, Zenon
  <2> QED
    BY <1>1, <1>14, <2>1, <2>2, <2>3, Zenon
<1>10. OnlyOf(e, e, m)
  BY DEF OnlyOf
<1> SUFFICES /\ OnlyOf(e, x, m) /\ (v.waits = {} => x = e)
             /\ \A u \in v.waits : v.waits = {u} /\ u.num = q.next =>
                  /\ v2.waits = {}
                  /\ u.last => Handed1(v, v2)
                  /\ ~u.last => Goes(v, v2, q.next + 1)
  BY <1>14, <1>15, Zenon DEF OutOfSequenceDoes
<1>11. v.waits = At(w, m) /\ v.times = Times(h, m)
  BY <1>1, <1>15, ViewFields
<1>12. CASE m \notin DOMAIN w \/ waits.num # q.next
  <2>1. x = e
    BY <1>9, <1>12, Zenon
  <2>2. \A u \in v.waits : u = waits /\ m \in DOMAIN w
    BY <1>2, <1>11, AtIs
  <2> QED
    BY <1>10, <1>12, <2>1, <2>2
<1>13. CASE m \in DOMAIN w /\ waits.num = q.next
  <2>1. v.waits = {waits}
    BY <1>2, <1>11, <1>13, AtIs
  <2>2. CASE waits.last
    <3>1. x = HandleNextMessage(y, m, data, inbound)
      BY <1>9, <1>13, <2>2, Zenon
    <3>2. IsEnd(y) /\ y.incomplete = Without(a, m) /\ y.outOfSequence = Without(w, m) /\ y.handed = h
      BY <1>5, <1>8, EndChanges
    <3>3. IsSeq(y.handed)
      BY <1>1, <3>2
    <3>4. /\ x.incomplete = Without(a, m) /\ x.outOfSequence = Without(w, m)
          /\ \A k : k # m => Times(x.handed, k) = Times(h, k)
          /\ Times(h, m) = {} => \E i : Times(x.handed, m) = {i}
      <4>1. /\ x.incomplete = y.incomplete /\ x.outOfSequence = y.outOfSequence
            /\ \A k : k # m => Times(x.handed, k) = Times(y.handed, k)
            /\ Times(y.handed, m) = {} => \E i : Times(x.handed, m) = {i}
        <5>1. IsEnd(y)
          BY <3>2
        <5>2. Passes(y, m, HandleNextMessage(y, m, data, inbound))
          BY <3>3, <5>1, HandleNextPasses, Zenon
        <5>3. Passes(y, m, x)
          BY <3>1, <5>2, Zenon
        <5> QED
          BY <5>3 DEF Passes
      <4> QED
        BY <3>2, <4>1
    <3>5. \A k : k # m => At(Without(a, m), k) = At(a, k) /\ At(Without(w, m), k) = At(w, k)
      BY AtWithout
    <3>6. OnlyOf(e, x, m)
      BY <1>1, <3>4, <3>5, ViewSame DEF OnlyOf
    <3>7. v2.asm = {} /\ v2.waits = {} /\ v2.times = Times(x.handed, m)
      <4>1. v2.asm = At(x.incomplete, m) /\ v2.waits = At(x.outOfSequence, m) /\ v2.times = Times(x.handed, m)
        BY <1>15, ViewFields
      <4> QED
        BY <3>4, <4>1, AtWithout
    <3>8. Handed1(v, v2)
      BY <1>11, <3>4, <3>7 DEF Handed1
    <3> QED
      BY <2>1, <2>2, <3>6, <3>7, <3>8
  <2>3. CASE ~waits.last
    <3>1. x = z
      BY <1>9, <1>13, <2>3, Zenon
    <3>2. x.incomplete = [a EXCEPT ![m] = p] /\ x.outOfSequence = Without(w, m) /\ x.handed = h
      BY <1>7, <1>8, <3>1, EndChanges
    <3>3. /\ At(x.incomplete, m) = {p}
          /\ \A k : k # m => At(x.incomplete, k) = At(a, k) /\ At(x.outOfSequence, k) = At(w, k)
      <4>1. PICK b : b = x.incomplete
        OBVIOUS
      <4>2. m \in DOMAIN a /\ b = [a EXCEPT ![m] = p]
        BY <1>1, <3>2, <4>1, Zenon
      <4>4. At(b, m) = {p} /\ \A k : k # m => At(b, k) = At(a, k)
        <5>1. DOMAIN b = DOMAIN a /\ b[m] = p /\ \A k \in DOMAIN a : k # m => b[k] = a[k]
          BY <4>2
        <5>2. At(b, m) = {p}
          BY <4>2, <5>1, AtIs
        <5>3. ASSUME NEW k, k # m PROVE At(b, k) = At(a, k)
          <6>1. (k \in DOMAIN a <=> k \in DOMAIN b) /\ (k \in DOMAIN a => a[k] = b[k])
            BY <5>1, <5>3
          <6> QED
            BY <6>1, AtSame
        <5> QED
          BY <5>2, <5>3
      <4>5. \A k : k # m => At(Without(w, m), k) = At(w, k)
        BY AtWithout
      <4> QED
        BY <3>2, <4>1, <4>4, <4>5, Zenon
    <3>4. OnlyOf(e, x, m)
      BY <1>1, <3>2, <3>3, ViewSame DEF OnlyOf
    <3>5. v2.asm = {p} /\ v2.waits = {} /\ v2.times = Times(h, m)
      <4>1. v2.asm = At(x.incomplete, m) /\ v2.waits = At(x.outOfSequence, m) /\ v2.times = Times(x.handed, m)
        BY <1>15, ViewFields
      <4> QED
        BY <3>2, <3>3, <4>1, AtWithout
    <3>6. p.next = q.next + 1
      BY <1>6
    <3>7. Goes(v, v2, q.next + 1)
      BY <1>11, <3>5, <3>6 DEF Goes
    <3> QED
      BY <2>1, <2>3, <3>4, <3>5, <3>7
  <2> QED
    BY <2>2, <2>3
<1> QED
  BY <1>12, <1>13

(* A fragment that follows on.                                               *)
Short(data) == ~(Length(data) + 2 >= I2NP_MAX_MESSAGE_SIZE)
Grows(v, v2, n) ==
  \E v1 : /\ v1.waits = v.waits /\ v1.times = v.times /\ \E p \in v1.asm : v1.asm = {p} /\ p.next = n
          /\ v1.waits = {} => v2 = v1
          /\ \A u \in v1.waits : v1.waits = {u} /\ u.num = n =>
               /\ v2.waits = {}
               /\ u.last => Handed1(v1, v2)
               /\ ~u.last => Goes(v1, v2, n + 1)
FollowOnDoes(e, f, x, v, v2) ==
  /\ OnlyOf(e, x, f.msg)
  /\ ~NextFragment(e, f) /\ v.waits = {} => v2.waits = {f} /\ v2.asm = v.asm /\ v2.times = v.times
  /\ NextFragment(e, f) /\ Short(Append(e.incomplete[f.msg].data, Bytes(f))) =>
       /\ f.last => v2.waits = v.waits /\ Handed1(v, v2)
       /\ ~f.last => Grows(v, v2, e.incomplete[f.msg].next + 1)

LEMMA AddViews ==
  ASSUME NEW e, IsEnd(e), NEW f
  PROVE  /\ OnlyOf(e, AddOutOfSequenceFragment(e, f), f.msg)
         /\ View(e, f.msg).waits = {} =>
              /\ View(AddOutOfSequenceFragment(e, f), f.msg).waits = {f}
              /\ View(AddOutOfSequenceFragment(e, f), f.msg).asm = View(e, f.msg).asm
              /\ View(AddOutOfSequenceFragment(e, f), f.msg).times = View(e, f.msg).times
<1>1. PICK m, w, x : m = f.msg /\ w = e.outOfSequence /\ x = AddOutOfSequenceFragment(e, f)
  OBVIOUS
<1>2. PICK y : y = [e EXCEPT !.outOfSequence = Put(w, m, f)]
  OBVIOUS
<1>3. x = IF m \in DOMAIN w THEN e ELSE y
  BY <1>1, <1>2, Zenon DEF AddOutOfSequenceFragment
<1>4. y.incomplete = e.incomplete /\ y.outOfSequence = Put(w, m, f) /\ y.handed = e.handed
  BY <1>2, EndChanges
<1>5. At(Put(w, m, f), m) = {f} /\ \A k : k # m => At(Put(w, m, f), k) = At(w, k)
  BY AtPut
<1>6. View(e, m).waits = At(w, m)
  BY <1>1, ViewFields
<1>7. CASE m \in DOMAIN w
  <2>1. x = e /\ At(w, m) # {}
    BY <1>3, <1>7, AtIs
  <2> QED
    BY <1>1, <1>6, <2>1 DEF OnlyOf
<1>8. CASE m \notin DOMAIN w
  <2>1. x = y
    BY <1>3, <1>8
  <2>2. OnlyOf(e, y, m)
    BY <1>1, <1>4, <1>5, ViewSame DEF OnlyOf
  <2>3. /\ View(y, m).waits = {f} /\ View(y, m).asm = At(e.incomplete, m) /\ View(y, m).times = Times(e.handed, m)
    <3>1. /\ View(y, m).waits = At(y.outOfSequence, m) /\ View(y, m).asm = At(y.incomplete, m)
          /\ View(y, m).times = Times(y.handed, m)
      BY ViewFields
    <3> QED
      BY <1>4, <1>5, <3>1
  <2>4. View(e, m).asm = At(e.incomplete, m) /\ View(e, m).times = Times(e.handed, m)
    BY ViewFields
  <2> QED
    BY <1>1, <2>1, <2>2, <2>3, <2>4, Zenon
<1> QED
  BY <1>7, <1>8

(* A part p of a message, to which a fragment that waits may be joined.      *)
LEMMA GrowsViews ==
  ASSUME NEW e, IsEnd(e), IsSeq(e.handed), NEW m, NEW a, At(a, m) = {a[m]}, m \in DOMAIN a,
         \A k : k # m => At(a, k) = At(e.incomplete, k),
         NEW z, z = [e EXCEPT !.incomplete = a], NEW inbound
  PROVE  /\ OnlyOf(e, HandleOutOfSequenceFragment(z, m, inbound), m)
         /\ Grows(View(e, m), View(HandleOutOfSequenceFragment(z, m, inbound), m), a[m].next)
         /\ View(z, m).asm = {a[m]} /\ View(z, m).waits = View(e, m).waits
         /\ View(e, m).waits = {} => HandleOutOfSequenceFragment(z, m, inbound) = z
<1>1. PICK x : x = HandleOutOfSequenceFragment(z, m, inbound)
  OBVIOUS
<1>2. IsEnd(z) /\ z.incomplete = a /\ z.outOfSequence = e.outOfSequence /\ z.handed = e.handed
  BY EndChanges
<1>3. OutOfSequenceDoes(z, m, x, z.incomplete[m].next)
  <2>1. IsEnd(z) /\ IsSeq(z.handed) /\ m \in DOMAIN z.incomplete
    BY <1>2
  <2> QED
    BY <1>1, <2>1, OutOfSequenceView, Zenon
<1>4. PICK n, v, v1, v2 : n = a[m].next /\ v = View(e, m) /\ v1 = View(z, m) /\ v2 = View(x, m)
  OBVIOUS
<1>5. v1.waits = v.waits /\ v1.times = v.times /\ v1.asm = {a[m]}
  <2>1. /\ v.waits = At(e.outOfSequence, m) /\ v.times = Times(e.handed, m)
        /\ v1.waits = At(z.outOfSequence, m) /\ v1.times = Times(z.handed, m) /\ v1.asm = At(z.incomplete, m)
    BY <1>4, ViewFields
  <2> QED
    BY <1>2, <2>1
<1>6. OnlyOf(e, z, m)
  <2>1. ASSUME NEW k, k # m PROVE View(z, k) = View(e, k)
    <3>1. /\ At(z.incomplete, k) = At(e.incomplete, k) /\ Times(z.handed, k) = Times(e.handed, k)
          /\ At(z.outOfSequence, k) = At(e.outOfSequence, k)
      BY <1>2, <2>1
    <3> QED
      BY <3>1, ViewSame, Zenon
  <2> QED
    BY <2>1 DEF OnlyOf
<1>7. /\ OnlyOf(z, x, m) /\ (v1.waits = {} => x = z)
      /\ \A u \in v1.waits : v1.waits = {u} /\ u.num = n =>
           /\ v2.waits = {}
           /\ u.last => Handed1(v1, v2)
           /\ ~u.last => Goes(v1, v2, n + 1)
  <2>1. z.incomplete[m].next = n
    BY <1>2, <1>4
  <2> QED
    BY <1>3, <1>4, <2>1, Zenon DEF OutOfSequenceDoes
<1>8. OnlyOf(e, x, m)
  BY <1>3, <1>6 DEF OnlyOf, OutOfSequenceDoes
<1>9. v1.waits = {} => v2 = v1
  BY <1>3, <1>4 DEF OutOfSequenceDoes
<1>10. Grows(v, v2, n)
  BY <1>4, <1>5, <1>7, <1>9 DEF Grows
<1>11. v.waits = {} => x = z
  BY <1>3, <1>4, <1>5 DEF OutOfSequenceDoes
<1> QED
  BY <1>1, <1>4, <1>5, <1>8, <1>10, <1>11

LEMMA FollowOnViews ==
  ASSUME NEW e, IsEnd(e), IsSeq(e.handed), NEW f, NEW inbound
  PROVE  FollowOnDoes(e, f, HandleFollowOnFragment(e, f, inbound), View(e, f.msg),
                      View(HandleFollowOnFragment(e, f, inbound), f.msg))
<1>1. PICK m, a, x : m = f.msg /\ a = e.incomplete /\ x = HandleFollowOnFragment(e, f, inbound)
  OBVIOUS
<1>2. PICK data : data = Append(a[m].data, Bytes(f))
  OBVIOUS
<1>3. PICK y, n : y = [e EXCEPT !.incomplete = Without(a, m)] /\ n = a[m].next
  OBVIOUS
<1>4. PICK p : p = [next |-> n + 1, data |-> data]
  OBVIOUS
<1>5. PICK b : b = [a EXCEPT ![m] = p]
  OBVIOUS
<1>6. PICK z : z = [e EXCEPT !.incomplete = b]
  OBVIOUS
<1>7. x = IF ~NextFragment(e, f) THEN AddOutOfSequenceFragment(e, f)
          ELSE IF ~Short(data) THEN y
          ELSE IF f.last THEN HandleNextMessage(y, m, data, inbound)
          ELSE HandleOutOfSequenceFragment(z, m, inbound)
  <2> DEFINE joined == Append(e.incomplete[f.msg].data, Bytes(f))
             without == [e EXCEPT !.incomplete = Without(@, f.msg)]
             with == [e EXCEPT !.incomplete[f.msg] = [next |-> @.next + 1, data |-> joined]]
  <2>1. x = IF ~NextFragment(e, f) THEN AddOutOfSequenceFragment(e, f)
            ELSE IF Length(joined) + 2 >= I2NP_MAX_MESSAGE_SIZE THEN without
            ELSE IF f.last THEN HandleNextMessage(without, f.msg, joined, inbound)
            ELSE HandleOutOfSequenceFragment(with, f.msg, inbound)
    BY <1>1, Zenon DEF HandleFollowOnFragment
  <2>2. joined = data /\ without = y /\ with = z
    BY <1>1, <1>2, <1>3, <1>4, <1>5, <1>6, Zenon
  <2>3. Length(data) + 2 >= I2NP_MAX_MESSAGE_SIZE <=> ~Short(data)
    BY DEF Short
  <2> HIDE DEF joined, without, with
  <2> QED
    BY <1>1, <2>1, <2>2, <2>3, Zenon
<1> SUFFICES FollowOnDoes(e, f, x, View(e, m), View(x, m))
  BY <1>1, Zenon
<1>8. CASE ~NextFragment(e, f)
  <2>1. x = AddOutOfSequenceFragment(e, f)
    BY <1>7, <1>8, Zenon
  <2>2. OnlyOf(e, x, m) /\ (View(e, m).waits = {} =>
          View(x, m).waits = {f} /\ View(x, m).asm = View(e, m).asm /\ View(x, m).times = View(e, m).times)
    <3>1. PICK g : g = AddOutOfSequenceFragment(e, f)
      OBVIOUS
    <3>2. OnlyOf(e, g, f.msg) /\ (View(e, f.msg).waits = {} =>
             View(g, f.msg).waits = {f} /\ View(g, f.msg).asm = View(e, f.msg).asm
             /\ View(g, f.msg).times = View(e, f.msg).times)
      BY <3>1, AddViews
    <3> QED
      BY <1>1, <2>1, <3>1, <3>2, Zenon
  <2> QED
    BY <1>1, <1>8, <2>2, Zenon DEF FollowOnDoes
<1>9. CASE NextFragment(e, f)
  <2>1. m \in DOMAIN a
    BY <1>1, <1>9 DEF NextFragment
  <2>2. data = Append(e.incomplete[f.msg].data, Bytes(f)) /\ n = e.incomplete[f.msg].next
    BY <1>1, <1>2, <1>3, Zenon
  <2>3. IsEnd(y) /\ y.incomplete = Without(a, m) /\ y.outOfSequence = e.outOfSequence /\ y.handed = e.handed
    BY <1>3, EndChanges
  <2>4. At(Without(a, m), m) = {} /\ \A k : k # m => At(Without(a, m), k) = At(a, k)
    BY AtWithout
  <2>5. CASE ~Short(data)
    <3>1. x = y
      BY <1>7, <1>9, <2>5, Zenon
    <3>2. OnlyOf(e, x, m)
      <4>1. ASSUME NEW k, k # m PROVE View(x, k) = View(e, k)
        <5>1. /\ At(x.incomplete, k) = At(e.incomplete, k) /\ Times(x.handed, k) = Times(e.handed, k)
              /\ At(x.outOfSequence, k) = At(e.outOfSequence, k)
          BY <1>1, <2>3, <2>4, <3>1, <4>1
        <5> QED
          BY <5>1, ViewSame, Zenon
      <4> QED
        BY <4>1 DEF OnlyOf
    <3> QED
      BY <1>1, <1>9, <2>2, <2>5, <3>2, Zenon DEF FollowOnDoes
  <2>6. CASE Short(data) /\ f.last
    <3>1. x = HandleNextMessage(y, m, data, inbound)
      BY <1>7, <1>9, <2>6, Zenon
    <3>2. Passes(y, m, x)
      <4>1. IsEnd(y) /\ IsSeq(y.handed)
        BY <2>3
      <4> QED
        BY <3>1, <4>1, HandleNextPasses, Zenon
    <3>3. /\ x.incomplete = Without(a, m) /\ x.outOfSequence = e.outOfSequence
          /\ \A k : k # m => Times(x.handed, k) = Times(e.handed, k)
          /\ Times(e.handed, m) = {} => \E i : Times(x.handed, m) = {i}
      BY <2>3, <3>2 DEF Passes
    <3>4. OnlyOf(e, x, m)
      <4>1. ASSUME NEW k, k # m PROVE View(x, k) = View(e, k)
        <5>1. /\ At(x.incomplete, k) = At(e.incomplete, k) /\ Times(x.handed, k) = Times(e.handed, k)
              /\ At(x.outOfSequence, k) = At(e.outOfSequence, k)
          BY <1>1, <2>4, <3>3, <4>1
        <5> QED
          BY <5>1, ViewSame, Zenon
      <4> QED
        BY <4>1 DEF OnlyOf
    <3>5. View(x, m).waits = View(e, m).waits /\ Handed1(View(e, m), View(x, m))
      <4>1. PICK v, v2 : v = View(e, m) /\ v2 = View(x, m)
        OBVIOUS
      <4>2. /\ v.waits = At(e.outOfSequence, m) /\ v.times = Times(e.handed, m)
            /\ v2.waits = At(x.outOfSequence, m) /\ v2.times = Times(x.handed, m) /\ v2.asm = At(x.incomplete, m)
        BY <4>1, ViewFields
      <4>3. v2.waits = v.waits /\ v2.asm = {} /\ (v.times = {} => \E i : v2.times = {i})
        BY <2>4, <3>3, <4>2
      <4> QED
        BY <4>1, <4>3, Zenon DEF Handed1
    <3> QED
      BY <1>1, <1>9, <2>6, <3>4, <3>5, Zenon DEF FollowOnDoes
  <2>7. CASE Short(data) /\ ~f.last
    <3>1. x = HandleOutOfSequenceFragment(z, m, inbound)
      BY <1>7, <1>9, <2>7, Zenon
    <3>2. DOMAIN b = DOMAIN a /\ b[m] = p /\ \A k \in DOMAIN a : k # m => b[k] = a[k]
      BY <1>5, <2>1
    <3>3. At(b, m) = {b[m]} /\ m \in DOMAIN b /\ \A k : k # m => At(b, k) = At(a, k)
      BY <2>1, <3>2, AtIs, AtSame
    <3>4. b[m].next = n + 1
      BY <1>4, <3>2
    <3>5. OnlyOf(e, x, m) /\ Grows(View(e, m), View(x, m), b[m].next)
      <4>1. \A k : k # m => At(b, k) = At(e.incomplete, k)
        BY <1>1, <3>3, Zenon
      <4> QED
        BY <1>6, <3>1, <3>3, <4>1, GrowsViews, Zenon
    <3>6. Grows(View(e, m), View(x, m), n + 1)
      BY <3>4, <3>5, Zenon
    <3> QED
      BY <1>1, <1>9, <2>2, <2>7, <3>5, <3>6, Zenon DEF FollowOnDoes
  <2> QED
    BY <2>5, <2>6, <2>7
<1> QED
  BY <1>8, <1>9

(* A first fragment, and a fragment of any kind.                             *)
FirstDoes(e, f, x, v, v2) ==
  /\ OnlyOf(e, x, f.msg)
  /\ v.asm = {} => Grows(v, v2, 1)
  /\ v.asm = {} /\ v.waits = {} => \E p : v2.asm = {p} /\ p.data[1] = Bytes(f)

LEMMA FirstViews ==
  ASSUME NEW e, IsEnd(e), IsSeq(e.handed), NEW f, NEW inbound
  PROVE  FirstDoes(e, f, HandleFirstFragment(e, f, inbound), View(e, f.msg),
                   View(HandleFirstFragment(e, f, inbound), f.msg))
<1>1. PICK m, a, x : m = f.msg /\ a = e.incomplete /\ x = HandleFirstFragment(e, f, inbound)
  OBVIOUS
<1>2. PICK p : p = [next |-> 1, data |-> <<Bytes(f)>>]
  OBVIOUS
<1>3. PICK b : b = Put(a, m, p)
  OBVIOUS
<1>4. PICK z : z = [e EXCEPT !.incomplete = b]
  OBVIOUS
<1>5. x = IF m \in DOMAIN a THEN e ELSE HandleOutOfSequenceFragment(z, m, inbound)
  <2>1. x = IF f.msg \in DOMAIN e.incomplete THEN e
            ELSE HandleOutOfSequenceFragment(
                   [e EXCEPT !.incomplete = Put(@, f.msg, [next |-> 1, data |-> <<Bytes(f)>>])],
                   f.msg, inbound)
    BY <1>1, Zenon DEF HandleFirstFragment
  <2>2. [e EXCEPT !.incomplete = Put(@, f.msg, [next |-> 1, data |-> <<Bytes(f)>>])] = z
    BY <1>1, <1>2, <1>3, <1>4, Zenon
  <2> QED
    BY <1>1, <2>1, <2>2, Zenon
<1> SUFFICES FirstDoes(e, f, x, View(e, m), View(x, m))
  BY <1>1, Zenon
<1>6. View(e, m).asm = At(a, m)
  BY <1>1, ViewFields
<1>7. CASE m \in DOMAIN a
  <2>1. x = e /\ View(e, m).asm # {}
    BY <1>5, <1>6, <1>7, AtIs
  <2>2. OnlyOf(e, e, m)
    BY DEF OnlyOf
  <2> QED
    BY <1>1, <2>1, <2>2, Zenon DEF FirstDoes
<1>8. CASE m \notin DOMAIN a
  <2>1. x = HandleOutOfSequenceFragment(z, m, inbound)
    BY <1>5, <1>8, Zenon
  <2>2. At(b, m) = {p} /\ \A k : k # m => At(b, k) = At(a, k)
    BY <1>3, AtPut
  <2>3. m \in DOMAIN b /\ b[m] = p
    BY <1>3 DEF Put
  <2>4. At(b, m) = {b[m]} /\ \A k : k # m => At(b, k) = At(e.incomplete, k)
    BY <1>1, <2>2, <2>3, Zenon
  <2>5. /\ OnlyOf(e, x, m) /\ Grows(View(e, m), View(x, m), b[m].next)
        /\ View(z, m).asm = {p} /\ (View(e, m).waits = {} => x = z)
    <3>1. PICK y : y = HandleOutOfSequenceFragment(z, m, inbound)
      OBVIOUS
    <3>2. /\ OnlyOf(e, y, m) /\ Grows(View(e, m), View(y, m), b[m].next)
          /\ View(z, m).asm = {b[m]} /\ (View(e, m).waits = {} => y = z)
      BY <1>4, <2>3, <2>4, <3>1, GrowsViews
    <3> QED
      BY <2>1, <2>3, <3>1, <3>2
  <2>6. p.next = 1 /\ p.data[1] = Bytes(f)
    BY <1>2
  <2>7. Grows(View(e, m), View(x, m), 1)
    BY <2>3, <2>5, <2>6, Zenon
  <2>8. View(e, m).waits = {} => \E r : View(x, m).asm = {r} /\ r.data[1] = Bytes(f)
    BY <2>5, <2>6, Zenon
  <2> QED
    BY <1>1, <2>5, <2>7, <2>8, Zenon DEF FirstDoes
<1> QED
  BY <1>7, <1>8

Arrives(v, v2, f, d) ==
  /\ f.num = d /\ v.waits = {} => IF f.last THEN Finished(v2) ELSE Going(v2, d + 1)
  /\ d = 0 /\ f.num = 0 /\ ~f.last /\ v.waits = {} => \E p : v2.asm = {p} /\ p.data[1] = Bytes(f)
  /\ f.num = d /\ ~f.last =>
       \A u \in v.waits : v.waits = {u} /\ u.num = d + 1 => IF u.last THEN Finished(v2) ELSE Going(v2, d + 2)
  /\ f.num # 0 /\ f.num # d /\ v.waits = {} => AssembledTo(v2, d) /\ v2.waits = {f} /\ v2.times = {}

LEMMA GrowsArrives ==
  ASSUME NEW v, NEW v2, NEW n \in Nat, n # 0, v.times = {}, Grows(v, v2, n)
  PROVE  /\ v.waits = {} => Going(v2, n)
         /\ \A u \in v.waits : v.waits = {u} /\ u.num = n => IF u.last THEN Finished(v2) ELSE Going(v2, n + 1)
<1>1. PICK v1 : /\ v1.waits = v.waits /\ v1.times = v.times /\ \E p \in v1.asm : v1.asm = {p} /\ p.next = n
                /\ v1.waits = {} => v2 = v1
                /\ \A u \in v1.waits : v1.waits = {u} /\ u.num = n =>
                     /\ v2.waits = {}
                     /\ u.last => Handed1(v1, v2)
                     /\ ~u.last => Goes(v1, v2, n + 1)
  BY DEF Grows
<1>2. v.waits = {} => Going(v2, n)
  BY <1>1 DEF Going, AssembledTo
<1>3. ASSUME NEW u \in v.waits, v.waits = {u}, u.num = n
      PROVE  IF u.last THEN Finished(v2) ELSE Going(v2, n + 1)
  <2>1. u.last => Finished(v2)
    BY <1>1, <1>3 DEF Finished, Handed1
  <2>2. ~u.last => Going(v2, n + 1)
    <3>1. n + 1 # 0
      OBVIOUS
    <3> QED
      BY <1>1, <1>3, <3>1 DEF Going, Goes, AssembledTo
  <2> QED
    BY <2>1, <2>2
<1> QED
  BY <1>2, <1>3

LEMMA FragmentViews ==
  ASSUME NEW e, IsEnd(e), IsSeq(e.handed), NEW f \in Fragments, NEW inbound
  PROVE  /\ OnlyOf(e, HandleFragment(e, f, inbound), f.msg)
         /\ \A d \in Nat :
              /\ f.msg # 0 /\ View(e, f.msg).times = {} /\ AssembledTo(View(e, f.msg), d)
              /\ d # 0 /\ f.num = d => Short(Append(e.incomplete[f.msg].data, Bytes(f)))
              => Arrives(View(e, f.msg), View(HandleFragment(e, f, inbound), f.msg), f, d)
<1>1. PICK m, x : m = f.msg /\ x = HandleFragment(e, f, inbound)
  OBVIOUS
<1>2. PICK v, v2 : v = View(e, m) /\ v2 = View(x, m)
  OBVIOUS
<1>3. f.num \in Nat /\ f.last \in BOOLEAN
  BY DEF Fragments
<1> SUFFICES /\ OnlyOf(e, x, m)
             /\ \A d \in Nat :
                  /\ m # 0 /\ v.times = {} /\ AssembledTo(v, d)
                  /\ d # 0 /\ f.num = d => Short(Append(e.incomplete[m].data, Bytes(f)))
                  => Arrives(v, v2, f, d)
  BY <1>1, <1>2, Zenon
<1>4. CASE f.num = 0 /\ f.last
  <2>1. x = HandleNextMessage(e, m, <<Bytes(f)>>, inbound)
    BY <1>1, <1>4, Zenon DEF HandleFragment
  <2>2. Passes(e, m, x)
    BY <2>1, HandleNextPasses, Zenon
  <2>3. \A k : At(x.incomplete, k) = At(e.incomplete, k) /\ At(x.outOfSequence, k) = At(e.outOfSequence, k)
    BY <2>2 DEF Passes
  <2>4. OnlyOf(e, x, m)
    <3>1. ASSUME NEW k, k # m PROVE View(x, k) = View(e, k)
      <4>1. /\ At(x.incomplete, k) = At(e.incomplete, k) /\ Times(x.handed, k) = Times(e.handed, k)
            /\ At(x.outOfSequence, k) = At(e.outOfSequence, k)
        BY <2>2, <2>3, <3>1 DEF Passes
      <4> QED
        BY <4>1, ViewSame, Zenon
    <3> QED
      BY <3>1 DEF OnlyOf
  <2>5. /\ v2.asm = v.asm /\ v2.waits = v.waits
        /\ v.times = {} => \E i : v2.times = {i}
    <3>1. /\ v.waits = At(e.outOfSequence, m) /\ v.times = Times(e.handed, m) /\ v.asm = At(e.incomplete, m)
          /\ v2.waits = At(x.outOfSequence, m) /\ v2.times = Times(x.handed, m) /\ v2.asm = At(x.incomplete, m)
      BY <1>2, ViewFields
    <3> QED
      BY <2>2, <2>3, <3>1 DEF Passes
  <2>6. ASSUME NEW d \in Nat, v.times = {}, AssembledTo(v, d)
        PROVE  Arrives(v, v2, f, d)
    <3>1. d = 0 /\ v.waits = {} => Finished(v2)
      BY <2>5, <2>6 DEF Finished, AssembledTo
    <3> QED
      BY <1>4, <3>1 DEF Arrives
  <2> QED
    BY <2>4, <2>6
<1>5. CASE ~(f.num = 0 /\ f.last) /\ m = 0
  <2>1. x = e
    BY <1>1, <1>5, Zenon DEF HandleFragment
  <2> QED
    BY <1>5, <2>1 DEF OnlyOf
<1>6. CASE f.num = 0 /\ ~f.last /\ m # 0
  <2>1. x = HandleFirstFragment(e, f, inbound)
    BY <1>1, <1>6, Zenon DEF HandleFragment
  <2>2. FirstDoes(e, f, x, v, v2)
    BY <1>1, <1>2, <2>1, FirstViews, Zenon
  <2>3. ASSUME NEW d \in Nat, v.times = {}, AssembledTo(v, d)
        PROVE  Arrives(v, v2, f, d)
    <3>1. CASE d = 0
      <4>1. v.asm = {} /\ Grows(v, v2, 1)
        BY <2>2, <2>3, <3>1 DEF AssembledTo, FirstDoes
      <4>2. /\ v.waits = {} => Going(v2, 1)
            /\ \A u \in v.waits : v.waits = {u} /\ u.num = 1 => IF u.last THEN Finished(v2) ELSE Going(v2, 1 + 1)
        <5>1. 1 \in Nat /\ 1 # 0
          OBVIOUS
        <5> QED
          BY <2>3, <4>1, <5>1, GrowsArrives, Zenon
      <4>3. v.waits = {} => \E p : v2.asm = {p} /\ p.data[1] = Bytes(f)
        BY <2>2, <4>1 DEF FirstDoes
      <4>4. 0 + 1 = 1 /\ 0 + 2 = 1 + 1
        OBVIOUS
      <4> QED
        BY <1>6, <3>1, <4>2, <4>3, <4>4, Zenon DEF Arrives
    <3>2. CASE d # 0
      BY <1>6, <3>2 DEF Arrives
    <3> QED
      BY <3>1, <3>2
  <2> QED
    BY <1>1, <2>2, <2>3 DEF FirstDoes
<1>7. CASE f.num # 0 /\ m # 0
  <2>1. x = HandleFollowOnFragment(e, f, inbound)
    BY <1>1, <1>7, Zenon DEF HandleFragment
  <2>2. FollowOnDoes(e, f, x, v, v2)
    BY <1>1, <1>2, <2>1, FollowOnViews, Zenon
  <2>3. ASSUME NEW d \in Nat, v.times = {}, AssembledTo(v, d),
               d # 0 /\ f.num = d => Short(Append(e.incomplete[m].data, Bytes(f)))
        PROVE  Arrives(v, v2, f, d)
    <3>1. v.asm = At(e.incomplete, m)
      BY <1>2, ViewFields
    <3>2. NextFragment(e, f) <=> d # 0 /\ f.num = d
      <4>1. CASE m \in DOMAIN e.incomplete
        <5>1. v.asm = {e.incomplete[m]}
          BY <3>1, <4>1, AtIs
        <5>2. d # 0 /\ e.incomplete[m].next = d
          BY <2>3, <5>1 DEF AssembledTo
        <5> QED
          BY <1>1, <4>1, <5>2 DEF NextFragment
      <4>2. CASE m \notin DOMAIN e.incomplete
        <5>1. v.asm = {}
          BY <3>1, <4>2, AtIs
        <5>2. d = 0
          BY <2>3, <5>1 DEF AssembledTo
        <5> QED
          BY <1>1, <4>2, <5>2 DEF NextFragment
      <4> QED
        BY <4>1, <4>2
    <3>3. CASE d # 0 /\ f.num = d
      <4>1. e.incomplete[m].next = d
        BY <1>1, <3>2, <3>3 DEF NextFragment
      <4>2. f.last => v2.waits = v.waits /\ Handed1(v, v2)
        BY <1>1, <2>2, <2>3, <3>2, <3>3, Zenon DEF FollowOnDoes
      <4>3. ~f.last => Grows(v, v2, d + 1)
        BY <1>1, <2>2, <2>3, <3>2, <3>3, <4>1, Zenon DEF FollowOnDoes
      <4>4. f.last /\ v.waits = {} => Finished(v2)
        BY <2>3, <4>2 DEF Finished, Handed1
      <4>5. ~f.last =>
              /\ v.waits = {} => Going(v2, d + 1)
              /\ \A u \in v.waits : v.waits = {u} /\ u.num = d + 1 => IF u.last THEN Finished(v2) ELSE Going(v2, d + 1 + 1)
        <5>1. d + 1 \in Nat /\ d + 1 # 0
          OBVIOUS
        <5> QED
          BY <2>3, <4>3, <5>1, GrowsArrives, Zenon
      <4>6. d + 1 + 1 = d + 2
        OBVIOUS
      <4> QED
        BY <3>3, <4>4, <4>5, <4>6, Zenon DEF Arrives
    <3>4. CASE d = 0 \/ f.num # d
      <4>1. v.waits = {} => v2.waits = {f} /\ v2.asm = v.asm /\ v2.times = v.times
        BY <2>2, <3>2, <3>4 DEF FollowOnDoes
      <4>2. v.waits = {} => AssembledTo(v2, d) /\ v2.waits = {f} /\ v2.times = {}
        BY <2>3, <4>1 DEF AssembledTo
      <4>3. f.num # d
        BY <1>7, <3>4
      <4> QED
        BY <1>7, <4>2, <4>3, Zenon DEF Arrives
    <3> QED
      BY <3>3, <3>4
  <2> QED
    BY <1>1, <2>2, <2>3 DEF FollowOnDoes
<1> QED
  BY <1>3, <1>4, <1>5, <1>6, <1>7

(* The length of ranges that lie end to end is where they end.               *)
LEMMA LengthJoined ==
  ASSUME NEW data \in Seq(Ranges), Joined(data)
  PROVE  Length(data) = EndOf(data)
<1>1. PICK n : n = Len(data)
  OBVIOUS
<1> DEFINE Sums(f) == f = [i \in 0..n |-> IF i = 0 THEN 0 ELSE f[i - 1] + data[i][2]]
<1>2. n \in Nat /\ n # 0 /\ \A i \in 1..n : data[i] \in Ranges /\ data[i][1] \in Int /\ data[i][2] \in Int
  BY <1>1 DEF Joined, Ranges
<1>3. data[1][1] = 0 /\ \A i \in 2..n : data[i][1] = data[i - 1][1] + data[i - 1][2]
  BY <1>1 DEF Joined
<1>4. \E f : Sums(f)
  <2>1. PICK f : f = [i \in 0..n |-> IF i = 0 THEN 0 ELSE data[i][1] + data[i][2]]
    OBVIOUS
  <2>2. \A i \in 1..n : f[i] = f[i - 1] + data[i][2]
    BY <1>2, <1>3, <2>1
  <2>3. f[0] = 0
    BY <1>2, <2>1
  <2>4. f = [i \in 0..n |-> IF i = 0 THEN 0 ELSE f[i - 1] + data[i][2]]
    <3>1. PICK h : h = [i \in 0..n |-> IF i = 0 THEN 0 ELSE f[i - 1] + data[i][2]]
      OBVIOUS
    <3>2. \A i \in 0..n : h[i] = f[i]
      <4>1. ASSUME NEW i \in 0..n PROVE h[i] = f[i]
        <5>1. i = 0 \/ i \in 1..n
          BY <1>2
        <5>2. h[i] = IF i = 0 THEN 0 ELSE f[i - 1] + data[i][2]
          BY <3>1
        <5> QED
          BY <2>2, <2>3, <5>1, <5>2
      <4> QED
        BY <4>1
    <3>3. h = [i \in 0..n |-> h[i]] /\ f = [i \in 0..n |-> f[i]]
      BY <2>1, <3>1
    <3>4. h = f
      BY <3>2, <3>3
    <3> QED
      BY <3>1, <3>4, Zenon
  <2> QED
    BY <2>4
<1>5. PICK sum : sum = CHOOSE f : Sums(f)
  OBVIOUS
<1>6. Sums(sum)
  BY <1>4, <1>5
<1>7. Length(data) = sum[n]
  BY <1>1, <1>5 DEF Length
<1>8. sum[0] = 0 /\ \A i \in 1..n : sum[i] = sum[i - 1] + data[i][2]
  BY <1>2, <1>6
<1> DEFINE Right == {i \in Nat : i \in 1..n => sum[i] = data[i][1] + data[i][2]}
<1>9. \A i \in Nat : i \in Right
  <2>1. 0 \in Right
    OBVIOUS
  <2>2. ASSUME NEW i \in Nat, i \in Right, i + 1 \in 1..n
        PROVE  sum[i + 1] = data[i + 1][1] + data[i + 1][2]
    <3>1. PICK j : j = i + 1
      OBVIOUS
    <3>2. j \in 1..n /\ j - 1 = i
      BY <2>2, <3>1
    <3>3. sum[j] = sum[i] + data[j][2]
      BY <1>8, <3>2
    <3>4. sum[i] = data[j][1]
      <4>1. CASE i = 0
        BY <1>3, <1>8, <3>2, <4>1
      <4>2. CASE i # 0
        <5>1. i \in 1..n /\ j \in 2..n
          BY <1>2, <2>2, <3>2, <4>2
        <5>2. sum[i] = data[i][1] + data[i][2]
          BY <2>2, <5>1
        <5> QED
          BY <1>3, <3>2, <5>1, <5>2
      <4> QED
        BY <4>1, <4>2
    <3> QED
      BY <3>1, <3>3, <3>4
  <2>3. \A i \in Nat : i \in Right => i + 1 \in Right
    BY <2>2
  <2> HIDE DEF Right
  <2> QED
    BY <2>1, <2>3, NatSetInduction
<1>10. sum[n] = data[n][1] + data[n][2]
  BY <1>2, <1>9
<1> QED
  BY <1>1, <1>7, <1>10 DEF EndOf

(* A message that is not too long is put together, whatever is left of it.   *)
LEMMA JoinsShort ==
  ASSUME NEW s \in [I2NPMsgs -> Int], NEW G, G \subseteq I2NPMsgs, NEW a \in Assembled(s, G),
         NEW m \in DOMAIN a, NEW f \in Pieces(s, G), f.msg = m, f.num = a[m].next,
         f.from + f.size <= MsgLen[m], MsgLen[m] + 2 < I2NP_MAX_MESSAGE_SIZE
  PROVE  Short(Append(a[m].data, Bytes(f)))
<1>1. PICK p : p = a[m]
  OBVIOUS
<1>2. p \in Parts /\ Begun(p, s[m]) /\ m \in G
  BY <1>1 DEF Assembled
<1>3. /\ p.data \in Seq(Ranges) /\ p.next \in Nat /\ p.next # 0 /\ Joined(p.data)
      /\ EndOf(p.data) = s[m] + (p.next - 1) * 996
  BY <1>2 DEF Parts, Begun
<1>4. f.from = s[m] + (f.num - 1) * 996 /\ f.size >= 0 /\ f.from \in Int /\ f.size \in Int
  BY <1>1, <1>3 DEF Pieces, Cut, Fragments
<1>5. PICK x : x = Bytes(f)
  OBVIOUS
<1>6. x \in Ranges /\ x[1] = f.from /\ x[2] = f.size
  BY <1>4, <1>5 DEF Bytes, Ranges
<1>7. x[1] = EndOf(p.data) /\ x[2] >= 0
  BY <1>1, <1>3, <1>4, <1>6
<1>8. PICK d : d = Append(p.data, x)
  OBVIOUS
<1>9. d \in Seq(Ranges) /\ Joined(d) /\ EndOf(d) = x[1] + x[2]
  BY <1>3, <1>6, <1>7, <1>8, JoinedMore
<1>10. Length(d) = f.from + f.size
  BY <1>6, <1>9, LengthJoined
<1>11. MsgLen[m] \in Nat
  BY <1>2, Lengths
<1>12. Short(d)
  BY <1>4, <1>10, <1>11 DEF Short, I2NP_MAX_MESSAGE_SIZE
<1> QED
  BY <1>1, <1>5, <1>8, <1>12, Zenon

(* What is known of m changes with the fragments of m only.                   *)
ChangesWith(s, G, m, n, fs, done) ==
  \A a \in 0..n : /\ done[a] \in Endpoints(s, G)
                  /\ \A b \in a..n : (\A i \in (a + 1)..b : fs[i].msg # m) => View(done[b], m) = View(done[a], m)

LEMMA DataOther ==
  ASSUME NEW s \in [I2NPMsgs -> Int], NEW G, G \subseteq I2NPMsgs, NEW m, NEW inbound, NEW n \in Nat,
         NEW fs, \A i \in 1..n : fs[i] \in Pieces(s, G), NEW done, done[0] \in Endpoints(s, G),
         \A i \in 1..n : done[i] = HandleFragment(done[i - 1], fs[i], inbound)
  PROVE  ChangesWith(s, G, m, n, fs, done)
<1> DEFINE Sound0 == {i \in Nat : i \in 0..n => done[i] \in Endpoints(s, G)}
<1>1. \A i \in Nat : i \in Sound0
  <2>1. 0 \in Sound0
    OBVIOUS
  <2>2. ASSUME NEW i \in Nat, i \in Sound0
        PROVE  i + 1 \in Sound0
    <3>1. SUFFICES ASSUME i + 1 \in 0..n PROVE done[i + 1] \in Endpoints(s, G)
      OBVIOUS
    <3>2. i \in 0..n /\ i + 1 \in 1..n /\ i + 1 - 1 = i
      BY <3>1
    <3>3. done[i] \in Endpoints(s, G) /\ fs[i + 1] \in Pieces(s, G)
      BY <2>2, <3>2
    <3>4. done[i + 1] = HandleFragment(done[i], fs[i + 1], inbound)
      BY <3>2
    <3> QED
      BY <3>3, <3>4, FragmentKeeps
  <2> HIDE DEF Sound0
  <2> QED
    BY <2>1, <2>2, NatSetInduction
<1>2. \A i \in 0..n : done[i] \in Endpoints(s, G)
  BY <1>1
<1>3. ASSUME NEW i \in 1..n, fs[i].msg # m
      PROVE  View(done[i], m) = View(done[i - 1], m)
  <2>1. PICK e, f : e = done[i - 1] /\ f = fs[i]
    OBVIOUS
  <2>2. e \in Endpoints(s, G) /\ f \in Fragments /\ f.msg # m
    BY <1>2, <1>3, <2>1 DEF Pieces
  <2>3. IsEnd(e) /\ IsSeq(e.handed)
    BY <2>2, EndIs
  <2>4. OnlyOf(e, HandleFragment(e, f, inbound), f.msg)
    BY <2>2, <2>3, FragmentViews, Zenon
  <2>5. View(HandleFragment(e, f, inbound), m) = View(e, m)
    BY <2>2, <2>4 DEF OnlyOf
  <2> QED
    BY <2>1, <2>5
<1>4. ASSUME NEW a \in 0..n
      PROVE  \A b \in a..n : (\A i \in (a + 1)..b : fs[i].msg # m) => View(done[b], m) = View(done[a], m)
  <2> DEFINE Same == {k \in Nat : a + k \in a..n /\ (\A i \in (a + 1)..(a + k) : fs[i].msg # m)
                                  => View(done[a + k], m) = View(done[a], m)}
  <2>1. \A k \in Nat : k \in Same
    <3>1. 0 \in Same
      OBVIOUS
    <3>2. ASSUME NEW k \in Nat, k \in Same
          PROVE  k + 1 \in Same
      <4>1. SUFFICES ASSUME a + (k + 1) \in a..n, \A i \in (a + 1)..(a + (k + 1)) : fs[i].msg # m
                     PROVE  View(done[a + (k + 1)], m) = View(done[a], m)
        OBVIOUS
      <4>2. /\ a + k \in a..n /\ a + (k + 1) \in 1..n /\ a + (k + 1) - 1 = a + k
            /\ \A i \in (a + 1)..(a + k) : i \in (a + 1)..(a + (k + 1))
            /\ a + (k + 1) \in (a + 1)..(a + (k + 1))
        BY <4>1
      <4>3. View(done[a + k], m) = View(done[a], m)
        BY <3>2, <4>1, <4>2
      <4>4. View(done[a + (k + 1)], m) = View(done[a + (k + 1) - 1], m)
        BY <1>3, <4>1, <4>2
      <4> QED
        BY <4>2, <4>3, <4>4
    <3> HIDE DEF Same
    <3> QED
      BY <3>1, <3>2, NatSetInduction
  <2>2. ASSUME NEW b \in a..n, \A i \in (a + 1)..b : fs[i].msg # m
        PROVE  View(done[b], m) = View(done[a], m)
    <3>1. b - a \in Nat /\ a + (b - a) = b
      BY <2>2
    <3>2. b - a \in Same
      BY <2>1, <3>1
    <3> QED
      BY <2>2, <3>1, <3>2
  <2> QED
    BY <2>2
<1> QED
  BY <1>2, <1>4 DEF ChangesWith

(* A tunnel data message that arrives.                                       *)
LEMMA DataArrives ==
  ASSUME NEW s \in [I2NPMsgs -> Int], NEW G, G \subseteq I2NPMsgs, NEW e \in Endpoints(s, G),
         NEW fs, Len(fs) \in Nat, DOMAIN fs = 1..Len(fs), \A i \in 1..Len(fs) : fs[i] \in Pieces(s, G),
         NEW m \in Told, NEW inbound
  PROVE  /\ ~Has(fs, m) => View(HandleDecryptedTunnelDataMsg(e, fs, inbound), m) = View(e, m)
         /\ \A f \in Sole(fs, m), d \in Nat :
              /\ View(e, m).times = {} /\ AssembledTo(View(e, m), d)
              /\ d # 0 /\ f.num = d => f.from + f.size <= MsgLen[m]
              => Arrives(View(e, m), View(HandleDecryptedTunnelDataMsg(e, fs, inbound), m), f, d)
<1>1. PICK n : n = Len(fs)
  OBVIOUS
<1>2. n \in Nat /\ DOMAIN fs = 1..n /\ \A i \in 1..n : fs[i] \in Pieces(s, G)
  BY <1>1
<1>3. PICK done : /\ done[0] = e
                  /\ \A i \in 1..n : done[i] = HandleFragment(done[i - 1], fs[i], inbound)
                  /\ HandleDecryptedTunnelDataMsg(e, fs, inbound) = done[n]
  <2>1. PICK gs, d : gs = fs /\ d = e
    OBVIOUS
  <2>2. Len(gs) \in Nat
    BY <1>1, <1>2, <2>1, Zenon
  <2>3. \E done : /\ done[0] = d
                  /\ \A i \in 1..Len(gs) : done[i] = HandleFragment(done[i - 1], gs[i], inbound)
                  /\ HandleDecryptedTunnelDataMsg(d, gs, inbound) = done[Len(gs)]
    BY <2>2, FragmentByFragment
  <2> QED
    BY <1>1, <2>1, <2>3, Zenon
<1>4. \A a \in 0..n : /\ done[a] \in Endpoints(s, G)
                      /\ \A b \in a..n : (\A i \in (a + 1)..b : fs[i].msg # m) => View(done[b], m) = View(done[a], m)
  <2>1. done[0] \in Endpoints(s, G)
    BY <1>3
  <2>2. ChangesWith(s, G, m, n, fs, done)
    BY <1>2, <1>3, <2>1, DataOther, Zenon
  <2> QED
    BY <1>2, <1>3, <2>1, <2>2, Zenon DEF ChangesWith
<1>5. n \in 0..n /\ 0 \in 0..n
  BY <1>2
<1>6. ASSUME ~Has(fs, m)
      PROVE  View(done[n], m) = View(e, m)
  <2>1. \A i \in (0 + 1)..n : fs[i].msg # m
    BY <1>2, <1>6 DEF Has
  <2>2. View(done[n], m) = View(done[0], m)
    BY <1>4, <1>5, <2>1
  <2> QED
    BY <1>3, <2>2
<1>7. ASSUME NEW f \in Sole(fs, m), NEW d \in Nat, View(e, m).times = {}, AssembledTo(View(e, m), d),
             d # 0 /\ f.num = d => f.from + f.size <= MsgLen[m]
      PROVE  Arrives(View(e, m), View(done[n], m), f, d)
  <2>1. PICK j \in 1..n : fs[j] = f /\ f.msg = m /\ \A k \in 1..n : fs[k].msg = m => k = j
    BY <1>2 DEF Sole
  <2>2. PICK e1, e2 : e1 = done[j - 1] /\ e2 = done[j]
    OBVIOUS
  <2>3. j - 1 \in 0..n /\ j \in 0..n /\ n \in j..n /\ j - 1 \in 0..n
    BY <1>2
  <2>4. View(e1, m) = View(e, m)
    <3>1. \A i \in (0 + 1)..(j - 1) : fs[i].msg # m
      BY <1>2, <2>1
    <3>2. View(done[j - 1], m) = View(done[0], m)
      BY <1>4, <1>5, <2>3, <3>1
    <3> QED
      BY <1>3, <2>2, <3>2
  <2>5. View(done[n], m) = View(e2, m)
    <3>1. \A i \in (j + 1)..n : fs[i].msg # m
      BY <1>2, <2>1
    <3> QED
      BY <1>4, <2>2, <2>3, <3>1
  <2>6. e1 \in Endpoints(s, G) /\ e2 = HandleFragment(e1, f, inbound)
    BY <1>3, <1>4, <2>1, <2>2, <2>3
  <2>7. f \in Pieces(s, G) /\ f \in Fragments
    BY <1>2, <2>1 DEF Pieces
  <2>8. IsEnd(e1) /\ IsSeq(e1.handed) /\ e1.incomplete \in Assembled(s, G)
    BY <2>6, EndIs
  <2>9. d # 0 /\ f.num = d => Short(Append(e1.incomplete[f.msg].data, Bytes(f)))
    <3>1. SUFFICES ASSUME d # 0, f.num = d PROVE Short(Append(e1.incomplete[m].data, Bytes(f)))
      BY <2>1
    <3>2. View(e1, m).asm = At(e1.incomplete, m)
      BY ViewFields
    <3>3. m \in DOMAIN e1.incomplete /\ e1.incomplete[m].next = d
      <4>1. \E q : At(e1.incomplete, m) = {q} /\ q.next = d
        BY <1>7, <2>4, <3>1, <3>2 DEF AssembledTo
      <4> QED
        BY <4>1, AtIs
    <3>4. PICK a : a = e1.incomplete
      OBVIOUS
    <3>5. MsgLen[m] + 2 < I2NP_MAX_MESSAGE_SIZE
      BY DEF Told
    <3>6. Short(Append(a[m].data, Bytes(f)))
      BY <1>7, <2>1, <2>7, <2>8, <3>1, <3>3, <3>4, <3>5, JoinsShort
    <3> QED
      BY <3>4, <3>6
  <2>10. m # 0
    BY DEF Told
  <2>11. Arrives(View(e1, f.msg), View(e2, f.msg), f, d)
    BY <1>7, <2>1, <2>4, <2>6, <2>7, <2>8, <2>9, <2>10, FragmentViews, Zenon
  <2> QED
    BY <2>1, <2>4, <2>5, <2>11, Zenon
<1> QED
  BY <1>3, <1>6, <1>7, Zenon

-----------------------------------------------------------------------------
(* A place of the line is emptied.                                           *)
IsLine(L) == Len(L) \in Nat /\ DOMAIN L = 1..Len(L)
Removed(L, L2, i) ==
  Len(L2) = Len(L) - 1 /\ \A j \in 1..Len(L2) : L2[j] = IF j < i THEN L[j] ELSE L[j + 1]

LEMMA SoleHas ==
  ASSUME NEW x, NEW m
  PROVE  Sole(x, m) # {} => Has(x, m)
BY DEF Sole, Has

LEMMA FragmentIs ==
  ASSUME NEW m, NEW n, NEW last, NEW f \in Fragment(m, n, last)
  PROVE  f \in Fragments /\ f.msg = m /\ f.num = n /\ f.last = last /\ f.from + f.size <= MsgLen[m]
BY DEF Fragment

LEMMA RemovedPlaces ==
  ASSUME NEW L, IsLine(L), NEW L2, IsLine(L2), NEW i \in DOMAIN L, Removed(L, L2, i)
  PROVE  /\ \A j \in DOMAIN L : j < i => j \in DOMAIN L2 /\ L2[j] = L[j]
         /\ \A j \in DOMAIN L : i < j => j - 1 \in DOMAIN L2 /\ L2[j - 1] = L[j]
         /\ \A j \in DOMAIN L2 : j < i => j \in DOMAIN L /\ L2[j] = L[j]
         /\ \A j \in DOMAIN L2 : i <= j => j + 1 \in DOMAIN L /\ L2[j] = L[j + 1]
         /\ Len(L2) = Len(L) - 1 /\ Len(L) \in Nat /\ DOMAIN L = 1..Len(L) /\ DOMAIN L2 = 1..Len(L2)
BY DEF IsLine, Removed

(* A fragment n of m that is on the line.                                    *)
LEMMA OnLineAt ==
  ASSUME NEW L, IsLine(L), NEW m, NEW q \in Nat, NEW p, NEW d, NEW c, OnLine(L, m, q, p, d, c), NEW j \in p..(p + (c - d))
  PROVE  /\ j \in DOMAIN L /\ j \in Nat /\ q < j /\ Has(L[j], m)
         /\ Sole(L[j], m) \cap Fragment(m, d + (j - p), d + (j - p) = c) # {}
         /\ p \in Nat /\ d \in Nat /\ c \in Nat /\ d <= c
<1>1. PICK n : n = d + (j - p)
  OBVIOUS
<1>2. /\ p \in Nat /\ d \in Nat /\ c \in Nat /\ q < p /\ d <= c /\ p + (c - d) <= Len(L)
      /\ \A k \in d..c : Sole(L[p + (k - d)], m) \cap Fragment(m, k, k = c) # {}
  BY DEF OnLine
<1>3. n \in d..c /\ p + (n - d) = j /\ j \in Nat /\ q < j /\ j \in 1..Len(L)
  BY <1>1, <1>2 DEF IsLine
<1>4. Sole(L[j], m) \cap Fragment(m, n, n = c) # {}
  BY <1>2, <1>3
<1>5. Has(L[j], m)
  BY <1>4, SoleHas
<1> QED
  BY <1>1, <1>2, <1>3, <1>4, <1>5 DEF IsLine

LEMMA OnLineMoved ==
  ASSUME NEW L, IsLine(L), NEW L2, IsLine(L2), NEW i \in DOMAIN L, Removed(L, L2, i), NEW m,
         NEW p, NEW d, NEW c, OnLine(L, m, 0, p, d, c), ~Has(L[i], m)
  PROVE  \E r \in Nat : OnLine(L2, m, 0, r, d, c) /\ r \in DOMAIN L2 /\ (p = 1 => r = 1)
<1>1. /\ p \in Nat /\ d \in Nat /\ c \in Nat /\ 0 < p /\ d <= c /\ p + (c - d) <= Len(L)
      /\ \A k \in DOMAIN L : 0 < k /\ Has(L[k], m) => p <= k /\ k <= p + (c - d)
      /\ \A n \in d..c : Sole(L[p + (n - d)], m) \cap Fragment(m, n, n = c) # {}
  BY DEF OnLine
<1>2. i < p \/ p + (c - d) < i
  <2>1. i \in p..(p + (c - d)) => Has(L[i], m)
    <3>1. 0 \in Nat
      OBVIOUS
    <3> QED
      BY <3>1, OnLineAt
  <2> QED
    BY <1>1, <2>1 DEF IsLine
<1>3. /\ \A j \in DOMAIN L : j < i => j \in DOMAIN L2 /\ L2[j] = L[j]
      /\ \A j \in DOMAIN L : i < j => j - 1 \in DOMAIN L2 /\ L2[j - 1] = L[j]
      /\ \A j \in DOMAIN L2 : j < i => j \in DOMAIN L /\ L2[j] = L[j]
      /\ \A j \in DOMAIN L2 : i <= j => j + 1 \in DOMAIN L /\ L2[j] = L[j + 1]
      /\ Len(L2) = Len(L) - 1 /\ Len(L) \in Nat /\ DOMAIN L = 1..Len(L) /\ DOMAIN L2 = 1..Len(L2)
  BY RemovedPlaces
<1>4. PICK r : r = IF i < p THEN p - 1 ELSE p
  OBVIOUS
<1>5. r \in Nat /\ 0 < r /\ r + (c - d) <= Len(L2) /\ (p = 1 => r = 1) /\ r \in DOMAIN L2
  BY <1>1, <1>2, <1>3, <1>4
<1>6. ASSUME NEW j \in DOMAIN L2, Has(L2[j], m)
      PROVE  r <= j /\ j <= r + (c - d)
  <2>1. CASE j < i
    <3>1. j \in DOMAIN L /\ L2[j] = L[j]
      BY <1>3, <2>1
    <3>2. p <= j /\ j <= p + (c - d)
      BY <1>1, <1>3, <1>6, <3>1
    <3> QED
      BY <1>1, <1>2, <1>3, <1>4, <2>1, <3>2
  <2>2. CASE i <= j
    <3>1. j + 1 \in DOMAIN L /\ L2[j] = L[j + 1]
      BY <1>3, <2>2
    <3>2. p <= j + 1 /\ j + 1 <= p + (c - d)
      BY <1>1, <1>3, <1>6, <3>1
    <3> QED
      BY <1>1, <1>2, <1>3, <1>4, <2>2, <3>2
  <2> QED
    BY <1>3, <2>1, <2>2
<1>7. ASSUME NEW n \in d..c
      PROVE  Sole(L2[r + (n - d)], m) \cap Fragment(m, n, n = c) # {}
  <2>1. PICK k : k = p + (n - d)
    OBVIOUS
  <2>2. k \in DOMAIN L /\ p <= k /\ k <= p + (c - d)
    BY <1>1, <1>3, <2>1
  <2>3. L2[r + (n - d)] = L[k]
    <3>1. CASE i < p
      <4>1. r + (n - d) = k - 1 /\ i < k
        BY <1>1, <1>3, <1>4, <2>1, <2>2, <3>1
      <4> QED
        BY <1>3, <2>2, <4>1
    <3>2. CASE p + (c - d) < i
      <4>1. r + (n - d) = k /\ k < i
        BY <1>1, <1>3, <1>4, <2>1, <2>2, <3>2
      <4> QED
        BY <1>3, <2>2, <4>1
    <3> QED
      BY <1>2, <3>1, <3>2
  <2> QED
    BY <1>1, <2>1, <2>3
<1>8. OnLine(L2, m, 0, r, d, c)
  BY <1>1, <1>5, <1>6, <1>7 DEF OnLine
<1> QED
  BY <1>5, <1>8

LEMMA AbsentMoved ==
  ASSUME NEW L, IsLine(L), NEW L2, IsLine(L2), NEW i \in DOMAIN L, Removed(L, L2, i), NEW m,
         \A j \in DOMAIN L : Has(L[j], m) => j = i
  PROVE  Absent(L2, m)
<1>1. ASSUME NEW j \in DOMAIN L2
      PROVE  ~Has(L2[j], m)
  <2>1. /\ j < i => j \in DOMAIN L /\ L2[j] = L[j]
        /\ i <= j => j + 1 \in DOMAIN L /\ L2[j] = L[j + 1]
    BY RemovedPlaces
  <2>2. i \in Nat /\ j \in Nat
    BY DEF IsLine
  <2> QED
    BY <2>1, <2>2
<1> QED
  BY <1>1 DEF Absent

(* A tunnel data message that has no fragment of m is delivered.             *)
LEMMA DeliveredOther ==
  ASSUME NEW L, IsLine(L), NEW L2, IsLine(L2), NEW i \in DOMAIN L, Removed(L, L2, i), NEW m, NEW v, NEW G,
         NEW o \in Nat, o + (i - 1) <= 1, Story(L, v, m, G, o), ~Has(L[i], m)
  PROVE  Story(L2, v, m, G, o + (i - 1))
<1>1. i \in Nat /\ i # 0
  BY DEF IsLine
<1>2. Absent(L, m) => Absent(L2, m)
  BY AbsentMoved DEF Absent
<1>3. CASE m \notin G
  BY <1>2, <1>3 DEF Story
<1>4. CASE m \in G /\ Ahead(L, v, m, o)
  <2>1. PICK p \in DOMAIN L, d \in Nat, c \in Nat :
          OnLine(L, m, 0, p, d, c) /\ Going(v, d) /\ (d # 0 /\ o = 0 => p = 1)
    BY <1>4 DEF Ahead
  <2>2. PICK r \in Nat : OnLine(L2, m, 0, r, d, c) /\ r \in DOMAIN L2 /\ (p = 1 => r = 1)
    BY <2>1, OnLineMoved
  <2>3. o + (i - 1) = 0 => o = 0
    BY <1>1
  <2>4. Ahead(L2, v, m, o + (i - 1))
    BY <2>1, <2>2, <2>3 DEF Ahead
  <2> QED
    BY <1>4, <2>4 DEF Story
<1>5. CASE m \in G /\ Gap(L, v, m, o)
  <2>1. o # 0 /\ \E d : Sole(L[1], m) \cap Fragment(m, d, FALSE) # {}
    BY <1>5 DEF Gap
  <2>2. i = 1
    BY <1>1, <2>1
  <2>3. Has(L[1], m)
    BY <2>1, SoleHas
  <2> QED
    BY <2>2, <2>3
<1>6. CASE m \in G /\ PassedOn(L, v, m)
  BY <1>2, <1>6 DEF Story, PassedOn
<1>7. CASE m \in G /\ Beyond(L, v, m)
  <2>1. PICK p \in DOMAIN L : BeyondAt(L, m, p)
    BY <1>7 DEF Beyond
  <2>2. /\ \A j \in DOMAIN L : Has(L[j], m) => j = p
        /\ \E f \in Sole(L[p], m) : f.num = 0 /\ ~f.last /\ f.size >= MsgLen[m]
    BY <2>1 DEF BeyondAt
  <2>3. p # i
    BY <2>2, SoleHas
  <2>4. PICK r : r = IF p < i THEN p ELSE p - 1
    OBVIOUS
  <2>5. /\ r \in DOMAIN L2 /\ L2[r] = L[p]
        /\ \A j \in DOMAIN L2 : Has(L2[j], m) => j = r
    <3>1. /\ \A j \in DOMAIN L : j < i => j \in DOMAIN L2 /\ L2[j] = L[j]
          /\ \A j \in DOMAIN L : i < j => j - 1 \in DOMAIN L2 /\ L2[j - 1] = L[j]
          /\ \A j \in DOMAIN L2 : j < i => j \in DOMAIN L /\ L2[j] = L[j]
          /\ \A j \in DOMAIN L2 : i <= j => j + 1 \in DOMAIN L /\ L2[j] = L[j + 1]
          /\ Len(L2) = Len(L) - 1 /\ Len(L) \in Nat /\ DOMAIN L = 1..Len(L) /\ DOMAIN L2 = 1..Len(L2)
      BY RemovedPlaces
    <3>2. p \in Nat /\ (p < i \/ i < p)
      BY <1>1, <2>3, <3>1
    <3>3. r \in DOMAIN L2 /\ L2[r] = L[p]
      BY <2>4, <3>1, <3>2
    <3>4. ASSUME NEW j \in DOMAIN L2, Has(L2[j], m)
          PROVE  j = r
      <4>1. j \in Nat /\ (j < i \/ i <= j)
        BY <1>1, <3>1
      <4>2. CASE j < i
        <5>1. j = p
          BY <2>2, <3>1, <3>4, <4>2
        <5> QED
          BY <2>4, <4>2, <5>1
      <4>3. CASE i <= j
        <5>1. j + 1 = p
          BY <2>2, <3>1, <3>4, <4>3
        <5> QED
          BY <1>1, <2>4, <4>1, <4>3, <5>1
      <4> QED
        BY <4>1, <4>2, <4>3
    <3> QED
      BY <3>3, <3>4
  <2>6. BeyondAt(L2, m, r)
    BY <2>2, <2>5 DEF BeyondAt
  <2>7. Beyond(L2, v, m)
    BY <1>7, <2>5, <2>6 DEF Beyond
  <2> QED
    BY <1>7, <2>7 DEF Story
<1>8. CASE m \in G /\ Stuck(L, v, m)
  BY <1>2, <1>8 DEF Story, Stuck
<1> QED
  BY <1>3, <1>4, <1>5, <1>6, <1>7, <1>8 DEF Story

(* What comes of a fragment that is delivered.                               *)
ArrivesIn(x, m, v, v2) ==
  \A f \in Sole(x, m), d \in Nat :
    v.times = {} /\ AssembledTo(v, d) /\ (d # 0 /\ f.num = d => f.from + f.size <= MsgLen[m]) => Arrives(v, v2, f, d)

(* The fragments come in order, and the next one or the one after is delivered. *)
LEMMA DeliveredAhead ==
  ASSUME NEW L, IsLine(L), NEW L2, IsLine(L2), NEW i \in DOMAIN L, Removed(L, L2, i), NEW m, NEW v, NEW v2,
         NEW o \in Nat, o + (i - 1) <= 1, Ahead(L, v, m, o), Has(L[i], m), ArrivesIn(L[i], m, v, v2)
  PROVE  Ahead(L2, v2, m, o + (i - 1)) \/ Gap(L2, v2, m, o + (i - 1)) \/ PassedOn(L2, v2, m)
<1>1. i \in Nat /\ i # 0 /\ (i = 1 \/ (i = 2 /\ o = 0))
  BY DEF IsLine
<1>2. PICK p \in DOMAIN L, d \in Nat, c \in Nat :
        OnLine(L, m, 0, p, d, c) /\ Going(v, d) /\ (d # 0 /\ o = 0 => p = 1)
  BY DEF Ahead
<1>3. /\ p \in Nat /\ d \in Nat /\ c \in Nat /\ 0 < p /\ d <= c /\ p + (c - d) <= Len(L)
      /\ \A k \in DOMAIN L : 0 < k /\ Has(L[k], m) => p <= k /\ k <= p + (c - d)
      /\ \A n \in d..c : Sole(L[p + (n - d)], m) \cap Fragment(m, n, n = c) # {}
  BY <1>2 DEF OnLine
<1>4. i \in p..(p + (c - d))
  BY <1>1, <1>3
<1>5. /\ \A j \in DOMAIN L : j < i => j \in DOMAIN L2 /\ L2[j] = L[j]
      /\ \A j \in DOMAIN L : i < j => j - 1 \in DOMAIN L2 /\ L2[j - 1] = L[j]
      /\ \A j \in DOMAIN L2 : j < i => j \in DOMAIN L /\ L2[j] = L[j]
      /\ \A j \in DOMAIN L2 : i <= j => j + 1 \in DOMAIN L /\ L2[j] = L[j + 1]
      /\ Len(L2) = Len(L) - 1 /\ Len(L) \in Nat /\ DOMAIN L = 1..Len(L) /\ DOMAIN L2 = 1..Len(L2)
  BY RemovedPlaces
<1>6. PICK n : n = d + (i - p)
  OBVIOUS
<1>7. n \in d..c /\ n \in Nat /\ p + (n - d) = i
  <2>1. p <= i /\ i <= p + (c - d) /\ i \in Nat
    BY <1>1, <1>4
  <2>2. p \in Nat /\ d \in Nat /\ c \in Nat
    BY <1>3
  <2> QED
    BY <1>6, <2>1, <2>2
<1>8. PICK f \in Sole(L[i], m) : f \in Fragment(m, n, n = c)
  BY <1>3, <1>7
<1>9. f \in Fragments /\ f.num = n /\ f.last = (n = c) /\ f.from + f.size <= MsgLen[m]
  BY <1>8, FragmentIs
<1>10. v.times = {} /\ v.waits = {} /\ AssembledTo(v, d)
  BY <1>2 DEF Going
<1>11. Arrives(v, v2, f, d)
  BY <1>8, <1>9, <1>10 DEF ArrivesIn
<1>12. CASE i = p
  <2>1. n = d
    BY <1>3, <1>6, <1>12
  <2>2. IF d = c THEN Finished(v2) ELSE Going(v2, d + 1)
    BY <1>9, <1>10, <1>11, <2>1 DEF Arrives
  <2>3. CASE d = c
    <3>1. \A j \in DOMAIN L : Has(L[j], m) => j = i
      BY <1>3, <1>5, <1>12, <2>3
    <3>2. Absent(L2, m)
      BY <3>1, AbsentMoved
    <3> QED
      BY <2>2, <2>3, <3>2 DEF PassedOn
  <2>4. CASE d # c
    <3>1. /\ d + 1 \in Nat /\ d + 1 <= c /\ p + (c - (d + 1)) <= Len(L2) /\ p \in DOMAIN L2
      BY <1>3, <1>5, <2>4
    <3>2. ASSUME NEW j \in DOMAIN L2, Has(L2[j], m)
          PROVE  p <= j /\ j <= p + (c - (d + 1))
      <4>1. j \in Nat /\ 0 < j /\ (j < i \/ i <= j)
        BY <1>1, <1>5
      <4>2. CASE j < i
        <5>1. p <= j
          BY <1>3, <1>5, <3>2, <4>1, <4>2
        <5> QED
          BY <1>3, <1>12, <4>1, <4>2, <5>1
      <4>3. CASE i <= j
        <5>1. j + 1 <= p + (c - d)
          BY <1>3, <1>5, <3>2, <4>1, <4>3
        <5> QED
          BY <1>3, <1>12, <4>1, <4>3, <5>1
      <4> QED
        BY <4>1, <4>2, <4>3
    <3>3. ASSUME NEW k \in (d + 1)..c
          PROVE  Sole(L2[p + (k - (d + 1))], m) \cap Fragment(m, k, k = c) # {}
      <4>1. PICK j : j = p + (k - d)
        OBVIOUS
      <4>2. j \in DOMAIN L /\ i < j /\ j - 1 = p + (k - (d + 1)) /\ k \in d..c
        BY <1>3, <1>5, <1>12, <4>1
      <4>3. L2[p + (k - (d + 1))] = L[j]
        BY <1>5, <4>2
      <4> QED
        BY <1>3, <4>1, <4>2, <4>3
    <3>4. OnLine(L2, m, 0, p, d + 1, c)
      BY <1>3, <3>1, <3>2, <3>3 DEF OnLine
    <3>5. o + (i - 1) = 0 => p = 1
      BY <1>1, <1>12
    <3>6. Ahead(L2, v2, m, o + (i - 1))
      BY <2>2, <2>4, <3>1, <3>4, <3>5 DEF Ahead
    <3> QED
      BY <3>6
  <2> QED
    BY <2>3, <2>4
<1>13. CASE i # p
  <2>1. i = 2 /\ o = 0 /\ p = 1 /\ n = d + 1
    <3>1. p <= i /\ p # i
      BY <1>3, <1>4, <1>13
    <3>2. i = 2 /\ p = 1
      BY <1>1, <1>3, <3>1
    <3> QED
      BY <1>1, <1>3, <1>6, <3>2
  <2>2. n # 0 /\ n # d /\ d # c /\ d + 1 <= c
    BY <1>7, <2>1
  <2>3. AssembledTo(v2, d) /\ v2.waits = {f} /\ v2.times = {}
    BY <1>9, <1>10, <1>11, <2>2 DEF Arrives
  <2>4. 1 \in DOMAIN L2 /\ L2[1] = L[1]
    BY <1>5, <2>1
  <2>5. Sole(L2[1], m) \cap Fragment(m, d, FALSE) # {}
    <3>1. d \in d..c /\ p + (d - d) = 1
      BY <1>3, <2>1
    <3>2. Sole(L[1], m) \cap Fragment(m, d, d = c) # {}
      BY <1>3, <3>1
    <3>3. (d = c) = FALSE
      BY <2>2
    <3> QED
      BY <2>4, <3>2, <3>3
  <2>6. f \in Fragment(m, d + 1, f.last)
    BY <1>8, <1>9, <2>1
  <2>7. f.last => AbsentBehind(L2, m, 1)
    <3>1. ASSUME f.last, NEW j \in DOMAIN L2, 1 < j, Has(L2[j], m)
          PROVE  FALSE
      <4>1. j \in Nat /\ 2 <= j /\ L2[j] = L[j + 1] /\ j + 1 \in DOMAIN L
        BY <1>5, <2>1, <3>1
      <4>2. j + 1 <= p + (c - d)
        BY <1>3, <3>1, <4>1
      <4>3. c = d + 1
        BY <1>9, <2>1, <3>1
      <4> QED
        BY <2>1, <4>1, <4>2, <4>3
    <3> QED
      BY <3>1 DEF AbsentBehind
  <2>8. ~f.last => OnLine(L2, m, 1, 2, d + 2, c)
    <3> SUFFICES ASSUME ~f.last PROVE OnLine(L2, m, 1, 2, d + 2, c)
      OBVIOUS
    <3>1. c # d + 1
      BY <1>9, <2>1
    <3>2. d + 2 \in Nat /\ d + 2 <= c /\ 2 + (c - (d + 2)) <= Len(L2) /\ 2 \in Nat /\ 1 < 2
      BY <1>3, <1>5, <2>1, <2>2, <3>1
    <3>3. ASSUME NEW j \in DOMAIN L2, 1 < j, Has(L2[j], m)
          PROVE  2 <= j /\ j <= 2 + (c - (d + 2))
      <4>1. j \in Nat /\ 2 <= j /\ L2[j] = L[j + 1] /\ j + 1 \in DOMAIN L
        BY <1>5, <2>1, <3>3
      <4>2. j + 1 <= p + (c - d)
        BY <1>3, <3>3, <4>1
      <4> QED
        BY <2>1, <4>1, <4>2
    <3>4. ASSUME NEW k \in (d + 2)..c
          PROVE  Sole(L2[2 + (k - (d + 2))], m) \cap Fragment(m, k, k = c) # {}
      <4>1. PICK j : j = p + (k - d)
        OBVIOUS
      <4>2. j \in DOMAIN L /\ i < j /\ j - 1 = 2 + (k - (d + 2)) /\ k \in d..c
        BY <1>3, <1>5, <2>1, <4>1
      <4>3. L2[2 + (k - (d + 2))] = L[j]
        BY <1>5, <4>2
      <4> QED
        BY <1>3, <4>1, <4>2, <4>3
    <3> QED
      BY <3>2, <3>3, <3>4 DEF OnLine
  <2>9. f \in v2.waits /\ o + (i - 1) # 0
    BY <2>1, <2>3
  <2>10. IF f.last THEN AbsentBehind(L2, m, 1) ELSE \E k \in Nat : OnLine(L2, m, 1, 2, d + 2, k)
    BY <1>2, <2>7, <2>8
  <2> QED
    BY <2>3, <2>4, <2>5, <2>6, <2>9, <2>10 DEF Gap
<1> QED
  BY <1>12, <1>13

(* A fragment of m is delivered, whatever happened to m before.              *)
LEMMA DeliveredOwn ==
  ASSUME NEW L, IsLine(L), NEW L2, IsLine(L2), NEW i \in DOMAIN L, Removed(L, L2, i), NEW m, NEW v, NEW v2, NEW G,
         NEW o \in Nat, o + (i - 1) <= 1, Story(L, v, m, G, o), Has(L[i], m), ArrivesIn(L[i], m, v, v2)
  PROVE  Story(L2, v2, m, G, o + (i - 1))
<1>1. i \in Nat /\ i # 0
  BY DEF IsLine
<1>2. ~Absent(L, m)
  BY DEF Absent
<1>3. m \in G /\ (Ahead(L, v, m, o) \/ Gap(L, v, m, o) \/ Beyond(L, v, m))
  BY <1>2 DEF Story, PassedOn, Stuck
<1>4. CASE Ahead(L, v, m, o)
  BY <1>3, <1>4, DeliveredAhead DEF Story
<1>5. CASE Gap(L, v, m, o)
  <2>1. PICK d \in Nat, u \in v.waits :
          /\ o # 0 /\ 1 \in DOMAIN L /\ v.times = {}
          /\ AssembledTo(v, d) /\ Sole(L[1], m) \cap Fragment(m, d, FALSE) # {}
          /\ v.waits = {u} /\ u \in Fragment(m, d + 1, u.last)
          /\ IF u.last THEN AbsentBehind(L, m, 1) ELSE \E c \in Nat : OnLine(L, m, 1, 2, d + 2, c)
    BY <1>5 DEF Gap
  <2>2. i = 1 /\ o + (i - 1) # 0
    BY <1>1, <2>1
  <2>3. PICK f \in Sole(L[1], m) : f \in Fragment(m, d, FALSE)
    BY <2>1
  <2>4. f.num = d /\ ~f.last /\ f.from + f.size <= MsgLen[m] /\ u.num = d + 1
    <3>1. f.num = d /\ ~f.last /\ f.from + f.size <= MsgLen[m]
      BY <2>3 DEF Fragment, Fragments
    <3>2. u.num = d + 1
      BY <2>1, FragmentIs
    <3> QED
      BY <3>1, <3>2
  <2>5. Arrives(v, v2, f, d)
    BY <2>1, <2>2, <2>3, <2>4 DEF ArrivesIn
  <2>6. IF u.last THEN Finished(v2) ELSE Going(v2, d + 2)
    BY <2>1, <2>4, <2>5 DEF Arrives
  <2>7. /\ \A j \in DOMAIN L2 : j \in Nat /\ i <= j /\ j + 1 \in DOMAIN L /\ L2[j] = L[j + 1] /\ 1 < j + 1
        /\ \A j \in DOMAIN L : i < j => j - 1 \in DOMAIN L2 /\ L2[j - 1] = L[j]
        /\ Len(L2) = Len(L) - 1 /\ Len(L) \in Nat /\ DOMAIN L = 1..Len(L) /\ DOMAIN L2 = 1..Len(L2)
    <3>1. /\ \A j \in DOMAIN L : i < j => j - 1 \in DOMAIN L2 /\ L2[j - 1] = L[j]
          /\ \A j \in DOMAIN L2 : i <= j => j + 1 \in DOMAIN L /\ L2[j] = L[j + 1]
          /\ Len(L2) = Len(L) - 1 /\ Len(L) \in Nat /\ DOMAIN L = 1..Len(L) /\ DOMAIN L2 = 1..Len(L2)
      BY RemovedPlaces
    <3> QED
      BY <2>2, <3>1
  <2>8. CASE u.last
    <3>1. Absent(L2, m)
      BY <2>1, <2>7, <2>8 DEF Absent, AbsentBehind
    <3> QED
      BY <1>3, <2>6, <2>8, <3>1 DEF Story, PassedOn
  <2>9. CASE ~u.last
    <3>1. PICK c \in Nat : OnLine(L, m, 1, 2, d + 2, c)
      BY <2>1, <2>9
    <3>2. /\ d + 2 \in Nat /\ d + 2 <= c /\ 2 + (c - (d + 2)) <= Len(L)
          /\ \A k \in DOMAIN L : 1 < k /\ Has(L[k], m) => 2 <= k /\ k <= 2 + (c - (d + 2))
          /\ \A n \in (d + 2)..c : Sole(L[2 + (n - (d + 2))], m) \cap Fragment(m, n, n = c) # {}
      BY <3>1 DEF OnLine
    <3>3. 1 \in Nat /\ 0 < 1 /\ 1 + (c - (d + 2)) <= Len(L2) /\ 1 \in DOMAIN L2
      BY <2>7, <3>2
    <3>4. ASSUME NEW j \in DOMAIN L2, Has(L2[j], m)
          PROVE  1 <= j /\ j <= 1 + (c - (d + 2))
      <4>1. j \in Nat /\ i <= j /\ j + 1 <= 2 + (c - (d + 2))
        BY <2>7, <3>2, <3>4
      <4> QED
        BY <1>1, <4>1
    <3>5. ASSUME NEW n \in (d + 2)..c
          PROVE  Sole(L2[1 + (n - (d + 2))], m) \cap Fragment(m, n, n = c) # {}
      <4>1. PICK j : j = 2 + (n - (d + 2))
        OBVIOUS
      <4>2. j \in DOMAIN L /\ i < j /\ j - 1 = 1 + (n - (d + 2))
        BY <2>2, <2>7, <3>2, <4>1
      <4>3. L2[1 + (n - (d + 2))] = L[j]
        BY <2>7, <4>2
      <4> QED
        BY <3>2, <4>1, <4>3
    <3>6. OnLine(L2, m, 0, 1, d + 2, c)
      BY <3>2, <3>3, <3>4, <3>5 DEF OnLine
    <3>7. Ahead(L2, v2, m, o + (i - 1))
      BY <2>2, <2>6, <2>9, <3>2, <3>3, <3>6 DEF Ahead
    <3> QED
      BY <1>3, <3>7 DEF Story
  <2> QED
    BY <2>8, <2>9
<1>6. CASE Beyond(L, v, m)
  <2>1. PICK p \in DOMAIN L : BeyondAt(L, m, p)
    BY <1>6 DEF Beyond
  <2>2. /\ \A j \in DOMAIN L : Has(L[j], m) => j = p
        /\ \E f \in Sole(L[p], m) : f.num = 0 /\ ~f.last /\ f.size >= MsgLen[m]
    BY <2>1 DEF BeyondAt
  <2>3. i = p
    BY <2>2
  <2>4. PICK f \in Sole(L[i], m) : f.num = 0 /\ ~f.last /\ f.size >= MsgLen[m]
    BY <2>2, <2>3
  <2>5. v.times = {} /\ v.waits = {} /\ AssembledTo(v, 0)
    BY <1>6 DEF Beyond, Nothing, AssembledTo
  <2>6. Arrives(v, v2, f, 0)
    BY <2>4, <2>5 DEF ArrivesIn
  <2>7. \E q : v2.asm = {q} /\ q.data[1] = Bytes(f)
    BY <2>4, <2>5, <2>6 DEF Arrives
  <2>8. Bytes(f)[2] = f.size
    BY DEF Bytes
  <2>9. \E q \in v2.asm : v2.asm = {q} /\ q.data[1][2] >= MsgLen[m]
    BY <2>4, <2>7, <2>8
  <2>10. Absent(L2, m)
    BY <2>2, <2>3, AbsentMoved
  <2> QED
    BY <1>3, <2>9, <2>10 DEF Story, Stuck
<1> QED
  BY <1>3, <1>4, <1>5, <1>6

PlacesOf(w, r, z) ==
  /\ IsLine(w) /\ IsLine(r) /\ IsLine(z) /\ Len(z) = Len(w) + Len(r)
  /\ \A j \in DOMAIN w : j \in DOMAIN z /\ z[j] = w[j]
  /\ \A j \in DOMAIN r : Len(w) + j \in DOMAIN z /\ z[Len(w) + j] = r[j]

LEMMA Places ==
  ASSUME NEW S, NEW w \in Seq(S), NEW r \in Seq(S)
  PROVE  PlacesOf(w, r, w \o r)
BY DEF PlacesOf, IsLine

LEMMA Glued ==
  ASSUME NEW S, NEW w \in Seq(S), NEW i \in 1..Len(w), NEW a \in Seq(S), NEW b \in Seq(S),
         Len(a) = i - 1, Len(b) = Len(w) - i, \A j \in 1..(i - 1) : a[j] = w[j],
         \A j \in 1..(Len(w) - i) : b[j] = w[i + j]
  PROVE  a \o b \in Seq(S) /\ Removed(w, a \o b, i)
<1>1. Len(w) \in Nat /\ i \in Nat /\ 1 <= i /\ i <= Len(w)
  OBVIOUS
<1>2. /\ IsLine(a \o b) /\ Len(a \o b) = Len(a) + Len(b)
      /\ \A j \in DOMAIN a : (a \o b)[j] = a[j]
      /\ \A j \in DOMAIN b : (a \o b)[Len(a) + j] = b[j]
      /\ IsLine(a) /\ IsLine(b)
  <2>1. PlacesOf(a, b, a \o b)
    BY Places, Zenon
  <2> QED
    BY <2>1 DEF PlacesOf
<1>3. PICK w2 : w2 = a \o b
  OBVIOUS
<1>4. Len(w2) = Len(w) - 1
  <2>1. Len(w2) = (i - 1) + (Len(w) - i)
    BY <1>2, <1>3, Zenon
  <2> QED
    BY <1>1, <2>1
<1>5. ASSUME NEW j \in 1..(Len(w) - 1)
      PROVE  w2[j] = IF j < i THEN w[j] ELSE w[j + 1]
  <2>1. CASE j < i
    <3>1. j \in 1..(i - 1) /\ j \in DOMAIN a
      BY <1>1, <1>2, <2>1 DEF IsLine
    <3> QED
      BY <1>2, <1>3, <2>1, <3>1
  <2>2. CASE ~(j < i)
    <3>1. PICK k : k = j - (i - 1)
      OBVIOUS
    <3>2. k \in 1..(Len(w) - i) /\ j = (i - 1) + k /\ i + k = j + 1
      BY <1>1, <2>2, <3>1
    <3>3. k \in DOMAIN b
      BY <1>2, <3>2 DEF IsLine
    <3>4. w2[j] = b[k]
      BY <1>2, <1>3, <3>2, <3>3
    <3> QED
      BY <2>2, <3>2, <3>4
  <2> QED
    BY <2>1, <2>2
<1>6. a \o b \in Seq(S)
  OBVIOUS
<1> QED
  BY <1>3, <1>4, <1>5, <1>6 DEF Removed

LEMMA RemovedBefore ==
  ASSUME NEW S, NEW w \in Seq(S), NEW r \in Seq(S), NEW i \in 1..Len(w), NEW x \in Seq(S), Removed(w, x, i)
  PROVE  IsLine(x \o r) /\ Removed(w \o r, x \o r, i)
<1>1. Len(w) \in Nat /\ Len(r) \in Nat /\ 1 <= i /\ i <= Len(w) /\ i \in Nat
  OBVIOUS
<1>2. Len(x) = Len(w) - 1 /\ \A j \in 1..(Len(w) - 1) : x[j] = IF j < i THEN w[j] ELSE w[j + 1]
  BY DEF Removed
<1>3. /\ IsLine(x \o r) /\ Len(x \o r) = Len(x) + Len(r)
      /\ \A j \in DOMAIN x : (x \o r)[j] = x[j]
      /\ \A j \in DOMAIN r : (x \o r)[Len(x) + j] = r[j]
      /\ IsLine(x) /\ IsLine(r)
  BY Places DEF PlacesOf
<1>4. /\ Len(w \o r) = Len(w) + Len(r)
      /\ \A j \in DOMAIN w : (w \o r)[j] = w[j]
      /\ \A j \in DOMAIN r : (w \o r)[Len(w) + j] = r[j]
      /\ IsLine(w) /\ IsLine(r)
  BY Places DEF PlacesOf
<1>5. PICK y, z : y = x \o r /\ z = w \o r
  OBVIOUS
<1>6. ASSUME NEW j \in 1..(Len(w) - 1 + Len(r))
      PROVE  y[j] = IF j < i THEN z[j] ELSE z[j + 1]
  <2>1. CASE j <= Len(w) - 1
    <3>1. j \in 1..(Len(w) - 1) /\ j \in DOMAIN x /\ j \in DOMAIN w /\ j + 1 \in DOMAIN w
      BY <1>1, <1>2, <1>3, <1>4, <2>1 DEF IsLine
    <3>2. y[j] = x[j] /\ z[j] = w[j] /\ z[j + 1] = w[j + 1]
      BY <1>3, <1>4, <1>5, <3>1
    <3> QED
      BY <1>2, <3>1, <3>2
  <2>2. CASE ~(j <= Len(w) - 1)
    <3>1. PICK k : k = j - (Len(w) - 1)
      OBVIOUS
    <3>2. k \in 1..Len(r) /\ j = (Len(w) - 1) + k /\ j + 1 = Len(w) + k /\ ~(j < i)
      BY <1>1, <2>2, <3>1
    <3>3. k \in DOMAIN r
      BY <1>3, <3>2 DEF IsLine
    <3>4. y[j] = r[k]
      <4>1. (x \o r)[Len(x) + k] = r[k]
        BY <1>3, <3>3
      <4> QED
        BY <1>2, <1>5, <3>2, <4>1
    <3>5. z[j + 1] = r[k]
      <4>1. (w \o r)[Len(w) + k] = r[k]
        BY <1>4, <3>3
      <4> QED
        BY <1>5, <3>2, <4>1
    <3> QED
      BY <3>2, <3>4, <3>5
  <2> QED
    BY <2>1, <2>2
<1>7. Len(y) = Len(z) - 1 /\ Len(y) = Len(w) - 1 + Len(r)
  BY <1>1, <1>2, <1>3, <1>4, <1>5
<1>8. Removed(z, y, i)
  BY <1>6, <1>7 DEF Removed
<1> QED
  BY <1>3, <1>5, <1>8

LEMMA CutOut ==
  ASSUME NEW S, NEW w \in Seq(S), NEW r \in Seq(S), NEW i \in DOMAIN w
  PROVE  /\ IsLine((SubSeq(w, 1, i - 1) \o SubSeq(w, i + 1, Len(w))) \o r)
         /\ Removed(w \o r, (SubSeq(w, 1, i - 1) \o SubSeq(w, i + 1, Len(w))) \o r, i)
<1>1. i \in 1..Len(w) /\ Len(w) \in Nat
  OBVIOUS
<1>2. PICK a, b : a = SubSeq(w, 1, i - 1) /\ b = SubSeq(w, i + 1, Len(w))
  OBVIOUS
<1>3. /\ a \in Seq(S) /\ b \in Seq(S) /\ Len(a) = i - 1 /\ Len(b) = Len(w) - i
      /\ \A j \in 1..(i - 1) : a[j] = w[j]
      /\ \A j \in 1..(Len(w) - i) : b[j] = w[i + j]
  <2>1. \A x \in 1..Len(w) : w[x] \in S
    OBVIOUS
  <2>2. \A x \in 1..(Len(w) + 1), y \in 0..Len(w) :
          /\ SubSeq(w, x, y) \in Seq(S)
          /\ Len(SubSeq(w, x, y)) = IF x <= y THEN y - x + 1 ELSE 0
          /\ \A j \in 1..(y - x + 1) : SubSeq(w, x, y)[j] = w[x + j - 1]
    BY <2>1, SubSeqProperties
  <2>3. 1 \in 1..(Len(w) + 1) /\ i - 1 \in 0..Len(w) /\ i + 1 \in 1..(Len(w) + 1) /\ Len(w) \in 0..Len(w)
    BY <1>1
  <2>4. a \in Seq(S) /\ Len(a) = i - 1 /\ \A j \in 1..(i - 1) : a[j] = w[j]
    <3>1. /\ a \in Seq(S) /\ Len(a) = (IF 1 <= i - 1 THEN i - 1 - 1 + 1 ELSE 0)
          /\ \A j \in 1..(i - 1 - 1 + 1) : a[j] = w[1 + j - 1]
      BY <1>2, <2>2, <2>3, Zenon
    <3> QED
      BY <1>1, <3>1
  <2>5. b \in Seq(S) /\ Len(b) = Len(w) - i /\ \A j \in 1..(Len(w) - i) : b[j] = w[i + j]
    <3>1. /\ b \in Seq(S) /\ Len(b) = (IF i + 1 <= Len(w) THEN Len(w) - (i + 1) + 1 ELSE 0)
          /\ \A j \in 1..(Len(w) - (i + 1) + 1) : b[j] = w[i + 1 + j - 1]
      BY <1>2, <2>2, <2>3, Zenon
    <3> QED
      BY <1>1, <3>1
  <2> QED
    BY <2>4, <2>5
<1>4. a \o b \in Seq(S) /\ Removed(w, a \o b, i)
  BY <1>1, <1>3, Glued, Zenon
<1>5. IsLine((a \o b) \o r) /\ Removed(w \o r, (a \o b) \o r, i)
  BY <1>1, <1>4, RemovedBefore, Zenon
<1> QED
  BY <1>2, <1>5, Zenon

LEMMA UnsentIs ==
  ASSUME NEW F, NEW g \in Buffers(F)
  PROVE  Unsent(g) \in Seq(Seq(F))
<1>1. g.current \in Seq(F) /\ g.complete \in Seq(Seq(F))
  BY BufferFields
<1>2. PICK S, c, k : S = Seq(F) /\ c = g.complete /\ k = g.current
  OBVIOUS
<1>3. Append(c, k) \in Seq(S) /\ c \in Seq(S)
  BY <1>1, <1>2
<1> QED
  BY <1>2, <1>3, Zenon DEF Unsent

LEMMA StoriesDelivered ==
  ASSUME NEW g, NEW w, NEW e, NEW G, Sound(g, w, e, G), NEW i \in DOMAIN w, NEW o \in Nat, o + (i - 1) <= 1,
         Stories(g, w, e, G, o), NEW inbound, NEW w2, w2 = SubSeq(w, 1, i - 1) \o SubSeq(w, i + 1, Len(w)),
         NEW e2, e2 = HandleDecryptedTunnelDataMsg(e, w[i], inbound)
  PROVE  Stories(g, w2, e2, G, o + (i - 1))
<1>1. PICK s \in [I2NPMsgs -> Int] : /\ g \in Buffers(Pieces(s, G))
                                    /\ w \in Seq(Seq(Pieces(s, G)))
                                    /\ e \in Endpoints(s, G)
  BY DEF Sound
<1>2. G \subseteq I2NPMsgs
  BY DEF Sound
<1>3. PICK F, S, r : F = Pieces(s, G) /\ S = Seq(F) /\ r = Unsent(g)
  OBVIOUS
<1>4. w \in Seq(S) /\ r \in Seq(S)
  BY <1>1, <1>3, UnsentIs
<1>5. PICK L, L2 : L = w \o r /\ L2 = w2 \o r
  OBVIOUS
<1>6. L = Line(g, w) /\ L2 = Line(g, w2)
  BY <1>3, <1>5 DEF Line
<1>7. IsLine(L) /\ i \in DOMAIN L /\ L[i] = w[i]
  BY <1>4, <1>5, Places DEF PlacesOf
<1>8. IsLine(L2) /\ Removed(L, L2, i)
  BY <1>4, <1>5, CutOut
<1>9. PICK fs : fs = w[i]
  OBVIOUS
<1>10. Len(fs) \in Nat /\ DOMAIN fs = 1..Len(fs) /\ \A j \in 1..Len(fs) : fs[j] \in Pieces(s, G)
  <2>1. fs \in Seq(F)
    <3>1. w[i] \in S
      BY <1>4
    <3> QED
      BY <1>3, <1>9, <3>1, Zenon
  <2>2. Len(fs) \in Nat /\ DOMAIN fs = 1..Len(fs) /\ \A j \in 1..Len(fs) : fs[j] \in F
    BY <2>1
  <2> QED
    BY <1>3, <2>2, Zenon
<1>11. ASSUME NEW m \in Told
       PROVE  Story(L2, View(e2, m), m, G, o + (i - 1))
  <2>1. Story(L, View(e, m), m, G, o)
    BY <1>6, Zenon DEF Stories
  <2>2. /\ ~Has(fs, m) => View(HandleDecryptedTunnelDataMsg(e, fs, inbound), m) = View(e, m)
        /\ ArrivesIn(fs, m, View(e, m), View(HandleDecryptedTunnelDataMsg(e, fs, inbound), m))
    BY <1>1, <1>2, <1>10, DataArrives, Zenon DEF ArrivesIn
  <2>3. PICK v, v2 : v = View(e, m) /\ v2 = View(e2, m)
    OBVIOUS
  <2>4. (~Has(L[i], m) => v2 = v) /\ ArrivesIn(L[i], m, v, v2) /\ Story(L, v, m, G, o)
    BY <1>7, <1>9, <2>1, <2>2, <2>3, Zenon
  <2>5. Story(L2, v2, m, G, o + (i - 1))
    <3>1. CASE Has(L[i], m)
      BY <1>7, <1>8, <2>4, <3>1, DeliveredOwn, Zenon
    <3>2. CASE ~Has(L[i], m)
      <4>1. Story(L2, v, m, G, o + (i - 1))
        BY <1>7, <1>8, <2>4, <3>2, DeliveredOther, Zenon
      <4> QED
        BY <2>4, <3>2, <4>1, Zenon
    <3> QED
      BY <3>1, <3>2
  <2> QED
    BY <2>3, <2>5, Zenon
<1> QED
  BY <1>6, <1>11, Zenon DEF Stories

-----------------------------------------------------------------------------
(* The gateway adds to the line.  Of message k nothing changes but that      *)
(* there is more behind it.                                                  *)
Keeps(L, L2, k) ==
  /\ IsLine(L) /\ IsLine(L2) /\ Len(L) <= Len(L2)
  /\ \A j \in DOMAIN L : Sole(L2[j], k) = Sole(L[j], k) /\ (Has(L2[j], k) <=> Has(L[j], k))
  /\ \A j \in DOMAIN L2 : Len(L) < j => ~Has(L2[j], k)
(* The line has all of m, or the one fragment that goes beyond its end.      *)
Holds(L, m) ==
  \E p \in DOMAIN L : BeyondAt(L, m, p) \/ \E c \in Nat : OnLine(L, m, 0, p, 0, c)
PutsWell(L, L2, m) == (\A k : k # m => Keeps(L, L2, k)) /\ (Absent(L, m) => Holds(L2, m))

LEMMA KeepsFacts ==
  ASSUME NEW L, NEW L2, NEW k, Keeps(L, L2, k)
  PROVE  /\ Len(L) \in Nat /\ Len(L2) \in Nat /\ Len(L) <= Len(L2)
         /\ DOMAIN L = 1..Len(L) /\ DOMAIN L2 = 1..Len(L2)
         /\ \A j \in DOMAIN L : j \in DOMAIN L2 /\ Sole(L2[j], k) = Sole(L[j], k) /\ (Has(L2[j], k) <=> Has(L[j], k))
         /\ \A j \in DOMAIN L2 : Has(L2[j], k) => j \in DOMAIN L /\ Has(L[j], k)
<1>1. /\ Len(L) \in Nat /\ Len(L2) \in Nat /\ Len(L) <= Len(L2)
      /\ DOMAIN L = 1..Len(L) /\ DOMAIN L2 = 1..Len(L2)
  BY DEF Keeps, IsLine
<1>2. \A j \in DOMAIN L : j \in DOMAIN L2 /\ Sole(L2[j], k) = Sole(L[j], k) /\ (Has(L2[j], k) <=> Has(L[j], k))
  BY <1>1 DEF Keeps
<1>3. ASSUME NEW j \in DOMAIN L2, Has(L2[j], k)
      PROVE  j \in DOMAIN L /\ Has(L[j], k)
  <2>1. ~(Len(L) < j)
    BY <1>3 DEF Keeps
  <2>2. j \in DOMAIN L
    BY <1>1, <2>1
  <2> QED
    BY <1>2, <1>3, <2>2
<1> QED
  BY <1>1, <1>2, <1>3

LEMMA KeepsMore ==
  ASSUME NEW L, NEW L2, NEW L3, NEW k, Keeps(L, L2, k), Keeps(L2, L3, k)
  PROVE  Keeps(L, L3, k)
<1>1. /\ Len(L) \in Nat /\ Len(L2) \in Nat /\ Len(L) <= Len(L2)
      /\ DOMAIN L = 1..Len(L) /\ DOMAIN L2 = 1..Len(L2)
      /\ \A j \in DOMAIN L : j \in DOMAIN L2 /\ Sole(L2[j], k) = Sole(L[j], k) /\ (Has(L2[j], k) <=> Has(L[j], k))
      /\ \A j \in DOMAIN L2 : Has(L2[j], k) => j \in DOMAIN L /\ Has(L[j], k)
  BY KeepsFacts
<1>2. /\ Len(L3) \in Nat /\ Len(L2) <= Len(L3)
      /\ \A j \in DOMAIN L2 : j \in DOMAIN L3 /\ Sole(L3[j], k) = Sole(L2[j], k) /\ (Has(L3[j], k) <=> Has(L2[j], k))
      /\ \A j \in DOMAIN L3 : Has(L3[j], k) => j \in DOMAIN L2 /\ Has(L2[j], k)
  BY KeepsFacts
<1>3. \A j \in DOMAIN L : Sole(L3[j], k) = Sole(L[j], k) /\ (Has(L3[j], k) <=> Has(L[j], k))
  BY <1>1, <1>2
<1>4. \A j \in DOMAIN L3 : Len(L) < j => ~Has(L3[j], k)
  <2>1. SUFFICES ASSUME NEW j \in DOMAIN L3, Len(L) < j, Has(L3[j], k) PROVE FALSE
    OBVIOUS
  <2>2. j \in DOMAIN L
    BY <1>1, <1>2, <2>1
  <2> QED
    BY <1>1, <2>1, <2>2
<1>5. IsLine(L) /\ IsLine(L3) /\ Len(L) <= Len(L3)
  BY <1>1, <1>2 DEF Keeps
<1> QED
  BY <1>3, <1>4, <1>5 DEF Keeps

LEMMA PutsAfter ==
  ASSUME NEW L, NEW L2, NEW L3, NEW m, \A k : Keeps(L, L2, k), PutsWell(L2, L3, m)
  PROVE  PutsWell(L, L3, m)
<1>1. \A k : k # m => Keeps(L, L3, k)
  BY KeepsMore DEF PutsWell
<1>2. Absent(L, m) => Absent(L2, m)
  BY KeepsFacts DEF Absent
<1> QED
  BY <1>1, <1>2 DEF PutsWell

LEMMA KeepsStory ==
  ASSUME NEW L, NEW L2, NEW m, Keeps(L, L2, m), NEW v, NEW G, NEW o, Story(L, v, m, G, o)
  PROVE  Story(L2, v, m, G, o)
<1>1. /\ Len(L) \in Nat /\ Len(L2) \in Nat /\ Len(L) <= Len(L2)
      /\ DOMAIN L = 1..Len(L) /\ DOMAIN L2 = 1..Len(L2)
      /\ \A j \in DOMAIN L : j \in DOMAIN L2 /\ Sole(L2[j], m) = Sole(L[j], m) /\ (Has(L2[j], m) <=> Has(L[j], m))
      /\ \A j \in DOMAIN L2 : Has(L2[j], m) => j \in DOMAIN L /\ Has(L[j], m)
  BY KeepsFacts
<1>2. Absent(L, m) => Absent(L2, m)
  BY <1>1 DEF Absent
<1>3. AbsentBehind(L, m, 1) => AbsentBehind(L2, m, 1)
  BY <1>1 DEF AbsentBehind
<1>4. ASSUME NEW q \in Nat, NEW p, NEW d, NEW c, OnLine(L, m, q, p, d, c)
      PROVE  OnLine(L2, m, q, p, d, c)
  <2>1. /\ p \in Nat /\ d \in Nat /\ c \in Nat /\ q < p /\ d <= c /\ p + (c - d) <= Len(L)
        /\ \A i \in DOMAIN L : q < i /\ Has(L[i], m) => p <= i /\ i <= p + (c - d)
        /\ \A n \in d..c : Sole(L[p + (n - d)], m) \cap Fragment(m, n, n = c) # {}
    BY <1>4 DEF OnLine
  <2>2. p + (c - d) <= Len(L2)
    BY <1>1, <2>1
  <2>3. \A i \in DOMAIN L2 : q < i /\ Has(L2[i], m) => p <= i /\ i <= p + (c - d)
    BY <1>1, <2>1
  <2>4. ASSUME NEW n \in d..c
        PROVE  Sole(L2[p + (n - d)], m) \cap Fragment(m, n, n = c) # {}
    <3>1. p + (n - d) \in DOMAIN L
      BY <1>1, <1>4, <2>1
    <3> QED
      BY <1>1, <2>1, <3>1
  <2> QED
    BY <2>1, <2>2, <2>3, <2>4 DEF OnLine
<1>5. CASE m \notin G
  BY <1>2, <1>5 DEF Story
<1>6. CASE m \in G /\ Ahead(L, v, m, o)
  <2>1. Ahead(L2, v, m, o)
    <3>1. 0 \in Nat
      OBVIOUS
    <3> QED
      BY <1>1, <1>4, <1>6, <3>1 DEF Ahead
  <2> QED
    BY <1>6, <2>1 DEF Story
<1>7. CASE m \in G /\ Gap(L, v, m, o)
  <2>1. PICK d \in Nat, u \in v.waits :
          /\ o # 0 /\ 1 \in DOMAIN L /\ v.times = {}
          /\ AssembledTo(v, d) /\ Sole(L[1], m) \cap Fragment(m, d, FALSE) # {}
          /\ v.waits = {u} /\ u \in Fragment(m, d + 1, u.last)
          /\ IF u.last THEN AbsentBehind(L, m, 1) ELSE \E c \in Nat : OnLine(L, m, 1, 2, d + 2, c)
    BY <1>7 DEF Gap
  <2>2. 1 \in DOMAIN L2 /\ Sole(L2[1], m) \cap Fragment(m, d, FALSE) # {}
    BY <1>1, <2>1
  <2>3. IF u.last THEN AbsentBehind(L2, m, 1) ELSE \E c \in Nat : OnLine(L2, m, 1, 2, d + 2, c)
    <3>1. 1 \in Nat
      OBVIOUS
    <3> QED
      BY <1>3, <1>4, <2>1, <3>1
  <2>4. Gap(L2, v, m, o)
    BY <2>1, <2>2, <2>3 DEF Gap
  <2> QED
    BY <1>7, <2>4 DEF Story
<1>8. CASE m \in G /\ PassedOn(L, v, m)
  BY <1>2, <1>8 DEF Story, PassedOn
<1>9. CASE m \in G /\ Beyond(L, v, m)
  <2>1. PICK p \in DOMAIN L : BeyondAt(L, m, p)
    BY <1>9 DEF Beyond
  <2>2. BeyondAt(L2, m, p) /\ p \in DOMAIN L2
    BY <1>1, <2>1 DEF BeyondAt
  <2>3. Beyond(L2, v, m)
    BY <1>9, <2>2 DEF Beyond
  <2> QED
    BY <1>9, <2>3 DEF Story
<1>10. CASE m \in G /\ Stuck(L, v, m)
  BY <1>2, <1>10 DEF Story, Stuck
<1> QED
  BY <1>5, <1>6, <1>7, <1>8, <1>9, <1>10 DEF Story

LEMMA HoldsStory ==
  ASSUME NEW L, NEW m, Holds(L, m), NEW v, Nothing(v), NEW G, m \in G, NEW o
  PROVE  Story(L, v, m, G, o)
<1>1. Going(v, 0)
  BY DEF Nothing, Going, AssembledTo
<1>2. PICK p \in DOMAIN L : BeyondAt(L, m, p) \/ \E c \in Nat : OnLine(L, m, 0, p, 0, c)
  BY DEF Holds
<1>3. CASE BeyondAt(L, m, p)
  BY <1>2, <1>3 DEF Story, Beyond
<1>4. CASE \E c \in Nat : OnLine(L, m, 0, p, 0, c)
  <2>1. 0 \in Nat
    OBVIOUS
  <2>2. Ahead(L, v, m, o)
    BY <1>1, <1>2, <1>4, <2>1 DEF Ahead
  <2> QED
    BY <2>2 DEF Story
<1> QED
  BY <1>2, <1>3, <1>4

(* What is on the wire already comes first.                                  *)
LEMMA KeepsBehind ==
  ASSUME NEW w, NEW r, NEW z, NEW r2, NEW z2, PlacesOf(w, r, z), PlacesOf(w, r2, z2), NEW k, Keeps(r, r2, k)
  PROVE  Keeps(z, z2, k)
<1>1. /\ Len(r) \in Nat /\ Len(r2) \in Nat /\ Len(r) <= Len(r2)
      /\ DOMAIN r = 1..Len(r) /\ DOMAIN r2 = 1..Len(r2)
      /\ \A j \in DOMAIN r : j \in DOMAIN r2 /\ Sole(r2[j], k) = Sole(r[j], k) /\ (Has(r2[j], k) <=> Has(r[j], k))
      /\ \A j \in DOMAIN r2 : Has(r2[j], k) => j \in DOMAIN r /\ Has(r[j], k)
  BY KeepsFacts
<1>2. /\ IsLine(w) /\ IsLine(z) /\ Len(z) = Len(w) + Len(r)
      /\ \A j \in DOMAIN w : j \in DOMAIN z /\ z[j] = w[j]
      /\ \A j \in DOMAIN r : Len(w) + j \in DOMAIN z /\ z[Len(w) + j] = r[j]
  BY DEF PlacesOf
<1>3. /\ IsLine(z2) /\ Len(z2) = Len(w) + Len(r2)
      /\ \A j \in DOMAIN w : j \in DOMAIN z2 /\ z2[j] = w[j]
      /\ \A j \in DOMAIN r2 : Len(w) + j \in DOMAIN z2 /\ z2[Len(w) + j] = r2[j]
  BY DEF PlacesOf
<1>4. Len(w) \in Nat /\ DOMAIN w = 1..Len(w) /\ DOMAIN z = 1..(Len(w) + Len(r)) /\ DOMAIN z2 = 1..(Len(w) + Len(r2))
  BY <1>2, <1>3 DEF IsLine
<1>5. ASSUME NEW j \in DOMAIN z
      PROVE  Sole(z2[j], k) = Sole(z[j], k) /\ (Has(z2[j], k) <=> Has(z[j], k))
  <2>1. CASE j <= Len(w)
    <3>1. j \in DOMAIN w
      BY <1>1, <1>4, <2>1
    <3> QED
      BY <1>2, <1>3, <3>1
  <2>2. CASE ~(j <= Len(w))
    <3>1. PICK i : i = j - Len(w)
      OBVIOUS
    <3>2. i \in DOMAIN r /\ j = Len(w) + i
      BY <1>1, <1>4, <2>2, <3>1
    <3>3. i \in DOMAIN r2 /\ z[j] = r[i] /\ z2[j] = r2[i]
      BY <1>1, <1>2, <1>3, <3>2
    <3> QED
      BY <1>1, <3>2, <3>3
  <2> QED
    BY <2>1, <2>2
<1>6. ASSUME NEW j \in DOMAIN z2, Len(z) < j
      PROVE  ~Has(z2[j], k)
  <2>1. PICK i : i = j - Len(w)
    OBVIOUS
  <2>2. i \in DOMAIN r2 /\ j = Len(w) + i /\ i \notin DOMAIN r
    BY <1>1, <1>2, <1>4, <1>6, <2>1
  <2>3. z2[j] = r2[i]
    BY <1>3, <2>2
  <2> QED
    BY <1>1, <2>2, <2>3
<1>7. Len(z) <= Len(z2)
  BY <1>1, <1>2, <1>3, <1>4
<1> QED
  BY <1>2, <1>3, <1>5, <1>6, <1>7 DEF Keeps

LEMMA HoldsBehind ==
  ASSUME NEW w, NEW r, NEW z, PlacesOf(w, r, z), NEW m, Absent(w, m), Holds(r, m)
  PROVE  Holds(z, m)
<1>1. /\ IsLine(w) /\ IsLine(r) /\ IsLine(z) /\ Len(z) = Len(w) + Len(r)
      /\ \A j \in DOMAIN w : j \in DOMAIN z /\ z[j] = w[j]
      /\ \A j \in DOMAIN r : Len(w) + j \in DOMAIN z /\ z[Len(w) + j] = r[j]
  BY DEF PlacesOf
<1>2. /\ Len(w) \in Nat /\ Len(r) \in Nat /\ DOMAIN w = 1..Len(w) /\ DOMAIN r = 1..Len(r)
      /\ DOMAIN z = 1..(Len(w) + Len(r))
  BY <1>1 DEF IsLine
<1>3. ASSUME NEW j \in DOMAIN z, Has(z[j], m)
      PROVE  j - Len(w) \in DOMAIN r /\ Has(r[j - Len(w)], m)
  <2>1. j \notin DOMAIN w
    BY <1>1, <1>3 DEF Absent
  <2>2. PICK i : i = j - Len(w)
    OBVIOUS
  <2>3. i \in DOMAIN r /\ j = Len(w) + i
    BY <1>2, <2>1, <2>2
  <2>4. z[j] = r[i]
    BY <1>1, <2>3
  <2> QED
    BY <1>3, <2>2, <2>3, <2>4
<1>4. PICK p \in DOMAIN r : BeyondAt(r, m, p) \/ \E c \in Nat : OnLine(r, m, 0, p, 0, c)
  BY DEF Holds
<1>5. PICK q : q = Len(w) + p
  OBVIOUS
<1>6. q \in DOMAIN z /\ z[q] = r[p]
  BY <1>1, <1>5
<1>7. CASE BeyondAt(r, m, p)
  <2>1. \A i \in DOMAIN r : Has(r[i], m) => i = p
    BY <1>7 DEF BeyondAt
  <2>2. \A j \in DOMAIN z : Has(z[j], m) => j = q
    <3>1. ASSUME NEW j \in DOMAIN z, Has(z[j], m) PROVE j = q
      <4>1. j - Len(w) = p
        BY <1>3, <2>1, <3>1
      <4> QED
        BY <1>2, <1>5, <4>1
    <3> QED
      BY <3>1
  <2>3. BeyondAt(z, m, q)
    BY <1>6, <1>7, <2>2 DEF BeyondAt
  <2> QED
    BY <1>6, <2>3 DEF Holds
<1>8. CASE \E c \in Nat : OnLine(r, m, 0, p, 0, c)
  <2>1. PICK c \in Nat : OnLine(r, m, 0, p, 0, c)
    BY <1>8
  <2>2. /\ p \in Nat /\ 0 \in Nat /\ 0 < p /\ 0 <= c /\ p + (c - 0) <= Len(r)
        /\ \A i \in DOMAIN r : 0 < i /\ Has(r[i], m) => p <= i /\ i <= p + (c - 0)
        /\ \A n \in 0..c : Sole(r[p + (n - 0)], m) \cap Fragment(m, n, n = c) # {}
    BY <2>1 DEF OnLine
  <2>3. q \in Nat /\ 0 < q /\ q + (c - 0) <= Len(z)
    BY <1>1, <1>2, <1>5, <2>2
  <2>4. ASSUME NEW j \in DOMAIN z, Has(z[j], m)
        PROVE  q <= j /\ j <= q + (c - 0)
    <3>1. PICK i : i = j - Len(w)
      OBVIOUS
    <3>2. i \in DOMAIN r /\ Has(r[i], m) /\ j = Len(w) + i
      BY <1>2, <1>3, <2>4, <3>1
    <3>3. p <= i /\ i <= p + (c - 0)
      BY <1>2, <2>2, <3>2
    <3> QED
      BY <1>2, <1>5, <2>2, <3>2, <3>3
  <2>5. ASSUME NEW n \in 0..c
        PROVE  Sole(z[q + (n - 0)], m) \cap Fragment(m, n, n = c) # {}
    <3>1. PICK i : i = p + (n - 0)
      OBVIOUS
    <3>2. i \in DOMAIN r /\ q + (n - 0) = Len(w) + i
      BY <1>2, <1>5, <2>2, <3>1
    <3>3. z[q + (n - 0)] = r[i]
      BY <1>1, <3>2
    <3> QED
      BY <2>2, <3>1, <3>3
  <2>6. OnLine(z, m, 0, q, 0, c)
    BY <2>2, <2>3, <2>4, <2>5 DEF OnLine
  <2> QED
    BY <1>6, <2>6 DEF Holds
<1> QED
  BY <1>4, <1>7, <1>8

-----------------------------------------------------------------------------
(* A fragment is added to a tunnel data message.                             *)
LEMMA AppendOther ==
  ASSUME NEW u \in Seq(Fragments), NEW f \in Fragments, NEW k, f.msg # k, NEW v, v = Append(u, f)
  PROVE  Sole(v, k) = Sole(u, k) /\ (Has(v, k) <=> Has(u, k))
<1>1. /\ Len(u) \in Nat /\ DOMAIN u = 1..Len(u) /\ DOMAIN v = 1..(Len(u) + 1)
      /\ \A j \in DOMAIN u : v[j] = u[j]
      /\ v[Len(u) + 1] = f
  OBVIOUS
<1>2. DOMAIN u \subseteq DOMAIN v /\ \A j \in DOMAIN v : j \in DOMAIN u \/ j = Len(u) + 1
  BY <1>1
<1>3. \A j \in DOMAIN v : v[j].msg = k <=> j \in DOMAIN u /\ u[j].msg = k
  <2>1. Len(u) + 1 \notin DOMAIN u
    BY <1>1
  <2> QED
    BY <1>1, <1>2, <2>1
<1>4. Has(v, k) <=> Has(u, k)
  BY <1>2, <1>3 DEF Has
<1>5. {i \in DOMAIN v : v[i].msg = k /\ \A j \in DOMAIN v : v[j].msg = k => j = i}
       = {i \in DOMAIN u : u[i].msg = k /\ \A j \in DOMAIN u : u[j].msg = k => j = i}
  BY <1>2, <1>3
<1>6. Sole(v, k) = Sole(u, k)
  BY <1>1, <1>5 DEF Sole
<1> QED
  BY <1>4, <1>6

LEMMA AppendOwn ==
  ASSUME NEW u \in Seq(Fragments), NEW f \in Fragments, NEW m, f.msg = m, ~Has(u, m), NEW v, v = Append(u, f)
  PROVE  f \in Sole(v, m) /\ Has(v, m)
<1>1. /\ Len(u) \in Nat /\ DOMAIN u = 1..Len(u) /\ DOMAIN v = 1..(Len(u) + 1)
      /\ \A j \in DOMAIN u : v[j] = u[j]
      /\ v[Len(u) + 1] = f
  OBVIOUS
<1>2. \A j \in DOMAIN v : j \in DOMAIN u \/ j = Len(u) + 1
  BY <1>1
<1>3. \A j \in DOMAIN v : v[j].msg = m => j = Len(u) + 1
  BY <1>1, <1>2 DEF Has
<1>4. Len(u) + 1 \in DOMAIN v
  BY <1>1
<1> QED
  BY <1>1, <1>3, <1>4 DEF Sole, Has

LEMMA OneFragment ==
  ASSUME NEW f \in Fragments, NEW m, f.msg = m
  PROVE  f \in Sole(<<f>>, m) /\ \A k : k # m => ~Has(<<f>>, k)
<1>1. DOMAIN <<f>> = {1} /\ <<f>>[1] = f
  OBVIOUS
<1> QED
  BY <1>1 DEF Sole, Has

(* What putting m does to the rows of a buffer that has an open one: one more *)
(* fragment in that, and c rows of one fragment each behind it.               *)
Rows(R, R2, m, c, fr) ==
  /\ IsLine(R) /\ IsLine(R2) /\ Len(R) # 0 /\ c \in Nat /\ Len(R2) = Len(R) + c
  /\ R[Len(R)] \in Seq(Fragments)
  /\ \A j \in DOMAIN R : j < Len(R) => R2[j] = R[j]
  /\ R2[Len(R)] = Append(R[Len(R)], fr[0])
  /\ \A j \in 1..c : R2[Len(R) + j] = <<fr[j]>>
  /\ \A j \in 0..c : fr[j] \in Fragments /\ fr[j].msg = m
Whole(fr, m, c) ==
  \/ \A j \in 0..c : fr[j] \in Fragment(m, j, j = c)
  \/ c = 0 /\ fr[0].num = 0 /\ ~fr[0].last /\ fr[0].size >= MsgLen[m]

LEMMA RowsKeep ==
  ASSUME NEW R, NEW R2, NEW m, NEW c, NEW fr, Rows(R, R2, m, c, fr), NEW k, k # m
  PROVE  Keeps(R, R2, k)
<1>1. /\ Len(R) \in Nat /\ DOMAIN R = 1..Len(R) /\ DOMAIN R2 = 1..(Len(R) + c)
      /\ Len(R) # 0 /\ c \in Nat /\ IsLine(R) /\ IsLine(R2) /\ Len(R2) = Len(R) + c
  BY DEF Rows, IsLine
<1>2. ASSUME NEW j \in DOMAIN R
      PROVE  Sole(R2[j], k) = Sole(R[j], k) /\ (Has(R2[j], k) <=> Has(R[j], k))
  <2>1. CASE j = Len(R)
    <3>1. /\ R[j] \in Seq(Fragments) /\ R2[j] = Append(R[j], fr[0])
          /\ fr[0] \in Fragments /\ fr[0].msg # k
      <4>1. 0 \in 0..c
        BY <1>1
      <4> QED
        BY <2>1, <4>1 DEF Rows
    <3> QED
      BY <3>1, AppendOther, Zenon
  <2>2. CASE j # Len(R)
    <3>1. j < Len(R)
      BY <1>1, <2>2
    <3>2. R2[j] = R[j]
      BY <3>1 DEF Rows
    <3> QED
      BY <3>2
  <2> QED
    BY <2>1, <2>2
<1>3. ASSUME NEW j \in DOMAIN R2, Len(R) < j
      PROVE  ~Has(R2[j], k)
  <2>1. PICK i : i = j - Len(R)
    OBVIOUS
  <2>2. i \in 1..c /\ j = Len(R) + i
    BY <1>1, <1>3, <2>1
  <2>3. R2[j] = <<fr[i]>> /\ fr[i] \in Fragments /\ fr[i].msg = m
    <3>1. i \in 0..c
      BY <1>1, <2>2
    <3> QED
      BY <2>2, <3>1 DEF Rows
  <2> QED
    BY <2>3, OneFragment, Zenon
<1>4. Len(R) <= Len(R2)
  BY <1>1
<1> QED
  BY <1>1, <1>2, <1>3, <1>4 DEF Keeps

LEMMA RowsHold ==
  ASSUME NEW R, NEW R2, NEW m, NEW c, NEW fr, Rows(R, R2, m, c, fr), Whole(fr, m, c), Absent(R, m)
  PROVE  Holds(R2, m)
<1>1. /\ Len(R) \in Nat /\ DOMAIN R = 1..Len(R) /\ DOMAIN R2 = 1..(Len(R) + c)
      /\ Len(R) # 0 /\ c \in Nat /\ Len(R2) = Len(R) + c
  BY DEF Rows, IsLine
<1>2. PICK n : n = Len(R)
  OBVIOUS
<1>3. n \in DOMAIN R /\ n \in DOMAIN R2 /\ n \in Nat /\ n > 0
  BY <1>1, <1>2
<1>4. fr[0] \in Sole(R2[n], m)
  <2>1. 0 \in 0..c
    BY <1>1
  <2>2. /\ R[n] \in Seq(Fragments) /\ R2[n] = Append(R[n], fr[0])
        /\ fr[0] \in Fragments /\ fr[0].msg = m
    BY <1>2, <2>1 DEF Rows
  <2>3. ~Has(R[n], m)
    BY <1>3 DEF Absent
  <2> QED
    BY <2>2, <2>3, AppendOwn, Zenon
<1>5. ASSUME NEW j \in 0..c
      PROVE  fr[j] \in Sole(R2[n + j], m)
  <2>1. CASE j = 0
    <3>1. n + j = n
      BY <1>3, <2>1
    <3> QED
      BY <1>4, <2>1, <3>1
  <2>2. CASE j # 0
    <3>1. j \in 1..c
      BY <1>1, <2>2
    <3>2. R2[n + j] = <<fr[j]>> /\ fr[j] \in Fragments /\ fr[j].msg = m
      BY <1>2, <3>1 DEF Rows
    <3> QED
      BY <3>2, OneFragment, Zenon
  <2> QED
    BY <2>1, <2>2
<1>6. ASSUME NEW j \in DOMAIN R2, Has(R2[j], m)
      PROVE  n <= j
  <2>1. SUFFICES ASSUME j < n PROVE FALSE
    BY <1>1, <1>3
  <2>2. j \in DOMAIN R
    BY <1>1, <1>2, <2>1
  <2>3. R2[j] = R[j]
    BY <1>2, <2>1, <2>2 DEF Rows
  <2> QED
    BY <1>6, <2>2, <2>3 DEF Absent
<1>7. CASE \A j \in 0..c : fr[j] \in Fragment(m, j, j = c)
  <2>1. \A j \in 0..c : Sole(R2[n + (j - 0)], m) \cap Fragment(m, j, j = c) # {}
    <3>1. SUFFICES ASSUME NEW j \in 0..c PROVE Sole(R2[n + (j - 0)], m) \cap Fragment(m, j, j = c) # {}
      OBVIOUS
    <3>2. n + (j - 0) = n + j
      BY <1>1, <1>3
    <3>3. fr[j] \in Sole(R2[n + j], m) /\ fr[j] \in Fragment(m, j, j = c)
      BY <1>5, <1>7
    <3> QED
      BY <3>2, <3>3
  <2>2. \A j \in DOMAIN R2 : 0 < j /\ Has(R2[j], m) => n <= j /\ j <= n + (c - 0)
    BY <1>1, <1>2, <1>3, <1>6
  <2>3. n \in Nat /\ 0 \in Nat /\ c \in Nat /\ 0 < n /\ 0 <= c /\ n + (c - 0) <= Len(R2)
    BY <1>1, <1>2, <1>3
  <2>4. OnLine(R2, m, 0, n, 0, c)
    BY <2>1, <2>2, <2>3 DEF OnLine
  <2> QED
    BY <1>1, <1>3, <2>4 DEF Holds
<1>8. CASE c = 0 /\ fr[0].num = 0 /\ ~fr[0].last /\ fr[0].size >= MsgLen[m]
  <2>1. \A i \in DOMAIN R2 : Has(R2[i], m) => i = n
    <3>1. \A i \in DOMAIN R2 : n <= i => i = n
      BY <1>1, <1>2, <1>8
    <3> QED
      BY <1>6, <3>1
  <2>2. BeyondAt(R2, m, n)
    BY <1>3, <1>4, <1>8, <2>1 DEF BeyondAt
  <2> QED
    BY <1>3, <2>2 DEF Holds
<1> QED
  BY <1>7, <1>8 DEF Whole

LEMMA RowsPut ==
  ASSUME NEW R, NEW R2, NEW m, NEW c, NEW fr, Rows(R, R2, m, c, fr), Whole(fr, m, c)
  PROVE  PutsWell(R, R2, m)
<1>1. \A k : k # m => Keeps(R, R2, k)
  BY RowsKeep
<1>2. Absent(R, m) => Holds(R2, m)
  BY RowsHold
<1> QED
  BY <1>1, <1>2, Zenon DEF PutsWell

-----------------------------------------------------------------------------
(* The rows of a buffer whose open message is completed, or that opens one.   *)
Bins == Seq(Fragments)
Empty == Seq(Bins)

LEMMA BufferParts ==
  ASSUME NEW g \in Buffers(Fragments)
  PROVE  /\ g \in BuffersOf(Bins, Int, Empty)
         /\ g.open \in BOOLEAN /\ g.current \in Bins /\ g.complete \in Empty /\ g.room \in Int
<1>1. g \in BuffersOf(Bins, Int, Empty)
  BY Zenon DEF Buffers, Bins, Empty
<1> QED
  BY <1>1 DEF BuffersOf

LEMMA CompletedRows ==
  ASSUME NEW g \in Buffers(Fragments), NEW h, h = CompleteCurrentTunnelDataMessage(g)
  PROVE  ~h.open /\ h.complete = Unsent(g) /\ Unsent(h) = Unsent(g)
<1>1. /\ g \in BuffersOf(Bins, Int, Empty)
      /\ g.open \in BOOLEAN /\ g.current \in Bins /\ g.complete \in Empty
  BY BufferParts
<1>2. CASE ~g.open
  <2>1. h = g
    BY <1>2, Zenon DEF CompleteCurrentTunnelDataMessage
  <2> QED
    BY <1>2, <2>1, Zenon DEF Unsent
<1>3. CASE g.open
  <2>1. PICK a : a = <<>> /\ a \in Bins
    <3>1. <<>> \in Bins
      BY DEF Bins
    <3> QED
      BY <3>1, Zenon
  <2>2. PICK b : b = Append(g.complete, g.current)
    OBVIOUS
  <2>3. b \in Empty
    <3>1. PICK S, x, y : S = Bins /\ x = g.complete /\ y = g.current
      OBVIOUS
    <3>2. x \in Seq(S) /\ y \in S
      BY <1>1, <3>1, Zenon DEF Empty
    <3>3. Append(x, y) \in Seq(S)
      BY <3>2
    <3> QED
      BY <2>2, <3>1, <3>3, Zenon DEF Empty
  <2>4. h = [g EXCEPT !.open = FALSE, !.current = a, !.complete = b]
    BY <1>3, <2>1, <2>2, Zenon DEF CompleteCurrentTunnelDataMessage
  <2>5. ~h.open /\ h.complete = b
    BY <1>1, <2>1, <2>3, <2>4 DEF BuffersOf
  <2>6. Unsent(g) = b /\ Unsent(h) = b
    BY <1>3, <2>2, <2>5, Zenon DEF Unsent
  <2> QED
    BY <2>5, <2>6, Zenon
<1> QED
  BY <1>2, <1>3

LEMMA CreatedRows ==
  ASSUME NEW g \in Buffers(Fragments), NEW h, h = CreateCurrentTunnelDataMessage(g)
  PROVE  h.open /\ h.complete = g.complete /\ h.current = <<>> /\ Unsent(h) = Append(g.complete, <<>>)
<1>1. PICK a : a = <<>> /\ a \in Bins
  <2>1. <<>> \in Bins
    BY DEF Bins
  <2> QED
    BY <2>1, Zenon
<1>2. PICK n : n = 1003
  OBVIOUS
<1>3. n \in Int
  BY <1>2
<1>4. g \in BuffersOf(Bins, Int, Empty)
  BY BufferParts
<1>5. h = [g EXCEPT !.open = TRUE, !.current = a, !.room = n]
  BY <1>1, <1>2, Zenon DEF CreateCurrentTunnelDataMessage, TUNNEL_DATA_MAX_PAYLOAD_SIZE
<1>6. h.open /\ h.complete = g.complete /\ h.current = a
  BY <1>1, <1>3, <1>4, <1>5 DEF BuffersOf
<1> QED
  BY <1>1, <1>6, Zenon DEF Unsent

LEMMA AddedRows ==
  ASSUME NEW g \in Buffers(Fragments), g.open, NEW f \in Fragments, NEW length \in Int
  PROVE  Unsent(Added(g, f, length)) = Append(g.complete, Append(g.current, f))
<1>1. /\ g \in BuffersOf(Bins, Int, Empty)
      /\ g.open \in BOOLEAN /\ g.current \in Bins /\ g.complete \in Empty /\ g.room \in Int
  BY BufferParts
<1>2. PICK c, n : c = Append(g.current, f) /\ n = g.room - length
  OBVIOUS
<1>3. c \in Bins /\ n \in Int
  BY <1>1, <1>2 DEF Bins
<1>4. PICK h : h = [g EXCEPT !.current = c, !.room = n]
  OBVIOUS
<1>5. h \in Buffers(Fragments)
  BY <1>1, <1>3, <1>4, BufferFilled, Zenon DEF Buffers, Bins, Empty
<1>6. h.open = g.open /\ h.complete = g.complete /\ h.current = c
  BY <1>1, <1>3, <1>4 DEF BuffersOf
<1>7. h = [g EXCEPT !.current = Append(@, f), !.room = @ - length]
  BY <1>2, <1>4, Zenon
<1>8. Added(g, f, length) = IF h.room = 0 THEN CompleteCurrentTunnelDataMessage(h) ELSE h
  BY <1>7, Zenon DEF Added
<1>9. Unsent(h) = Append(g.complete, c)
  BY <1>6, Zenon DEF Unsent
<1>10. Unsent(CompleteCurrentTunnelDataMessage(h)) = Unsent(h)
  BY <1>5, CompletedRows
<1> QED
  BY <1>2, <1>8, <1>9, <1>10, Zenon

LEMMA EmptyRow ==
  ASSUME NEW R \in Empty, NEW k
  PROVE  Keeps(R, Append(R, <<>>), k)
<1>1. PICK S, x : S = Bins /\ x = <<>>
  OBVIOUS
<1>2. x \in S /\ ~Has(x, k)
  BY <1>1 DEF Bins, Has
<1>3. PICK R2 : R2 = Append(R, x)
  OBVIOUS
<1>4. R \in Seq(S)
  BY <1>1, Zenon DEF Empty
<1>5. /\ Len(R) \in Nat /\ IsLine(R) /\ IsLine(R2) /\ Len(R2) = Len(R) + 1 /\ R2[Len(R2)] = x
      /\ \A j \in DOMAIN R : j \in DOMAIN R2 /\ R2[j] = R[j]
  BY <1>2, <1>3, <1>4 DEF IsLine
<1>6. \A j \in DOMAIN R2 : Len(R) < j => j = Len(R2)
  BY <1>5 DEF IsLine
<1>7. Keeps(R, R2, k)
  BY <1>2, <1>5, <1>6 DEF Keeps
<1> QED
  BY <1>1, <1>3, <1>7, Zenon

-----------------------------------------------------------------------------
(* The rows that a message is put into: the last row x goes on with its first *)
(* fragment, and each other fragment makes a row.                            *)
Grown(b, x, R2, m, c, fr) ==
  /\ \A j \in 0..c : fr[j] \in Fragments /\ fr[j].msg = m
  /\ IsLine(R2) /\ Len(R2) = Len(b) + 1 + c /\ \A j \in DOMAIN b : R2[j] = b[j]
  /\ R2[Len(b) + 1] = Append(x, fr[0]) /\ \A j \in 1..c : R2[Len(b) + 1 + j] = <<fr[j]>>

LEMMA RowsMade ==
  ASSUME NEW b \in Empty, NEW x \in Bins, NEW m, NEW c \in Nat, NEW fr, NEW R2, Grown(b, x, R2, m, c, fr)
  PROVE  Rows(Append(b, x), R2, m, c, fr)
<1>0. PICK R : R = Append(b, x)
  OBVIOUS
<1>g. /\ \A j \in 0..c : fr[j] \in Fragments /\ fr[j].msg = m
      /\ IsLine(R2) /\ Len(R2) = Len(b) + 1 + c /\ \A j \in DOMAIN b : R2[j] = b[j]
      /\ R2[Len(b) + 1] = Append(x, fr[0]) /\ \A j \in 1..c : R2[Len(b) + 1 + j] = <<fr[j]>>
  BY DEF Grown
<1>1. PICK S : S = Bins
  OBVIOUS
<1>2. b \in Seq(S) /\ x \in S
  BY <1>1, Zenon DEF Empty
<1>3. /\ Len(b) \in Nat /\ IsLine(R) /\ Len(R) = Len(b) + 1 /\ R[Len(R)] = x
      /\ \A j \in DOMAIN R : j < Len(R) => j \in DOMAIN b /\ R[j] = b[j]
  BY <1>0, <1>2 DEF IsLine
<1>4. x \in Seq(Fragments)
  BY Zenon DEF Bins
<1>5. /\ Len(R) # 0 /\ Len(R2) = Len(R) + c
      /\ \A j \in DOMAIN R : j < Len(R) => R2[j] = R[j]
  BY <1>3, <1>g
<1>6. R2[Len(R)] = Append(R[Len(R)], fr[0]) /\ R[Len(R)] \in Seq(Fragments)
  BY <1>3, <1>4, <1>g
<1>7. \A j \in 1..c : R2[Len(R) + j] = <<fr[j]>>
  BY <1>3, <1>g
<1>8. Rows(R, R2, m, c, fr)
  BY <1>3, <1>5, <1>6, <1>7, <1>g, Zenon DEF Rows
<1> QED
  BY <1>0, <1>8, Zenon

LEMMA RowGrown ==
  ASSUME NEW b \in Empty, NEW x \in Bins, NEW f \in Fragments, NEW m, f.msg = m,
         f \in Fragment(m, 0, TRUE) \/ (f.num = 0 /\ ~f.last /\ f.size >= MsgLen[m])
  PROVE  PutsWell(Append(b, x), Append(b, Append(x, f)), m)
<1>1. PICK y : y = Append(x, f)
  OBVIOUS
<1>2. y \in Bins
  BY <1>1 DEF Bins
<1>3. PICK S : S = Bins
  OBVIOUS
<1>4. b \in Seq(S) /\ y \in S
  BY <1>2, <1>3, Zenon DEF Empty
<1>5. PICK R2 : R2 = Append(b, y)
  OBVIOUS
<1>6. IsLine(R2) /\ Len(R2) = Len(b) + 1 /\ Len(b) \in Nat /\ (\A j \in DOMAIN b : R2[j] = b[j]) /\ R2[Len(b) + 1] = y
  BY <1>4, <1>5 DEF IsLine
<1>7. PICK fr : fr = [j \in 0..0 |-> f]
  OBVIOUS
<1>8. fr[0] = f /\ (\A j \in 0..0 : fr[j] = f) /\ \A j \in 0..0 : j = 0
  BY <1>7
<1>9. Len(R2) = Len(b) + 1 + 0 /\ 0 \in Nat /\ \A j \in 1..0 : FALSE
  BY <1>6
<1>10. Rows(Append(b, x), R2, m, 0, fr)
  <2>1. \A j \in 0..0 : fr[j] \in Fragments /\ fr[j].msg = m
    BY <1>8
  <2>2. \A j \in 1..0 : R2[Len(b) + 1 + j] = <<fr[j]>>
    BY <1>9
  <2>3. R2[Len(b) + 1] = Append(x, fr[0])
    BY <1>1, <1>6, <1>8
  <2>4. Grown(b, x, R2, m, 0, fr)
    BY <1>6, <1>9, <2>1, <2>2, <2>3, Zenon DEF Grown
  <2> QED
    BY <1>9, <2>4, RowsMade, Zenon
<1>11. Whole(fr, m, 0)
  <2>1. CASE f \in Fragment(m, 0, TRUE)
    <3>1. \A j \in 0..0 : fr[j] \in Fragment(m, j, j = 0)
      BY <1>8, <2>1 DEF Fragment
    <3> QED
      BY <3>1 DEF Whole
  <2>2. CASE f.num = 0 /\ ~f.last /\ f.size >= MsgLen[m]
    BY <1>8, <2>2 DEF Whole
  <2> QED
    BY <2>1, <2>2
<1>12. PutsWell(Append(b, x), R2, m)
  BY <1>10, <1>11, RowsPut, Zenon
<1> QED
  BY <1>1, <1>5, <1>12, Zenon

LEMMA PutWholeWell ==
  ASSUME NEW m \in I2NPMsgs, NEW g \in Buffers(Fragments), g.open
  PROVE  PutsWell(Unsent(g), Unsent(PutWhole(g, m)), m)
<1>1. PICK f : f = [msg |-> m, num |-> 0, from |-> 0, size |-> MsgLen[m], last |-> TRUE]
  OBVIOUS
<1>2. f \in Fragments /\ f.msg = m /\ f \in Fragment(m, 0, TRUE)
  BY <1>1, Lengths DEF Fragments, Fragment
<1>3. FullMsgLen(m) \in Int
  BY Lengths
<1>4. PutWhole(g, m) = Added(g, f, FullMsgLen(m))
  BY <1>1 DEF PutWhole
<1>5. Unsent(PutWhole(g, m)) = Append(g.complete, Append(g.current, f))
  BY <1>2, <1>3, <1>4, AddedRows, Zenon
<1>6. Unsent(g) = Append(g.complete, g.current)
  BY DEF Unsent
<1>7. g.complete \in Empty /\ g.current \in Bins
  BY BufferParts
<1>8. PutsWell(Append(g.complete, g.current), Append(g.complete, Append(g.current, f)), m)
  BY <1>2, <1>7, RowGrown, Zenon
<1> QED
  BY <1>5, <1>6, <1>8, Zenon

(* Follow-on fragment n of count, behind s bytes, when rest bytes are left.   *)
FollowOnMade(f, m, s, rest, count, n, x, z, l) ==
  /\ x = s + (n - 1) * 996 /\ z = IF n = count THEN rest - (n - 1) * 996 ELSE 996
  /\ l \in BOOLEAN /\ (l <=> n = count)
  /\ f = [msg |-> m, num |-> n, from |-> x, size |-> z, last |-> l]

LEMMA FragmentMiddle ==
  ASSUME NEW m \in I2NPMsgs, NEW s \in Nat, NEW rest \in Nat, rest = MsgLen[m] - s, NEW count \in Nat \ {0},
         (count - 1) * 996 < rest, NEW n \in 1..count, NEW f, NEW x, NEW z, NEW l,
         FollowOnMade(f, m, s, rest, count, n, x, z, l)
  PROVE  f \in Fragment(m, n, n = count) /\ f.size + 7 \in Int
<1>1. MsgLen[m] \in Nat
  BY Lengths
<1>2. /\ x = s + (n - 1) * 996 /\ z = IF n = count THEN rest - (n - 1) * 996 ELSE 996
      /\ l \in BOOLEAN /\ (l <=> n = count)
      /\ f = [msg |-> m, num |-> n, from |-> x, size |-> z, last |-> l]
  BY Zenon DEF FollowOnMade
<1>3. x \in Int /\ z \in Int /\ n \in Nat /\ x + z <= MsgLen[m]
  BY <1>1, <1>2
<1>4. f \in Fragments /\ f.msg = m /\ f.num = n /\ f.from = x /\ f.size = z /\ f.last = l
  BY <1>2, <1>3 DEF Fragments
<1>5. f.from + f.size <= MsgLen[m] /\ f.size + 7 \in Int
  BY <1>3, <1>4
<1>6. f.last = (n = count)
  BY <1>2, <1>4
<1> QED
  BY <1>4, <1>5, <1>6 DEF Fragment

Longer(b, x, R) ==
  /\ IsLine(b) /\ IsLine(R) /\ Len(R) = Len(b) + 1 /\ R[Len(b) + 1] = x
  /\ \A j \in DOMAIN b : j \in DOMAIN R /\ R[j] = b[j]
LEMMA OneLonger ==
  ASSUME NEW S, NEW b \in Seq(S), NEW x \in S
  PROVE  Longer(b, x, Append(b, x))
BY DEF Longer, IsLine

(* The rows of a message that is cut into count follow-on fragments.         *)
LEMMA RowsCut ==
  ASSUME NEW b \in Empty, NEW x \in Bins, NEW count \in Nat \ {0}, NEW first \in Fragments, NEW m, first.msg = m,
         first \in Fragment(m, 0, FALSE), NEW k, DOMAIN k = 1..(count - 1), NEW nx,
         \A n \in 1..count : nx[n] \in Fragment(m, n, n = count), \A n \in 1..(count - 1) : k[n] = <<nx[n]>>,
         NEW y, y = Append(Append(b, Append(x, first)) \o k, <<nx[count]>>), k \in Empty
  PROVE  PutsWell(Append(b, x), y, m)
<1>1. PICK S, v : S = Bins /\ v = Append(x, first)
  OBVIOUS
<1>2. v \in Bins /\ \A n \in 1..count : nx[n] \in Fragments /\ nx[n].msg = m /\ <<nx[n]>> \in Bins
  BY <1>1 DEF Bins, Fragment
<1>3. PICK u : u = <<nx[count]>>
  OBVIOUS
<1>4. u \in S /\ v \in S /\ b \in Seq(S) /\ k \in Seq(S)
  <2>1. u \in Bins
    BY <1>2, <1>3
  <2> QED
    BY <1>1, <1>2, <2>1, Zenon DEF Empty
<1>5. PICK b2 : b2 = Append(b, v)
  OBVIOUS
<1>6. b2 \in Seq(S) /\ IsLine(b2) /\ Len(b2) = Len(b) + 1 /\ Len(b) \in Nat /\ DOMAIN b = 1..Len(b)
      /\ (\A j \in DOMAIN b : j \in DOMAIN b2 /\ b2[j] = b[j]) /\ b2[Len(b) + 1] = v
  BY <1>4, <1>5 DEF IsLine
<1>7. Len(k) = count - 1
  BY <1>4
<1>8. PICK b3 : b3 = b2 \o k
  OBVIOUS
<1>9. b3 \in Seq(S) /\ PlacesOf(b2, k, b3)
  BY <1>4, <1>6, <1>8, Places
<1>10. /\ Len(b3) = Len(b) + count /\ IsLine(b3)
       /\ \A j \in DOMAIN b2 : j \in DOMAIN b3 /\ b3[j] = b2[j]
       /\ \A j \in DOMAIN k : Len(b2) + j \in DOMAIN b3 /\ b3[Len(b2) + j] = k[j]
  BY <1>6, <1>7, <1>9 DEF PlacesOf
<1>11. y = Append(b3, u)
  BY <1>1, <1>3, <1>5, <1>8, Zenon
<1>12. /\ IsLine(y) /\ Len(y) = Len(b3) + 1 /\ (\A j \in DOMAIN b3 : y[j] = b3[j]) /\ y[Len(b3) + 1] = u
  <2>1. Longer(b3, u, Append(b3, u))
    BY <1>4, <1>9, OneLonger
  <2>2. Longer(b3, u, y)
    BY <1>11, <2>1, Zenon
  <2> QED
    BY <2>2 DEF Longer
<1>13. PICK fr : fr = [j \in 0..count |-> IF j = 0 THEN first ELSE nx[j]]
  OBVIOUS
<1>14. fr[0] = first /\ \A j \in 1..count : fr[j] = nx[j]
  BY <1>13
<1>15. \A j \in 0..count : j = 0 \/ j \in 1..count
  OBVIOUS
<1>16. \A j \in DOMAIN b : y[j] = b[j]
  BY <1>6, <1>10, <1>12
<1>17. y[Len(b) + 1] = Append(x, fr[0])
  <2>1. Len(b) + 1 \in DOMAIN b2
    BY <1>6 DEF IsLine
  <2> QED
    BY <1>1, <1>6, <1>10, <1>12, <1>14, <2>1
<1>18. ASSUME NEW j \in 1..count
       PROVE  y[Len(b) + 1 + j] = <<fr[j]>>
  <2>1. CASE j = count
    <3>1. Len(b) + 1 + j = Len(b3) + 1
      BY <1>6, <1>10, <2>1
    <3>2. fr[j] = nx[count]
      BY <1>14, <2>1
    <3> QED
      BY <1>3, <1>12, <3>1, <3>2
  <2>2. CASE j # count
    <3>1. j \in DOMAIN k /\ j \in 1..(count - 1)
      BY <2>2
    <3>2. y[Len(b2) + j] = k[j]
      BY <1>10, <1>12, <3>1
    <3>3. fr[j] = nx[j] /\ k[j] = <<nx[j]>>
      BY <1>14, <3>1
    <3> QED
      BY <1>6, <3>2, <3>3
  <2> QED
    BY <2>1, <2>2
<1>19. Len(y) = Len(b) + 1 + count
  BY <1>6, <1>10, <1>12
<1>20. \A j \in 0..count : fr[j] \in Fragments /\ fr[j].msg = m
  BY <1>2, <1>14, <1>15
<1>21. Rows(Append(b, x), y, m, count, fr)
  <2>1. count \in Nat
    OBVIOUS
  <2>2. IsLine(y)
    BY <1>12
  <2>3. \A j \in 1..count : y[Len(b) + 1 + j] = <<fr[j]>>
    BY <1>18, Zenon
  <2>4. Grown(b, x, y, m, count, fr)
    BY <1>16, <1>17, <1>19, <1>20, <2>2, <2>3, Zenon DEF Grown
  <2> QED
    BY <2>1, <2>4, RowsMade, Zenon
<1>22. Whole(fr, m, count)
  <2>1. ASSUME NEW j \in 0..count
        PROVE  fr[j] \in Fragment(m, j, j = count)
    <3>1. CASE j = 0
      <4>1. 0 # count
        OBVIOUS
      <4>2. fr[j] = first
        BY <1>14, <3>1
      <4> QED
        BY <3>1, <4>1, <4>2 DEF Fragment
    <3>2. CASE j \in 1..count
      BY <1>14, <3>2
    <3> QED
      BY <1>15, <3>1, <3>2
  <2> QED
    BY <2>1 DEF Whole
<1> QED
  BY <1>21, <1>22, RowsPut, Zenon

LEMMA PutFragmentsWell ==
  ASSUME NEW m \in I2NPMsgs, NEW g \in Buffers(Fragments), g.open, DiLen(m) + 6 <= g.room
  PROVE  PutsWell(Unsent(g), Unsent(PutFragments(g, m)), m)
<1>1. g.complete \in Empty /\ g.current \in Bins /\ g.room \in Int
  BY BufferParts
<1>2. PICK s, rest : s = g.room - DiLen(m) - 6 /\ rest = MsgLen[m] - s
  OBVIOUS
<1>3. s \in Nat /\ rest \in Int /\ MsgLen[m] \in Nat
  <2>1. DiLen(m) \in Nat /\ MsgLen[m] \in Nat
    BY Lengths
  <2> QED
    BY <1>1, <1>2, <2>1
<1>4. PICK first : first = [msg |-> m, num |-> 0, from |-> 0, size |-> s, last |-> FALSE]
  OBVIOUS
<1>5. first \in Fragments /\ first.msg = m /\ first.num = 0 /\ first.from = 0 /\ first.size = s /\ ~first.last
  BY <1>3, <1>4 DEF Fragments
<1>6. PICK c : c = Append(g.current, first)
  OBVIOUS
<1>7. c \in Bins
  BY <1>1, <1>5, <1>6 DEF Bins
<1>8. PICK h : h = [g EXCEPT !.current = c]
  OBVIOUS
<1>9. h \in Buffers(Fragments)
  BY <1>7, <1>8, BufferCurrent, Zenon DEF Buffers, Bins
<1>10. h.open = g.open /\ h.complete = g.complete /\ h.current = c
  <2>1. g \in BuffersOf(Bins, Int, Empty)
    BY BufferParts
  <2> QED
    BY <1>7, <1>8, <2>1 DEF BuffersOf
<1>11. PICK filled : filled = CompleteCurrentTunnelDataMessage(h)
  OBVIOUS
<1>12. filled \in Buffers(Fragments) /\ ~filled.open /\ filled.complete = Append(g.complete, c) /\ Unsent(filled) = Append(g.complete, c)
  <2>1. Unsent(h) = Append(g.complete, c)
    BY <1>10, Zenon DEF Unsent
  <2>2. filled \in Buffers(Fragments)
    BY <1>9, <1>11, CompleteKeeps
  <2>3. ~filled.open /\ filled.complete = Unsent(h) /\ Unsent(filled) = Unsent(h)
    BY <1>9, <1>11, CompletedRows
  <2> QED
    BY <2>1, <2>2, <2>3, Zenon
<1> DEFINE size == g.room - DiLen(m) - 6
           most == TUNNEL_DATA_MAX_PAYLOAD_SIZE - 7
           left == MsgLen[m] - size
           many == (left + most - 1) \div most
           Next1(n) == [msg |-> m, num |-> n, from |-> size + (n - 1) * most,
                        size |-> IF n = many THEN left - (n - 1) * most ELSE most,
                        last |-> n = many]
           full == CompleteCurrentTunnelDataMessage(
                     [g EXCEPT !.current = Append(@, [msg |-> m, num |-> 0, from |-> 0,
                                                       size |-> size, last |-> FALSE])])
<1>13. PutFragments(g, m)
         = IF left <= 0 THEN full
           ELSE Added(CreateCurrentTunnelDataMessage(
                        [full EXCEPT !.complete = @ \o [n \in 1..(many - 1) |-> <<Next1(n)>>]]),
                      Next1(many), Next1(many).size + 7)
  BY Zenon DEF PutFragments
<1>14. size = s /\ left = rest /\ most = 996
  BY <1>2 DEF TUNNEL_DATA_MAX_PAYLOAD_SIZE
<1>15. full = filled
  <2> HIDE DEF size
  <2> QED
    BY <1>4, <1>6, <1>8, <1>11, <1>14, Zenon
<1>16. Unsent(g) = Append(g.complete, g.current)
  BY Zenon DEF Unsent
<1> HIDE DEF size, most, left, full
<1>17. CASE rest <= 0
  <2>1. PutFragments(g, m) = filled
    BY <1>13, <1>14, <1>15, <1>17
  <2>2. first.size >= MsgLen[m]
    BY <1>2, <1>3, <1>5, <1>17
  <2>3. PutsWell(Append(g.complete, g.current), Append(g.complete, Append(g.current, first)), m)
    BY <1>1, <1>5, <2>2, RowGrown, Zenon
  <2> QED
    BY <1>6, <1>12, <1>16, <2>1, <2>3, Zenon
<1>18. CASE rest > 0
  <2>1. PICK count : count = (rest + 995) \div 996
    OBVIOUS
  <2>2. count \in Nat \ {0} /\ (count - 1) * 996 < rest /\ rest \in Nat
    BY <1>3, <1>18, <2>1
  <2>3. many = count
    BY <1>3, <1>14, <2>1
  <2> HIDE DEF many
  <2>4. \A n \in 1..count : Next1(n) \in Fragment(m, n, n = count) /\ Next1(n).size + 7 \in Int
    <3>1. SUFFICES ASSUME NEW n \in 1..count
                   PROVE  Next1(n) \in Fragment(m, n, n = count) /\ Next1(n).size + 7 \in Int
      OBVIOUS
    <3>2. PICK x, z, l : /\ x = size + (n - 1) * most /\ z = IF n = many THEN left - (n - 1) * most ELSE most
                         /\ l = (n = many)
      OBVIOUS
    <3>3. Next1(n) = [msg |-> m, num |-> n, from |-> x, size |-> z, last |-> l]
      BY <3>2, Zenon
    <3>4. x = s + (n - 1) * 996 /\ z = IF n = count THEN rest - (n - 1) * 996 ELSE 996
      BY <1>14, <2>3, <3>2
    <3>5. l \in BOOLEAN /\ (l <=> n = count)
      BY <2>3, <3>2
    <3> HIDE DEF Next1
    <3>6. FollowOnMade(Next1(n), m, s, rest, count, n, x, z, l)
      BY <3>3, <3>4, <3>5, Zenon DEF FollowOnMade
    <3> QED
      BY <1>2, <1>3, <2>2, <3>6, FragmentMiddle
  <2> HIDE DEF Next1
  <2>5. PICK middle : middle = [n \in 1..(many - 1) |-> <<Next1(n)>>]
    OBVIOUS
  <2>6. middle \in Empty /\ DOMAIN middle = 1..(count - 1) /\ \A n \in 1..(count - 1) : middle[n] = <<Next1(n)>>
    <3>1. \A n \in 1..(count - 1) : <<Next1(n)>> \in Bins
      <4>1. \A n \in 1..(count - 1) : n \in 1..count
        BY <2>2
      <4>2. \A n \in 1..(count - 1) : Next1(n) \in Fragments
        BY <2>4, <4>1 DEF Fragment
      <4> QED
        BY <4>2 DEF Bins
    <3>2. count - 1 \in Nat
      BY <2>2
    <3>3. middle \in [1..(count - 1) -> Bins] /\ DOMAIN middle = 1..(count - 1) /\ \A n \in 1..(count - 1) : middle[n] = <<Next1(n)>>
      BY <2>3, <2>5, <3>1
    <3>4. middle \in Seq(Bins)
      BY <3>2, <3>3
    <3> QED
      BY <3>3, <3>4, Zenon DEF Empty
  <2>7. PICK k : k = filled.complete \o middle
    OBVIOUS
  <2>8. k \in Empty
    <3>1. PICK S, a : S = Bins /\ a = filled.complete
      OBVIOUS
    <3>2. a \in Seq(S) /\ middle \in Seq(S)
      BY <1>12, <2>6, <3>1, BufferParts, Zenon DEF Empty
    <3>3. a \o middle \in Seq(S)
      BY <3>2
    <3> QED
      BY <2>7, <3>1, <3>3, Zenon DEF Empty
  <2>9. PICK x : x = [filled EXCEPT !.complete = k]
    OBVIOUS
  <2>10. x \in Buffers(Fragments)
    BY <1>12, <2>8, <2>9, BufferComplete, Zenon DEF Buffers, Empty, Bins
  <2>11. x.complete = k
    <3>1. filled \in BuffersOf(Bins, Int, Empty)
      BY <1>12, BufferParts
    <3> QED
      BY <2>8, <2>9, <3>1 DEF BuffersOf
  <2>12. PICK y : y = CreateCurrentTunnelDataMessage(x)
    OBVIOUS
  <2>13. y \in Buffers(Fragments) /\ y.open /\ y.complete = k /\ y.current = <<>>
    <3>1. y \in Buffers(Fragments)
      BY <2>10, <2>12, CompleteKeeps
    <3>2. y.open /\ y.complete = x.complete /\ y.current = <<>>
      BY <2>10, <2>12, CreatedRows
    <3> QED
      BY <2>11, <3>1, <3>2, Zenon
  <2>14. PICK f : f = Next1(many)
    OBVIOUS
  <2>15. f \in Fragments /\ f.size + 7 \in Int
    <3>1. count \in 1..count
      BY <2>2
    <3>2. f \in Fragment(m, count, count = count) /\ f.size + 7 \in Int
      BY <2>3, <2>4, <2>14, <3>1, Zenon
    <3> QED
      BY <3>2, Zenon DEF Fragment
  <2>16. PutFragments(g, m) = Added(y, f, f.size + 7)
    <3>1. ~(left <= 0)
      BY <1>3, <1>14, <1>18
    <3>2. [full EXCEPT !.complete = @ \o [n \in 1..(many - 1) |-> <<Next1(n)>>]] = x
      BY <1>15, <2>5, <2>7, <2>9, Zenon
    <3> QED
      BY <1>13, <2>12, <2>14, <3>1, <3>2, Zenon
  <2>17. Unsent(PutFragments(g, m)) = Append(k, Append(<<>>, f))
    BY <2>13, <2>15, <2>16, AddedRows, Zenon
  <2>18. PICK nx : nx = [n \in 1..count |-> Next1(n)]
    OBVIOUS
  <2>19. /\ \A n \in 1..count : nx[n] \in Fragment(m, n, n = count)
         /\ \A n \in 1..(count - 1) : middle[n] = <<nx[n]>>
         /\ nx[count] = f
    <3>1. \A n \in 1..count : nx[n] = Next1(n)
      BY <2>18
    <3>2. count \in 1..count /\ \A n \in 1..(count - 1) : n \in 1..count
      BY <2>2
    <3> QED
      BY <2>3, <2>4, <2>6, <2>14, <3>1, <3>2
  <2>20. Append(<<>>, f) = <<nx[count]>>
    <3>1. Append(<<>>, f) = <<f>>
      OBVIOUS
    <3> QED
      BY <2>19, <3>1, Zenon
  <2>21. k = Append(g.complete, Append(g.current, first)) \o middle
    BY <1>6, <1>12, <2>7, Zenon
  <2>22. first \in Fragment(m, 0, FALSE)
    <3>1. first.from + first.size <= MsgLen[m]
      BY <1>2, <1>3, <1>5, <1>18
    <3> QED
      BY <1>5, <3>1 DEF Fragment, Fragments
  <2>23. PutsWell(Append(g.complete, g.current), Append(Append(g.complete, Append(g.current, first)) \o middle, <<nx[count]>>), m)
    BY <1>1, <1>5, <2>2, <2>6, <2>19, <2>22, RowsCut, Zenon
  <2> QED
    BY <1>16, <2>17, <2>20, <2>21, <2>23, Zenon
<1> QED
  BY <1>3, <1>17, <1>18

-----------------------------------------------------------------------------
(* Whatever way a message is put into a gateway, it is put well.             *)
LEMMA KeepsSame ==
  ASSUME NEW L, IsLine(L), NEW k
  PROVE  Keeps(L, L, k)
BY DEF Keeps, IsLine

LEMMA UnsentRows ==
  ASSUME NEW g \in Buffers(Fragments)
  PROVE  Unsent(g) \in Empty /\ IsLine(Unsent(g))
<1>1. Unsent(g) \in Seq(Seq(Fragments))
  BY UnsentIs
<1>2. PICK S, L : S = Seq(Fragments) /\ L = Unsent(g)
  OBVIOUS
<1>3. L \in Seq(S)
  BY <1>1, <1>2
<1>4. IsLine(L)
  BY <1>3 DEF IsLine
<1> QED
  BY <1>2, <1>3, <1>4, Zenon DEF Empty, Bins

LEMMA OpensAgain ==
  ASSUME NEW g \in Buffers(Fragments), NEW h, h = CreateCurrentTunnelDataMessage(CompleteCurrentTunnelDataMessage(g))
  PROVE  h.open /\ \A k : Keeps(Unsent(g), Unsent(h), k)
<1>1. PICK c : c = CompleteCurrentTunnelDataMessage(g)
  OBVIOUS
<1>2. c \in Buffers(Fragments)
  BY <1>1, CompleteKeeps
<1>3. c.complete = Unsent(g)
  BY <1>1, CompletedRows
<1>4. h.open /\ Unsent(h) = Append(c.complete, <<>>)
  BY <1>1, <1>2, CreatedRows
<1>5. \A k : Keeps(Unsent(g), Append(Unsent(g), <<>>), k)
  BY UnsentRows, EmptyRow
<1> QED
  BY <1>3, <1>4, <1>5, Zenon

LEMMA PutIntoOpenWell ==
  ASSUME NEW m \in I2NPMsgs, NEW g \in Buffers(Fragments), g.open, NEW created
  PROVE  PutsWell(Unsent(g), Unsent(PutIntoOpen(g, m, created)), m)
<1> DEFINE Again(x) == CreateCurrentTunnelDataMessage(CompleteCurrentTunnelDataMessage(x))
<1>1. PICK h : h = IF ~created /\ ShouldComplete(m, g.room) THEN Again(g) ELSE g
  OBVIOUS
<1>2. PICK fresh : fresh = Again(h)
  OBVIOUS
<1>3. PICK x : x = PutIntoOpen(g, m, created)
  OBVIOUS
<1>4. x = CASE FullMsgLen(m) <= g.room -> PutWhole(g, m)
            [] FullMsgLen(m) > g.room /\ DiLen(m) + 6 <= h.room -> PutFragments(h, m)
            [] FullMsgLen(m) > g.room /\ DiLen(m) + 6 > h.room ->
                 IF FullMsgLen(m) <= fresh.room THEN PutWhole(fresh, m) ELSE PutFragments(fresh, m)
  BY <1>1, <1>2, <1>3, Zenon DEF PutIntoOpen
<1>5. h \in Buffers(Fragments) /\ fresh \in Buffers(Fragments) /\ fresh.room = 1003
  BY <1>1, <1>2, CompleteKeeps
<1>6. DiLen(m) + 6 <= fresh.room /\ DiLen(m) \in Int /\ FullMsgLen(m) \in Int
  BY <1>5, Lengths
<1>7. g.room \in Int /\ h.room \in Int
  BY <1>5, BufferFields
<1>8. Again(g).open /\ \A k : Keeps(Unsent(g), Unsent(Again(g)), k)
  BY OpensAgain, Zenon
<1>9. \A k : Keeps(Unsent(g), Unsent(g), k)
  BY UnsentRows, KeepsSame
<1>10. fresh.open /\ \A k : Keeps(Unsent(h), Unsent(fresh), k)
  <2>1. Again(h).open /\ \A k : Keeps(Unsent(h), Unsent(Again(h)), k)
    BY <1>5, OpensAgain, Zenon
  <2> HIDE DEF Again
  <2> QED
    BY <1>2, <2>1, Zenon
<1> HIDE DEF Again
<1>11. h.open /\ \A k : Keeps(Unsent(g), Unsent(h), k)
  BY <1>1, <1>8, <1>9, Zenon
<1>12. \A k : Keeps(Unsent(g), Unsent(fresh), k)
  BY <1>10, <1>11, KeepsMore, Zenon
<1>13. CASE FullMsgLen(m) <= g.room
  <2>1. ~(FullMsgLen(m) > g.room)
    BY <1>6, <1>7, <1>13
  <2>2. x = PutWhole(g, m)
    BY <1>4, <1>13, <2>1, Zenon
  <2> QED
    BY <1>3, <2>2, PutWholeWell, Zenon
<1>14. CASE FullMsgLen(m) > g.room /\ DiLen(m) + 6 <= h.room
  <2>1. ~(FullMsgLen(m) <= g.room) /\ ~(DiLen(m) + 6 > h.room)
    BY <1>6, <1>7, <1>14
  <2>2. x = PutFragments(h, m)
    BY <1>4, <1>14, <2>1, Zenon
  <2>3. PutsWell(Unsent(h), Unsent(x), m)
    BY <1>5, <1>11, <1>14, <2>2, PutFragmentsWell, Zenon
  <2> QED
    BY <1>3, <1>11, <2>3, PutsAfter, Zenon
<1>15. CASE FullMsgLen(m) > g.room /\ DiLen(m) + 6 > h.room
  <2>1. ~(FullMsgLen(m) <= g.room) /\ ~(DiLen(m) + 6 <= h.room)
    BY <1>6, <1>7, <1>15
  <2>2. x = IF FullMsgLen(m) <= fresh.room THEN PutWhole(fresh, m) ELSE PutFragments(fresh, m)
    BY <1>4, <1>15, <2>1, Zenon
  <2>3. /\ PutsWell(Unsent(fresh), Unsent(PutWhole(fresh, m)), m)
        /\ PutsWell(Unsent(fresh), Unsent(PutFragments(fresh, m)), m)
    BY <1>5, <1>6, <1>10, PutWholeWell, PutFragmentsWell, ZenonT(30)
  <2>4. PutsWell(Unsent(fresh), Unsent(x), m)
    BY <2>2, <2>3, Zenon
  <2> QED
    BY <1>3, <1>12, <2>4, PutsAfter, Zenon
<1> QED
  BY <1>6, <1>7, <1>13, <1>14, <1>15

LEMMA PutI2NPMsgWell ==
  ASSUME NEW m \in I2NPMsgs, NEW g \in Buffers(Fragments)
  PROVE  PutsWell(Unsent(g), Unsent(PutI2NPMsg(g, m)), m)
<1>1. CASE g.open
  BY <1>1, PutIntoOpenWell, Zenon DEF PutI2NPMsg
<1>2. CASE ~g.open
  <2>1. PICK h : h = CreateCurrentTunnelDataMessage(g)
    OBVIOUS
  <2>2. h \in Buffers(Fragments)
    BY <2>1, CompleteKeeps
  <2>3. h.open /\ Unsent(h) = Append(g.complete, <<>>)
    BY <2>1, CreatedRows
  <2>4. Unsent(g) = g.complete
    BY <1>2, Zenon DEF Unsent
  <2>5. \A k : Keeps(Unsent(g), Append(Unsent(g), <<>>), k)
    BY UnsentRows, EmptyRow
  <2>6. \A k : Keeps(Unsent(g), Unsent(h), k)
    BY <2>3, <2>4, <2>5, Zenon
  <2>7. PutsWell(Unsent(h), Unsent(PutIntoOpen(h, m, TRUE)), m)
    BY <2>2, <2>3, PutIntoOpenWell
  <2>8. PutI2NPMsg(g, m) = PutIntoOpen(h, m, TRUE)
    BY <1>2, <2>1, Zenon DEF PutI2NPMsg
  <2> QED
    BY <2>6, <2>7, <2>8, PutsAfter, Zenon
<1> QED
  BY <1>1, <1>2

(* So the lives of all messages go on: of those before, and of the one put.   *)
LEMMA StoriesPut ==
  ASSUME NEW g, NEW w, NEW e, NEW G, Sound(g, w, e, G), NEW m \in I2NPMsgs \ G, NEW o, Stories(g, w, e, G, o)
  PROVE  Stories(PutI2NPMsg(g, m), w, e, G \cup {m}, o)
<1>1. PICK s \in [I2NPMsgs -> Int] : g \in Buffers(Pieces(s, G)) /\ w \in Seq(Seq(Pieces(s, G)))
  BY DEF Sound
<1>2. Pieces(s, G) \subseteq Fragments
  BY DEF Pieces
<1>3. g \in Buffers(Fragments) /\ w \in Seq(Seq(Fragments))
  BY <1>1, <1>2, SeqMore
<1>4. PutI2NPMsg(g, m) \in Buffers(Fragments)
  <2>1. G \subseteq I2NPMsgs
    BY DEF Sound
  <2>2. Takes(s, G, {m}, PutI2NPMsg(g, m))
    BY <1>1, <2>1, PutI2NPMsgKeeps
  <2>3. PICK s2 : PutI2NPMsg(g, m) \in Buffers(Pieces(s2, G \cup {m}))
    BY <2>2 DEF Takes
  <2>4. Pieces(s2, G \cup {m}) \subseteq Fragments
    BY DEF Pieces
  <2> QED
    BY <2>3, <2>4, SeqMore
<1>5. PICK h, r, r2 : h = PutI2NPMsg(g, m) /\ r = Unsent(g) /\ r2 = Unsent(h)
  OBVIOUS
<1>6. PutsWell(r, r2, m)
  BY <1>3, <1>5, PutI2NPMsgWell, Zenon
<1>7. PICK L, L2 : L = w \o r /\ L2 = w \o r2
  OBVIOUS
<1>8. L = Line(g, w) /\ L2 = Line(h, w)
  BY <1>5, <1>7 DEF Line
<1>9. PlacesOf(w, r, L) /\ PlacesOf(w, r2, L2)
  <2>1. PICK S : S = Seq(Fragments)
    OBVIOUS
  <2>2. r \in Seq(S) /\ r2 \in Seq(S) /\ w \in Seq(S)
    BY <1>3, <1>4, <1>5, <2>1, UnsentRows, Zenon DEF Empty, Bins
  <2> QED
    BY <1>7, <2>2, Places
<1>10. ASSUME NEW k \in Told
       PROVE  Story(L2, View(e, k), k, G \cup {m}, o)
  <2>1. Story(L, View(e, k), k, G, o)
    BY <1>8, Zenon DEF Stories
  <2>2. CASE k # m
    <3>1. Keeps(L, L2, k)
      BY <1>6, <1>9, <2>2, KeepsBehind, Zenon DEF PutsWell
    <3>2. Story(L2, View(e, k), k, G, o)
      BY <2>1, <3>1, KeepsStory, Zenon
    <3>3. k \in G <=> k \in G \cup {m}
      BY <2>2
    <3> QED
      BY <3>2, <3>3, Zenon DEF Story
  <2>3. CASE k = m
    <3>1. Absent(L, m) /\ Nothing(View(e, m))
      BY <2>1, <2>3, Zenon DEF Story
    <3>2. Absent(w, m) /\ Absent(r, m)
      BY <1>9, <3>1 DEF PlacesOf, Absent
    <3>3. Holds(r2, m)
      BY <1>6, <3>2, Zenon DEF PutsWell
    <3>4. Holds(L2, m)
      BY <1>9, <3>2, <3>3, HoldsBehind, Zenon
    <3>5. m \in G \cup {m}
      OBVIOUS
    <3> QED
      BY <2>3, <3>1, <3>4, <3>5, HoldsStory, Zenon
  <2> QED
    BY <2>2, <2>3
<1> QED
  BY <1>5, <1>8, <1>10, Zenon DEF Stories

-----------------------------------------------------------------------------
(* A block of messages, and a flush.                                         *)
LEMMA StoriesPutAll ==
  ASSUME NEW g, NEW w, NEW e, NEW G, Sound(g, w, e, G), NEW o, Stories(g, w, e, G, o), NEW ms \in Seq(I2NPMsgs),
         \A i, j \in DOMAIN ms : ms[i] = ms[j] => i = j, \A i \in DOMAIN ms : ms[i] \notin G
  PROVE  Stories(PutAll(g, ms), w, e, G \cup {ms[i] : i \in DOMAIN ms}, o)
<1>1. Len(ms) \in Nat /\ DOMAIN ms = 1..Len(ms) /\ \A i \in 1..Len(ms) : ms[i] \in I2NPMsgs
  OBVIOUS
<1>2. PICK put : /\ put[0] = g
                 /\ \A i \in 1..Len(ms) : put[i] = PutI2NPMsg(put[i - 1], ms[i])
                 /\ PutAll(g, ms) = put[Len(ms)]
  BY <1>1, MessageByMessage
<1> DEFINE Prefix(n) == {ms[i] : i \in 1..n}
           Fine(n) == Sound(put[n], w, e, G \cup Prefix(n)) /\ Stories(put[n], w, e, G \cup Prefix(n), o)
           Bad == {n \in 0..Len(ms) : ~Fine(n)}
<1>3. Bad = {}
  <2>1. ASSUME Bad # {} PROVE FALSE
    <3>1. Bad \subseteq Nat
      BY <1>1
    <3>2. PICK n \in Bad : \A k \in Bad : n <= k
      <4> HIDE DEF Bad
      <4> QED
        BY <2>1, <3>1, NatMin
    <3>3. n \in 0..Len(ms) /\ ~Fine(n)
      BY <3>2
    <3>4. CASE n = 0
      <4>1. G \cup Prefix(0) = G
        OBVIOUS
      <4> HIDE DEF Prefix
      <4>2. Fine(0)
        BY <1>2, <4>1, Zenon
      <4> QED
        BY <3>3, <3>4, <4>2, Zenon
    <3>5. CASE n # 0
      <4>1. n - 1 \in 0..Len(ms) /\ n \in 1..Len(ms) /\ ~(n <= n - 1)
        BY <1>1, <3>3, <3>5
      <4>2. Fine(n - 1)
        <5> HIDE DEF Fine
        <5> QED
          BY <3>2, <4>1
      <4>3. ms[n] \in I2NPMsgs \ (G \cup Prefix(n - 1))
        BY <1>1, <4>1
      <4>4. Prefix(n) = Prefix(n - 1) \cup {ms[n]}
        BY <1>1, <4>1
      <4>5. put[n] = PutI2NPMsg(put[n - 1], ms[n])
        BY <1>2, <4>1
      <4>6. PICK H, x, m : H = G \cup Prefix(n - 1) /\ x = put[n - 1] /\ m = ms[n]
        OBVIOUS
      <4>7. G \cup Prefix(n) = H \cup {m}
        <5> HIDE DEF Prefix
        <5> QED
          BY <4>4, <4>6
      <4> HIDE DEF Prefix, Bad
      <4>8. Sound(x, w, e, H) /\ Stories(x, w, e, H, o) /\ m \in I2NPMsgs \ H
        BY <4>2, <4>3, <4>6, Zenon
      <4>9. Stories(PutI2NPMsg(x, m), w, e, H \cup {m}, o)
        BY <4>8, StoriesPut
      <4>10. Sound(PutI2NPMsg(x, m), w, e, H \cup {m})
        <5>1. {m} \in SUBSET I2NPMsgs /\ H \subseteq I2NPMsgs
          BY <4>8 DEF Sound
        <5>2. ASSUME NEW s \in [I2NPMsgs -> Int], x \in Buffers(Pieces(s, H))
              PROVE  Takes(s, H, {m}, PutI2NPMsg(x, m))
          BY <4>8, <5>1, <5>2, PutI2NPMsgKeeps
        <5> QED
          BY <4>8, <5>1, <5>2, SoundTakes
      <4>11. Fine(n)
        BY <4>5, <4>6, <4>7, <4>9, <4>10, Zenon
      <4> QED
        BY <3>3, <4>11, Zenon
    <3> QED
      BY <3>4, <3>5
  <2> QED
    BY <2>1
<1>4. Fine(Len(ms))
  <2>1. Len(ms) \in 0..Len(ms)
    BY <1>1
  <2>2. \A n \in 0..Len(ms) : Fine(n)
    <3> HIDE DEF Fine
    <3> QED
      BY <1>3
  <2> QED
    BY <2>1, <2>2, Zenon
<1>5. Prefix(Len(ms)) = {ms[i] : i \in DOMAIN ms}
  BY <1>1
<1> HIDE DEF Prefix
<1> QED
  BY <1>2, <1>4, <1>5, Zenon

LEMMA StoriesSent ==
  ASSUME NEW g, NEW w, NEW e, NEW G, Sound(g, w, e, G), NEW o, Stories(g, w, e, G, o)
  PROVE  Stories(SendBuffer(g), w \o Packed(g), e, G, o)
<1>1. PICK s : g \in Buffers(Pieces(s, G)) /\ w \in Seq(Seq(Pieces(s, G)))
  BY DEF Sound
<1>2. g \in Buffers(Fragments) /\ w \in Empty
  <2>1. Pieces(s, G) \subseteq Fragments
    BY DEF Pieces
  <2>2. g \in Buffers(Fragments) /\ w \in Seq(Seq(Fragments))
    BY <1>1, <2>1, SeqMore
  <2> QED
    BY <2>2, Zenon DEF Empty, Bins
<1>3. CompleteCurrentTunnelDataMessage(g).complete = Unsent(g)
  BY <1>2, CompletedRows
<1>4. Packed(g) = Unsent(g)
  BY <1>3, Zenon DEF Packed
<1>5. ~SendBuffer(g).open /\ SendBuffer(g).complete = <<>>
  BY SoundSends
<1>6. Unsent(SendBuffer(g)) = <<>>
  BY <1>5, Zenon DEF Unsent
<1>7. PICK z : z = w \o Packed(g)
  OBVIOUS
<1>8. z = Line(g, w)
  BY <1>4, <1>7, Zenon DEF Line
<1>9. z \o <<>> = z
  <2>1. PICK S, r : S = Bins /\ r = Unsent(g)
    OBVIOUS
  <2>2. r \in Seq(S) /\ w \in Seq(S) /\ z = w \o r
    BY <1>2, <1>4, <1>7, <2>1, UnsentRows, Zenon DEF Empty
  <2>3. z \in Seq(S)
    BY <2>2
  <2> QED
    BY <2>3
<1>10. Line(SendBuffer(g), z) = Line(g, w)
  BY <1>6, <1>8, <1>9, Zenon DEF Line
<1> QED
  BY <1>7, <1>10, Zenon DEF Stories

LEMMA FlushStories ==
  ASSUME NEW t, NEW g, NEW h, NEW w, DOMAIN g = Tunneled, DOMAIN w = Tunneled, NEW e, NEW G,
         Sound(g["transit"], w["transit"], e, G), NEW o, Stories(g["transit"], w["transit"], e, G, o),
         NEW r, r = FlushTunnelDataMsgs(t, g, h, w)
  PROVE  Stories(r.g["transit"], r.w["transit"], e, G, o)
<1> DEFINE sent == [g EXCEPT !["transit"] = SendBuffer(@)]
           more == [w EXCEPT !["transit"] = @ \o Packed(g["transit"])]
<1>1. CASE t = "transit"
  <2>1. r = [g |-> sent, h |-> h, w |-> more]
    BY <1>1, Zenon DEF FlushTunnelDataMsgs
  <2>2. sent["transit"] = SendBuffer(g["transit"]) /\ more["transit"] = w["transit"] \o Packed(g["transit"])
    BY DEF Tunneled
  <2> HIDE DEF sent, more
  <2>3. r.g = sent /\ r.w = more
    BY <2>1
  <2>4. Stories(SendBuffer(g["transit"]), w["transit"] \o Packed(g["transit"]), e, G, o)
    BY StoriesSent
  <2> QED
    BY <2>2, <2>3, <2>4, Zenon
<1>2. CASE t # "transit"
  <2>1. r.g = g /\ r.w = w
    BY <1>2, FlushSound
  <2> QED
    BY <2>1, Zenon
<1> QED
  BY <1>1, <1>2

-----------------------------------------------------------------------------
(* The steps of the tunnels.                                                 *)
LEMMA StoriesLater ==
  ASSUME NEW g, NEW w, NEW e, NEW G, NEW o \in Nat, NEW p \in Nat, o <= p, Stories(g, w, e, G, o)
  PROVE  Stories(g, w, e, G, p)
<1>1. o # 0 => p # 0
  OBVIOUS
<1>2. ASSUME NEW L, NEW v, NEW m, Ahead(L, v, m, o)
      PROVE  Ahead(L, v, m, p)
  BY <1>1, <1>2 DEF Ahead
<1>3. ASSUME NEW L, NEW v, NEW m, Gap(L, v, m, o)
      PROVE  Gap(L, v, m, p)
  BY <1>1, <1>3 DEF Gap
<1> QED
  BY <1>2, <1>3, Zenon DEF Stories, Story

(* What a and then c have, each once.                                        *)
Joins(a, c, b) ==
  NoTwice(b) /\ {b[j] : j \in DOMAIN b} = {a[j] : j \in DOMAIN a} \cup {c[j] : j \in DOMAIN c}
JoinsOne(a, m, b) == NoTwice(b) /\ {b[j] : j \in DOMAIN b} = {a[j] : j \in DOMAIN a} \cup {m}

LEMMA OnceAppended ==
  ASSUME NEW S, NEW a \in Seq(S), NEW m \in S, \A i \in DOMAIN a : a[i] # m, NoTwice(a), NEW b, b = Append(a, m)
  PROVE  JoinsOne(a, m, b)
<1>1. /\ Len(a) \in Nat /\ DOMAIN a = 1..Len(a) /\ DOMAIN b = 1..(Len(a) + 1)
      /\ b[Len(a) + 1] = m /\ \A j \in 1..Len(a) : b[j] = a[j]
  OBVIOUS
<1>2. Len(a) + 1 \in DOMAIN b /\ \A j \in DOMAIN b : j \in DOMAIN a \/ j = Len(a) + 1
  BY <1>1
<1>3. \A j \in DOMAIN a : j \in DOMAIN b /\ b[j] = a[j]
  BY <1>1
<1>4. NoTwice(b)
  BY <1>1, <1>2, <1>3 DEF NoTwice
<1>5. {b[j] : j \in DOMAIN b} = {a[j] : j \in DOMAIN a} \cup {m}
  BY <1>1, <1>2, <1>3
<1> QED
  BY <1>4, <1>5, Zenon DEF JoinsOne

LEMMA OnceJoined ==
  ASSUME NEW S, NEW a \in Seq(S), NEW c \in Seq(S), \A i \in DOMAIN a, j \in DOMAIN c : a[i] # c[j],
         NoTwice(a), NoTwice(c), NEW b, b = a \o c
  PROVE  Joins(a, c, b)
<1>1. PlacesOf(a, c, b)
  BY Places
<1>2. /\ Len(a) \in Nat /\ Len(c) \in Nat /\ DOMAIN a = 1..Len(a) /\ DOMAIN c = 1..Len(c)
      /\ DOMAIN b = 1..(Len(a) + Len(c))
      /\ \A j \in DOMAIN a : j \in DOMAIN b /\ b[j] = a[j]
      /\ \A j \in DOMAIN c : Len(a) + j \in DOMAIN b /\ b[Len(a) + j] = c[j]
  BY <1>1 DEF PlacesOf, IsLine
<1>3. \A j \in DOMAIN b : j \in DOMAIN a \/ (j - Len(a) \in DOMAIN c /\ b[j] = c[j - Len(a)] /\ j \in Nat)
  <2>1. SUFFICES ASSUME NEW j \in DOMAIN b, j \notin DOMAIN a
                 PROVE  j - Len(a) \in DOMAIN c /\ b[j] = c[j - Len(a)] /\ j \in Nat
    OBVIOUS
  <2>2. PICK i : i = j - Len(a)
    OBVIOUS
  <2>3. i \in DOMAIN c /\ j = Len(a) + i /\ j \in Nat
    BY <1>2, <2>1, <2>2
  <2> QED
    BY <1>2, <2>2, <2>3
<1>4. NoTwice(b)
  <2>1. SUFFICES ASSUME NEW i \in DOMAIN b, NEW j \in DOMAIN b, b[i] = b[j] PROVE i = j
    BY DEF NoTwice
  <2>2. CASE i \in DOMAIN a /\ j \in DOMAIN a
    BY <1>2, <2>1, <2>2 DEF NoTwice
  <2>3. CASE i \in DOMAIN a /\ j \notin DOMAIN a
    BY <1>2, <1>3, <2>1, <2>3
  <2>4. CASE i \notin DOMAIN a /\ j \in DOMAIN a
    BY <1>2, <1>3, <2>1, <2>4
  <2>5. CASE i \notin DOMAIN a /\ j \notin DOMAIN a
    <3>1. i - Len(a) = j - Len(a) /\ i \in Nat /\ j \in Nat
      BY <1>3, <2>1, <2>5 DEF NoTwice
    <3> QED
      BY <1>2, <3>1
  <2> QED
    BY <2>2, <2>3, <2>4, <2>5
<1>5. \A j \in DOMAIN b : (j \in DOMAIN a /\ b[j] = a[j]) \/ (j - Len(a) \in DOMAIN c /\ b[j] = c[j - Len(a)])
  BY <1>2, <1>3
<1>6. {b[j] : j \in DOMAIN b} \subseteq {a[j] : j \in DOMAIN a} \cup {c[j] : j \in DOMAIN c}
  BY <1>5
<1>7. {a[j] : j \in DOMAIN a} \cup {c[j] : j \in DOMAIN c} \subseteq {b[j] : j \in DOMAIN b}
  <2>1. PICK R : R = {b[j] : j \in DOMAIN b}
    OBVIOUS
  <2>2. \A k \in DOMAIN b : b[k] \in R
    BY <2>1
  <2>3. (\A j \in DOMAIN a : a[j] \in R) /\ (\A j \in DOMAIN c : c[j] \in R)
    BY <1>2, <2>2
  <2> QED
    BY <2>1, <2>3
<1>8. {b[j] : j \in DOMAIN b} = {a[j] : j \in DOMAIN a} \cup {c[j] : j \in DOMAIN c}
  BY <1>6, <1>7
<1> QED
  BY <1>4, <1>8, Zenon DEF Joins

Calm == lost = 0 /\ duplicated = 0 /\ overtaken <= 1
AllTold == \A t \in Tunneled : Stories(gateway[t], wire[t], endpoint[t], GivenTo(t), overtaken)

LEMMA OvertakenIs ==
  OvertakenInv <=> lost \in Nat /\ duplicated \in Nat /\ overtaken \in Nat /\ GivenOnce /\ (Calm => AllTold)
BY Zenon DEF OvertakenInv, Calm, AllTold

LEMMA OvertakenInit == TMsgInit => OvertakenInv
<1> SUFFICES ASSUME TMsgInit PROVE OvertakenInv
  OBVIOUS
<1>1. lost \in Nat /\ duplicated \in Nat /\ overtaken \in Nat
  BY DEF TMsgInit
<1>2. \A t \in Tunneled : /\ gateway[t] = EmptyBuffer /\ given[t] = <<>> /\ endpoint[t] = EmptyEndpoint
                          /\ wire[t] = <<>> /\ GivenTo(t) = {}
  BY DEF TMsgInit, GivenTo
<1>3. GivenOnce
  BY <1>2 DEF GivenOnce, NoTwice
<1>4. Stories(EmptyBuffer, <<>>, EmptyEndpoint, {}, overtaken)
  <2>1. Unsent(EmptyBuffer) = <<>>
    BY DEF Unsent, EmptyBuffer
  <2>2. <<>> \o <<>> = <<>>
    OBVIOUS
  <2>3. Line(EmptyBuffer, <<>>) = <<>>
    BY <2>1, <2>2, Zenon DEF Line
  <2>4. \A m : Absent(<<>>, m)
    BY DEF Absent
  <2>5. \A m : Nothing(View(EmptyEndpoint, m))
    <3>1. PICK e : e = EmptyEndpoint
      OBVIOUS
    <3>2. e.incomplete = <<>> /\ e.outOfSequence = <<>> /\ e.handed = <<>>
      BY <3>1 DEF EmptyEndpoint
    <3>3. \A m : At(<<>>, m) = {} /\ Times(<<>>, m) = {}
      BY DEF At, Times
    <3>4. \A m : Nothing(View(e, m))
      BY <3>2, <3>3 DEF Nothing, View
    <3> QED
      BY <3>1, <3>4, Zenon
  <2>6. \A m : m \notin {}
    OBVIOUS
  <2> QED
    BY <2>3, <2>4, <2>5, <2>6, Zenon DEF Stories, Story
<1>5. AllTold
  BY <1>2, <1>4, Zenon DEF AllTold
<1> QED
  BY <1>1, <1>3, <1>5, OvertakenIs

LEMMA OvertakenWire ==
  TMsgInv /\ OvertakenInv /\ WireNext => OvertakenInv'
<1> SUFFICES ASSUME TMsgInv, OvertakenInv, NEW t \in Tunneled,
                    (\E i \in DOMAIN wire[t] : Deliver(t, i)) \/ Lose(t) \/ Duplicate(t)
             PROVE  OvertakenInv'
  BY DEF WireNext
<1>1. Sound(gateway[t], wire[t], endpoint[t], GivenTo(t)) /\ DOMAIN endpoint = Tunneled /\ DOMAIN wire = Tunneled
  BY DEF TMsgInv, AllSound, TunnelShape
<1>2. lost \in Nat /\ duplicated \in Nat /\ overtaken \in Nat /\ GivenOnce /\ (Calm => AllTold)
  BY OvertakenIs
<1>3. ASSUME NEW i \in DOMAIN wire[t], Deliver(t, i)
      PROVE  OvertakenInv'
  <2>1. PICK inbound, w, e : /\ inbound = (t = "transit")
                             /\ w = SubSeq(wire[t], 1, i - 1) \o SubSeq(wire[t], i + 1, Len(wire[t]))
                             /\ e = HandleDecryptedTunnelDataMsg(endpoint[t], wire[t][i], inbound)
    OBVIOUS
  <2>2. wire' = [wire EXCEPT ![t] = w] /\ endpoint' = [endpoint EXCEPT ![t] = e]
    BY <1>3, <2>1, Zenon DEF Deliver
  <2>3. /\ wire'[t] = w /\ endpoint'[t] = e
        /\ \A u \in Tunneled : u # t => wire'[u] = wire[u] /\ endpoint'[u] = endpoint[u]
    BY <1>1, <2>2
  <2>4. UNCHANGED <<gateway, given, lost, duplicated>> /\ overtaken' = overtaken + (i - 1)
    BY <1>3 DEF Deliver
  <2>5. i \in Nat /\ i >= 1
    <3>1. PICK s : wire[t] \in Seq(Seq(Pieces(s, GivenTo(t))))
      BY <1>1 DEF Sound
    <3>2. PICK S : S = Seq(Pieces(s, GivenTo(t)))
      OBVIOUS
    <3>3. wire[t] \in Seq(S)
      BY <3>1, <3>2
    <3> QED
      BY <3>3
  <2>6. PICK p : p = overtaken + (i - 1)
    OBVIOUS
  <2>7. p \in Nat /\ overtaken <= p /\ overtaken' = p
    BY <1>2, <2>4, <2>5, <2>6
  <2>8. GivenOnce' /\ \A u : GivenTo(u)' = GivenTo(u)
    BY <1>2, <2>4 DEF GivenOnce, GivenTo
  <2>9. ASSUME Calm'
        PROVE  AllTold'
    <3>1. p <= 1 /\ Calm
      BY <1>2, <2>4, <2>7, <2>9 DEF Calm
    <3>2. \A u \in Tunneled : Stories(gateway[u], wire[u], endpoint[u], GivenTo(u), overtaken)
      BY <1>2, <3>1 DEF AllTold
    <3>3. Stories(gateway[t], w, e, GivenTo(t), p)
      <4>1. overtaken + (i - 1) <= 1
        BY <2>6, <3>1
      <4>2. Stories(gateway[t], w, e, GivenTo(t), overtaken + (i - 1))
        BY <1>1, <1>2, <2>1, <3>2, <4>1, StoriesDelivered, Zenon
      <4> QED
        BY <2>6, <4>2, Zenon
    <3>4. ASSUME NEW u \in Tunneled, u # t
          PROVE  Stories(gateway[u], wire[u], endpoint[u], GivenTo(u), p)
      BY <1>2, <2>7, <3>2, StoriesLater
    <3>5. ASSUME NEW u \in Tunneled
          PROVE  Stories(gateway'[u], wire'[u], endpoint'[u], GivenTo(u)', overtaken')
      <4>1. gateway' = gateway
        BY <2>4
      <4> QED
        BY <2>3, <2>7, <2>8, <3>3, <3>4, <4>1, Zenon
    <3> QED
      BY <3>5, Zenon DEF AllTold
  <2> QED
    BY <1>2, <2>4, <2>7, <2>8, <2>9 DEF OvertakenInv, Calm, AllTold
<1>4. ASSUME Lose(t) \/ Duplicate(t)
      PROVE  OvertakenInv'
  <2>1. /\ given' = given /\ overtaken' = overtaken /\ lost' \in Nat /\ duplicated' \in Nat
        /\ lost' # 0 \/ duplicated' # 0
    BY <1>2, <1>4 DEF Lose, Duplicate
  <2>2. GivenOnce'
    BY <1>2, <2>1 DEF GivenOnce
  <2> QED
    BY <1>2, <2>1, <2>2 DEF OvertakenInv
<1> QED
  BY <1>3, <1>4

(* What the other steps leave alone.                                         *)
LEMMA OvertakenKept ==
  ASSUME OvertakenInv, UNCHANGED faultVars, UNCHANGED endpoint, GivenOnce',
         AllTold => \A t \in Tunneled : Stories(gateway'[t], wire'[t], endpoint[t], GivenTo(t)', overtaken)
  PROVE  OvertakenInv'
<1>1. lost' = lost /\ duplicated' = duplicated /\ overtaken' = overtaken /\ endpoint' = endpoint
  BY DEF faultVars
<1>2. lost \in Nat /\ duplicated \in Nat /\ overtaken \in Nat /\ (Calm => AllTold)
  BY OvertakenIs
<1>3. ASSUME Calm'
      PROVE  AllTold'
  <2>1. Calm
    BY <1>1, <1>3 DEF Calm
  <2>2. \A t \in Tunneled : Stories(gateway'[t], wire'[t], endpoint[t], GivenTo(t)', overtaken)
    BY <1>2, <2>1
  <2> QED
    BY <1>1, <2>2, Zenon DEF AllTold
<1> QED
  BY <1>1, <1>2, <1>3 DEF OvertakenInv, Calm, AllTold

LEMMA OvertakenOwn ==
  TMsgInv /\ OvertakenInv /\ OwnNext => OvertakenInv'
<1> SUFFICES ASSUME TMsgInv, OvertakenInv, NEW ms \in OwnBlocks, SendTunnelDataMsgs(ms)
             PROVE  OvertakenInv'
  BY DEF OwnNext
<1>1. ms \in Seq(I2NPMsgs) /\ \A i, j \in DOMAIN ms : ms[i] = ms[j] => i = j
  BY TunnelMessagesAssumption
<1>2. \A j \in DOMAIN ms : ms[j] \notin GivenTo("own")
  BY DEF SendTunnelDataMsgs, GivenTo
<1>3. PICK M : M = {ms[i] : i \in DOMAIN ms}
  OBVIOUS
<1>4. PICK G : G = GivenTo("own")
  OBVIOUS
<1>5. TunnelShape /\ AllSound
  BY DEF TMsgInv
<1>6. Sound(gateway["own"], wire["own"], endpoint["own"], G)
  BY <1>4, <1>5 DEF AllSound, Tunneled
<1>7. PICK g : g = PutAll(gateway["own"], ms)
  OBVIOUS
<1>8. M \in SUBSET I2NPMsgs
  BY <1>1, <1>3
<1>9. Sound(g, wire["own"], endpoint["own"], G \cup M)
  <2>1. ASSUME NEW s \in [I2NPMsgs -> Int], gateway["own"] \in Buffers(Pieces(s, G))
        PROVE  Takes(s, G, M, g)
    <3>1. G \subseteq I2NPMsgs
      BY <1>6 DEF Sound
    <3> QED
      BY <1>1, <1>2, <1>3, <1>4, <1>7, <2>1, <3>1, PutAllKeeps
  <2> QED
    BY <1>6, <1>8, <2>1, SoundTakes
<1>10. /\ gateway' = [gateway EXCEPT !["own"] = SendBuffer(g)]
       /\ wire' = [wire EXCEPT !["own"] = wire["own"] \o Packed(g)]
       /\ given' = [given EXCEPT !["own"] = given["own"] \o ms]
       /\ UNCHANGED endpoint /\ UNCHANGED faultVars
  BY <1>7 DEF SendTunnelDataMsgs
<1>11. /\ gateway'["own"] = SendBuffer(g) /\ gateway'["transit"] = gateway["transit"]
       /\ wire'["own"] = wire["own"] \o Packed(g) /\ wire'["transit"] = wire["transit"]
       /\ given'["own"] = given["own"] \o ms /\ given'["transit"] = given["transit"]
  BY <1>5, <1>10 DEF TunnelShape, Tunneled
<1>12. GivenTo("transit")' = GivenTo("transit")
  BY <1>11 DEF GivenTo
<1>13. NoTwice(given["own"]) /\ NoTwice(given["transit"])
  BY DEF OvertakenInv, GivenOnce, Tunneled
<1>14. GivenTo("own")' = G \cup M /\ NoTwice(given'["own"])
  <2>1. PICK a, b : a = given["own"] /\ b = given'["own"]
    OBVIOUS
  <2>2. /\ b = a \o ms /\ a \in Seq(I2NPMsgs) /\ G = {a[j] : j \in DOMAIN a}
        /\ GivenTo("own")' = {b[j] : j \in DOMAIN b} /\ NoTwice(a)
    BY <1>4, <1>5, <1>11, <1>13, <2>1 DEF GivenTo, TunnelShape
  <2>3. NoTwice(ms)
    BY <1>1 DEF NoTwice
  <2>4. \A i \in DOMAIN a, j \in DOMAIN ms : a[i] # ms[j]
    BY <2>1 DEF SendTunnelDataMsgs
  <2>5. NoTwice(b) /\ {b[j] : j \in DOMAIN b} = {a[j] : j \in DOMAIN a} \cup {ms[j] : j \in DOMAIN ms}
    <3>1. Joins(a, ms, b)
      BY <1>1, <2>2, <2>3, <2>4, OnceJoined
    <3> QED
      BY <3>1, Zenon DEF Joins
  <2> QED
    BY <1>3, <2>1, <2>2, <2>5
<1>15. GivenOnce'
  BY <1>11, <1>13, <1>14 DEF GivenOnce, Tunneled
<1>16. ASSUME AllTold, NEW t \in Tunneled
       PROVE  Stories(gateway'[t], wire'[t], endpoint[t], GivenTo(t)', overtaken)
  <2>1. CASE t = "own"
    <3>1. Stories(gateway["own"], wire["own"], endpoint["own"], G, overtaken)
      BY <1>4, <1>16 DEF AllTold, Tunneled
    <3>2. Stories(g, wire["own"], endpoint["own"], G \cup M, overtaken)
      <4>1. PICK x, w, e : x = gateway["own"] /\ w = wire["own"] /\ e = endpoint["own"]
        OBVIOUS
      <4>2. Sound(x, w, e, G) /\ Stories(x, w, e, G, overtaken) /\ \A i \in DOMAIN ms : ms[i] \notin G
        BY <1>2, <1>4, <1>6, <3>1, <4>1, Zenon
      <4>3. Stories(PutAll(x, ms), w, e, G \cup {ms[i] : i \in DOMAIN ms}, overtaken)
        BY <1>1, <4>2, StoriesPutAll
      <4> QED
        BY <1>3, <1>7, <4>1, <4>3, Zenon
    <3>3. Stories(SendBuffer(g), wire["own"] \o Packed(g), endpoint["own"], G \cup M, overtaken)
      BY <1>9, <3>2, StoriesSent, Zenon
    <3> QED
      BY <1>11, <1>14, <2>1, <3>3, Zenon
  <2>2. CASE t = "transit"
    <3>1. Stories(gateway["transit"], wire["transit"], endpoint["transit"], GivenTo("transit"), overtaken)
      BY <1>16 DEF AllTold, Tunneled
    <3> QED
      BY <1>11, <1>12, <2>2, <3>1, Zenon
  <2> QED
    BY <2>1, <2>2 DEF Tunneled
<1> QED
  BY <1>10, <1>15, <1>16, OvertakenKept

LEMMA OvertakenHandle ==
  TMsgInv /\ OvertakenInv /\ HandleQueued => OvertakenInv'
<1> SUFFICES ASSUME TMsgInv, OvertakenInv, HandleQueued PROVE OvertakenInv'
  OBVIOUS
<1>1. PICK id, tunnelID, tun, before, put, kept, after :
        Turn(id, tunnelID, tun, before, put, kept, after)
  BY TurnOf
<1>2. PICK G, m, e, o : G = GivenTo("transit") /\ m = run.msg.body /\ e = endpoint["transit"] /\ o = overtaken
  OBVIOUS
<1>3. PICK M : M = IF tun = "transit" THEN {m} ELSE {}
  OBVIOUS
<1>4. /\ tun = "transit" => m \in I2NPMsgs \ G
      /\ Sound(before.g["transit"], before.w["transit"], e, G)
      /\ DOMAIN before.g = Tunneled /\ DOMAIN before.w = Tunneled
      /\ before.w["own"] = wire["own"]
      /\ Sound(put["transit"], before.w["transit"], e, G \cup M)
      /\ DOMAIN put = Tunneled /\ put["own"] = gateway["own"]
  <2>1. M = IF tun = "transit" THEN {run.msg.body} ELSE {}
    BY <1>2, <1>3
  <2> QED
    BY <1>1, <1>2, <2>1, TurnPuts
<1>5. TunnelShape /\ AllSound
  BY DEF TMsgInv
<1>6. DOMAIN gateway = Tunneled /\ DOMAIN wire = Tunneled /\ DOMAIN given = Tunneled
      /\ Sound(gateway["transit"], wire["transit"], e, G)
  BY <1>2, <1>5 DEF TunnelShape, AllSound, Tunneled
<1>7. PICK last : last = IF msgQueue = <<>> THEN tun ELSE NoTunnel
  OBVIOUS
<1>8. /\ before = FlushTunnelDataMsgs(FlushPrevious(id, tun), gateway, held, wire)
      /\ put = IF tun = "transit"
               THEN [before.g EXCEPT !["transit"] = PutI2NPMsg(before.g["transit"], m)] ELSE before.g
      /\ after = FlushTunnelDataMsgs(last, put, kept, before.w)
      /\ gateway' = after.g /\ wire' = after.w /\ endpoint' = endpoint
      /\ given' = IF tun = "transit"
                  THEN [given EXCEPT !["transit"] = Append(given["transit"], m)] ELSE given
  BY <1>1, <1>2, <1>7, Zenon DEF Turn
<1>9. after.g["own"] = gateway["own"] /\ after.w["own"] = wire["own"]
  <2>1. after = FlushTunnelDataMsgs(last, put, kept, before.w)
    BY <1>8, Zenon
  <2>2. /\ Sound(after.g["transit"], after.w["transit"], e, G \cup M)
        /\ DOMAIN after.g = Tunneled /\ DOMAIN after.w = Tunneled
        /\ after.g["own"] = put["own"] /\ after.w["own"] = before.w["own"]
    BY <1>4, <2>1, FlushSound
  <2> QED
    BY <1>4, <2>2
<1>10. /\ given'["own"] = given["own"]
       /\ tun = "transit" => given'["transit"] = Append(given["transit"], m)
       /\ tun # "transit" => given'["transit"] = given["transit"]
  BY <1>6, <1>8 DEF Tunneled
<1>11. NoTwice(given["own"]) /\ NoTwice(given["transit"])
  BY DEF OvertakenInv, GivenOnce, Tunneled
<1>12. GivenTo("transit")' = G \cup M /\ NoTwice(given'["transit"])
  <2>1. PICK a, b : a = given["transit"] /\ b = given'["transit"]
    OBVIOUS
  <2>2. /\ a \in Seq(I2NPMsgs) /\ G = {a[j] : j \in DOMAIN a} /\ GivenTo("transit")' = {b[j] : j \in DOMAIN b}
        /\ NoTwice(a)
    BY <1>2, <1>5, <1>11, <2>1 DEF TunnelShape, GivenTo
  <2>3. CASE tun = "transit"
    <3>1. b = Append(a, m) /\ m \in I2NPMsgs /\ M = {m} /\ \A i \in DOMAIN a : a[i] # m
      BY <1>3, <1>4, <1>10, <2>1, <2>2, <2>3
    <3>2. JoinsOne(a, m, b)
      BY <2>2, <3>1, OnceAppended
    <3> QED
      BY <2>1, <2>2, <3>1, <3>2, Zenon DEF JoinsOne
  <2>4. CASE tun # "transit"
    BY <1>3, <1>10, <2>1, <2>2, <2>4
  <2> QED
    BY <2>3, <2>4
<1>13. GivenOnce' /\ GivenTo("own")' = GivenTo("own")
  BY <1>10, <1>11, <1>12 DEF GivenOnce, GivenTo, Tunneled
<1>14. ASSUME AllTold, NEW t \in Tunneled
       PROVE  Stories(gateway'[t], wire'[t], endpoint[t], GivenTo(t)', overtaken)
  <2>1. /\ Stories(gateway["transit"], wire["transit"], e, G, o)
        /\ Stories(gateway["own"], wire["own"], endpoint["own"], GivenTo("own"), o)
    BY <1>2, <1>14 DEF AllTold, Tunneled
  <2>2. Stories(before.g["transit"], before.w["transit"], e, G, o)
    BY <1>6, <1>8, <2>1, FlushStories
  <2>3. Stories(put["transit"], before.w["transit"], e, G \cup M, o)
    <3>1. CASE tun = "transit"
      <4>1. put["transit"] = PutI2NPMsg(before.g["transit"], m)
        BY <1>4, <1>8, <3>1 DEF Tunneled
      <4>2. Stories(PutI2NPMsg(before.g["transit"], m), before.w["transit"], e, G \cup {m}, o)
        BY <1>4, <2>2, <3>1, StoriesPut
      <4> QED
        BY <1>3, <3>1, <4>1, <4>2, Zenon
    <3>2. CASE tun # "transit"
      <4>1. put = before.g /\ G \cup M = G
        BY <1>3, <1>8, <3>2
      <4> QED
        BY <2>2, <4>1, Zenon
    <3> QED
      BY <3>1, <3>2
  <2>4. Stories(after.g["transit"], after.w["transit"], e, G \cup M, o)
    BY <1>4, <1>8, <2>3, FlushStories
  <2>5. CASE t = "transit"
    BY <1>2, <1>8, <1>12, <2>4, <2>5, Zenon
  <2>6. CASE t = "own"
    BY <1>2, <1>8, <1>9, <1>13, <2>1, <2>6, Zenon
  <2> QED
    BY <2>5, <2>6 DEF Tunneled
<1>15. UNCHANGED faultVars
  BY DEF HandleQueued
<1> QED
  BY <1>8, <1>13, <1>14, <1>15, OvertakenKept

LEMMA OvertakenNext ==
  TMsgInv /\ OvertakenInv /\ [TMsgNext]_tmsgVars => OvertakenInv'
<1> SUFFICES ASSUME TMsgInv, OvertakenInv, [TMsgNext]_tmsgVars PROVE OvertakenInv'
  OBVIOUS
<1>1. ASSUME UNCHANGED <<gateway, given, endpoint, wire, faultVars>>
      PROVE  OvertakenInv'
  <2>1. \A t : GivenTo(t)' = GivenTo(t)
    BY <1>1 DEF GivenTo
  <2>2. GivenOnce'
    BY <1>1 DEF OvertakenInv, GivenOnce
  <2>3. gateway' = gateway /\ wire' = wire
    BY <1>1
  <2>4. AllTold => \A t \in Tunneled : Stories(gateway'[t], wire'[t], endpoint[t], GivenTo(t)', overtaken)
    BY <2>1, <2>3, Zenon DEF AllTold
  <2> QED
    BY <1>1, <2>2, <2>4, OvertakenKept
<1>2. CASE TransitNext
  BY <1>1, <1>2, OvertakenHandle DEF TransitNext, PostTunnelData, BeginBatch
<1>3. CASE OwnNext
  BY <1>3, OvertakenOwn
<1>4. CASE WireNext
  BY <1>4, OvertakenWire
<1>5. CASE UNCHANGED tmsgVars
  BY <1>1, <1>5 DEF tmsgVars, faultVars
<1> QED
  BY <1>2, <1>3, <1>4, <1>5 DEF TMsgNext

LEMMA OvertakenTold ==
  TMsgInv /\ OvertakenInv => OneOvertakenHarmless
<1> SUFFICES ASSUME TMsgInv, OvertakenInv, NEW t \in Tunneled,
                    lost = 0, duplicated = 0, overtaken <= 1,
                    wire[t] = <<>>, ~gateway[t].open, gateway[t].complete = <<>>,
                    NEW m \in I2NPMsgs \ {0}, MsgLen[m] + 2 < I2NP_MAX_MESSAGE_SIZE, ~CutWhole(t, m)
             PROVE  Cardinality({i \in DOMAIN given[t] : given[t][i] = m}) =
                      Cardinality({i \in DOMAIN endpoint[t].handed : endpoint[t].handed[i].msg = m})
  BY Zenon DEF OneOvertakenHarmless
<1>1. PICK G, v, L : G = GivenTo(t) /\ v = View(endpoint[t], m) /\ L = Line(gateway[t], wire[t])
  OBVIOUS
<1>2. Story(L, v, m, G, overtaken)
  <2>1. Calm /\ m \in Told
    BY DEF Calm, Told
  <2>2. Stories(gateway[t], wire[t], endpoint[t], GivenTo(t), overtaken)
    BY <2>1, OvertakenIs DEF AllTold
  <2> QED
    BY <1>1, <2>1, <2>2, Zenon DEF Stories
<1>3. DOMAIN L = {}
  <2>1. Unsent(gateway[t]) = <<>>
    BY Zenon DEF Unsent
  <2>2. <<>> \o <<>> = <<>> /\ DOMAIN <<>> = {}
    OBVIOUS
  <2> QED
    BY <1>1, <2>1, <2>2, Zenon DEF Line
<1>4. PICK A, B : /\ A = {i \in DOMAIN given[t] : given[t][i] = m}
                  /\ B = {i \in DOMAIN endpoint[t].handed : endpoint[t].handed[i].msg = m}
  OBVIOUS
<1>5. v.times = B /\ v.asm = At(endpoint[t].incomplete, m)
  BY <1>1, <1>4 DEF View, Times
<1>6. CASE m \in G
  <2>1. \E j : A = {j}
    <3>1. PICK j \in DOMAIN given[t] : given[t][j] = m
      BY <1>1, <1>6 DEF GivenTo
    <3>2. NoTwice(given[t])
      BY DEF OvertakenInv, GivenOnce
    <3>3. A = {j}
      BY <1>4, <3>1, <3>2 DEF NoTwice
    <3> QED
      BY <3>3
  <2>2. ~Ahead(L, v, m, overtaken) /\ ~Gap(L, v, m, overtaken) /\ ~Beyond(L, v, m)
    BY <1>3 DEF Ahead, Gap, Beyond
  <2>3. ~Stuck(L, v, m)
    <3>1. SUFFICES ASSUME Stuck(L, v, m) PROVE FALSE
      OBVIOUS
    <3>2. PICK q \in v.asm : q.data[1][2] >= MsgLen[m]
      BY <3>1 DEF Stuck
    <3>3. m \in DOMAIN endpoint[t].incomplete /\ q = endpoint[t].incomplete[m]
      BY <1>5, <3>2 DEF At
    <3> QED
      BY <3>2, <3>3 DEF CutWhole
  <2>4. PassedOn(L, v, m)
    BY <1>2, <1>6, <2>2, <2>3, Zenon DEF Story
  <2>5. \E i : B = {i}
    BY <1>5, <2>4 DEF PassedOn, Finished
  <2>6. Cardinality(A) = 1 /\ Cardinality(B) = 1
    BY <2>1, <2>5, FS_Singleton
  <2> QED
    BY <1>4, <2>6
<1>7. CASE m \notin G
  <2>1. A = {}
    BY <1>1, <1>4, <1>7 DEF GivenTo
  <2>2. B = {}
    BY <1>2, <1>5, <1>7 DEF Story, Nothing
  <2> QED
    BY <1>4, <2>1, <2>2
<1> QED
  BY <1>6, <1>7

(* A tunnel data message overtaken by the next one costs nothing: when no    *)
(* more than that happened, and nothing is on its way, every message was     *)
(* passed on, but the three kinds the property names.                        *)
THEOREM SpecOneOvertakenHarmless == TMsgSpec => []OneOvertakenHarmless
<1>1. TMsgInit => TMsgInv /\ OvertakenInv
  BY TMsgInitInv, OvertakenInit
<1>2. TMsgInv /\ OvertakenInv /\ [TMsgNext]_tmsgVars => TMsgInv' /\ OvertakenInv'
  BY TMsgNextInv, OvertakenNext
<1>3. TMsgInv /\ OvertakenInv => OneOvertakenHarmless
  BY OvertakenTold
<1> QED
  BY <1>1, <1>2, <1>3, PTL DEF TMsgSpec

-----------------------------------------------------------------------------
(* A tunnel that holds messages is the one before in the batch, or one that  *)
(* a build message followed.                                                 *)
GatewayHolds(g) == g["transit"].open \/ g["transit"].complete # <<>>
HeldInv ==
  /\ run.prev \in {NoTunnel, "transit", "participant"}
  /\ run.prev # NoTunnel => run.prevID = run.prev
  /\ GatewayHolds(gateway) /\ "transit" \notin behindBuild
       => run.prev = "transit" /\ run.msg.type # "none"
  /\ held > 0 /\ "participant" \notin behindBuild
       => run.prev = "participant" /\ run.msg.type # "none"

LEMMA HeldInitInv == TMsgInit => HeldInv
<1> SUFFICES ASSUME TMsgInit PROVE HeldInv
  OBVIOUS
<1>1. ~GatewayHolds(gateway) /\ ~(held > 0)
  BY DEF TMsgInit, EmptyBuffer, Tunneled, GatewayHolds
<1>2. run.prev = NoTunnel
  BY DEF TMsgInit, Idle
<1> QED
  BY <1>1, <1>2 DEF HeldInv

LEMMA HeldHandle ==
  ASSUME TMsgInv, HeldInv, HandleQueued
  PROVE  HeldInv'
<1>1. TunnelShape /\ AllSound /\ QueuedOnce
  BY DEF TMsgInv
<1>2. run.msg \in Queued /\ run.msg.type # "none"
  BY <1>1 DEF HandleQueued, QueuedOnce
<1>3. PICK id, tunnelID, tun, before, put, kept, after :
        Turn(id, tunnelID, tun, before, put, kept, after)
  BY TurnOf
<1>4. /\ id \in {NoTunnel, "gone", "transit", "participant"} /\ tunnelID = IF id = NoTunnel THEN run.prevID ELSE id
      /\ tun = IF id \in {"transit", "participant"} THEN id ELSE NoTunnel
      /\ NoTunnel = "none"
  BY <1>2, <1>3, TunnelOfQueued DEF Turn, NoTunnel
<1>5. PICK prior : prior = FlushPrevious(id, tun)
  OBVIOUS
<1>6. prior = IF id # NoTunnel /\ run.prevID # id THEN run.prev ELSE NoTunnel
  BY <1>5 DEF FlushPrevious
<1>7. PICK last : last = IF msgQueue = <<>> THEN tun ELSE NoTunnel
  OBVIOUS
<1>8. PICK G, M : G = GivenTo("transit") /\ M = IF tun = "transit" THEN {run.msg.body} ELSE {}
  OBVIOUS
<1>9. PICK e : e = endpoint["transit"]
  OBVIOUS
<1>10. Sound(gateway["transit"], wire["transit"], e, G) /\ DOMAIN gateway = Tunneled /\ DOMAIN wire = Tunneled
  BY <1>1, <1>8, <1>9 DEF AllSound, TunnelShape, Tunneled
<1>11. /\ GatewayHolds(before.g) => GatewayHolds(gateway) /\ prior # "transit"
       /\ before.h > 0 => held > 0 /\ prior # "participant"
  <2>1. before = FlushTunnelDataMsgs(prior, gateway, held, wire)
    BY <1>3, <1>5 DEF Turn
  <2>2. /\ prior = "transit" => ~before.g["transit"].open /\ before.g["transit"].complete = <<>>
        /\ prior # "transit" => before.g = gateway
        /\ prior = "participant" => before.h = 0
        /\ prior # "participant" => before.h = held
    BY <1>10, <2>1, FlushSound
  <2> QED
    BY <2>2 DEF GatewayHolds
<1>12. Sound(put["transit"], before.w["transit"], e, G \cup M) /\ DOMAIN put = Tunneled /\ DOMAIN before.w = Tunneled
  BY <1>3, <1>8, <1>9, TurnPuts
<1>13. /\ GatewayHolds(after.g) => GatewayHolds(put) /\ last # "transit"
       /\ after.h > 0 => kept > 0 /\ last # "participant"
  <2>1. after = FlushTunnelDataMsgs(last, put, kept, before.w)
    BY <1>3, <1>7 DEF Turn
  <2>2. /\ last = "transit" => ~after.g["transit"].open /\ after.g["transit"].complete = <<>>
        /\ last # "transit" => after.g = put
        /\ last = "participant" => after.h = 0
        /\ last # "participant" => after.h = kept
    BY <1>12, <2>1, FlushSound
  <2> QED
    BY <2>2 DEF GatewayHolds
<1>14. /\ tun # "transit" => put = before.g
       /\ tun # "participant" => kept = before.h
  BY <1>3 DEF Turn
<1>15. /\ gateway' = after.g /\ held' = after.h
       /\ behindBuild' = (behindBuild \cup IF id = NoTunnel /\ run.prev # NoTunnel THEN {run.prev} ELSE {})
                           \ {t \in {"transit", "participant"} : t = tun}
  BY <1>3 DEF Turn
<1>16. /\ msgQueue = <<>> => run'.msg.type = "none" /\ run'.prev = NoTunnel
       /\ msgQueue # <<>> => run'.msg.type # "none" /\ run'.prev = tun /\ run'.prevID = tunnelID
  <2>1. CASE msgQueue = <<>>
    BY <1>3, <2>1 DEF Turn, Idle
  <2>2. CASE msgQueue # <<>>
    <3>1. run' = [msg |-> Head(msgQueue), prevID |-> tunnelID, prev |-> tun]
      BY <1>3, <2>2 DEF Turn
    <3>2. Head(msgQueue) \in Queued
      BY <1>1, <2>2 DEF QueuedOnce
    <3>3. Head(msgQueue).type # "none"
      BY <3>2, QueuedFields
    <3> QED
      BY <2>2, <3>1, <3>3
  <2> QED
    BY <2>1, <2>2
<1>17. ASSUME GatewayHolds(gateway'), "transit" \notin behindBuild'
       PROVE  run'.prev = "transit" /\ run'.msg.type # "none"
  <2>1. GatewayHolds(put) /\ last # "transit"
    BY <1>13, <1>15, <1>17
  <2>2. CASE tun = "transit"
    BY <1>7, <1>16, <2>1, <2>2
  <2>3. CASE tun # "transit"
    <3>1. GatewayHolds(gateway) /\ prior # "transit"
      BY <1>11, <1>14, <2>1, <2>3
    <3>2. "transit" \notin behindBuild /\ ~(id = NoTunnel /\ run.prev = "transit")
      BY <1>4, <1>15, <1>17, <2>3
    <3>3. run.prev = "transit" /\ run.prevID = "transit"
      BY <1>4, <3>1, <3>2 DEF HeldInv
    <3>4. id = "transit"
      BY <1>4, <1>6, <3>1, <3>2, <3>3
    <3> QED
      BY <1>4, <2>3, <3>4
  <2> QED
    BY <2>2, <2>3
<1>18. ASSUME held' > 0, "participant" \notin behindBuild'
       PROVE  run'.prev = "participant" /\ run'.msg.type # "none"
  <2>1. kept > 0 /\ last # "participant"
    BY <1>13, <1>15, <1>18
  <2>2. CASE tun = "participant"
    BY <1>7, <1>16, <2>1, <2>2
  <2>3. CASE tun # "participant"
    <3>1. held > 0 /\ prior # "participant"
      BY <1>11, <1>14, <2>1, <2>3
    <3>2. "participant" \notin behindBuild /\ ~(id = NoTunnel /\ run.prev = "participant")
      BY <1>4, <1>15, <1>18, <2>3
    <3>3. run.prev = "participant" /\ run.prevID = "participant"
      BY <1>4, <3>1, <3>2 DEF HeldInv
    <3>4. id = "participant"
      BY <1>4, <1>6, <3>1, <3>2, <3>3
    <3> QED
      BY <1>4, <2>3, <3>4
  <2> QED
    BY <2>2, <2>3
<1>19. run'.prev \in {NoTunnel, "transit", "participant"} /\ (run'.prev # NoTunnel => run'.prevID = run'.prev)
  BY <1>4, <1>16
<1> QED
  BY <1>17, <1>18, <1>19 DEF HeldInv

LEMMA HeldNextInv == TMsgInv /\ HeldInv /\ [TMsgNext]_tmsgVars => HeldInv'
<1> SUFFICES ASSUME TMsgInv, HeldInv, [TMsgNext]_tmsgVars PROVE HeldInv'
  OBVIOUS
<1>1. ASSUME gateway'["transit"] = gateway["transit"], UNCHANGED <<held, run, behindBuild>>
      PROVE  HeldInv'
  BY <1>1 DEF HeldInv, GatewayHolds
<1>2. ASSUME NEW q \in Queued, PostTunnelData(q)
      PROVE  HeldInv'
  BY <1>1, <1>2 DEF PostTunnelData
<1>3. ASSUME BeginBatch
      PROVE  HeldInv'
  <2>1. /\ UNCHANGED <<gateway, held, behindBuild>> /\ run.msg.type = "none"
        /\ run' = [Idle EXCEPT !.msg = Head(msgQueue)]
    BY <1>3 DEF BeginBatch
  <2>2. run'.prev = NoTunnel
    BY <2>1 DEF Idle
  <2>3. (GatewayHolds(gateway) => "transit" \in behindBuild) /\ (held > 0 => "participant" \in behindBuild)
    BY <2>1 DEF HeldInv
  <2> QED
    BY <2>1, <2>2, <2>3 DEF HeldInv
<1>4. ASSUME HandleQueued
      PROVE  HeldInv'
  BY <1>4, HeldHandle
<1>5. ASSUME NEW ms \in OwnBlocks, SendTunnelDataMsgs(ms)
      PROVE  HeldInv'
  <2>1. gateway'["transit"] = gateway["transit"]
    BY <1>5 DEF SendTunnelDataMsgs, TMsgInv, TunnelShape, Tunneled
  <2> QED
    BY <1>1, <1>5, <2>1 DEF SendTunnelDataMsgs
<1>6. ASSUME NEW t \in Tunneled, (\E i \in DOMAIN wire[t] : Deliver(t, i)) \/ Lose(t) \/ Duplicate(t)
      PROVE  HeldInv'
  BY <1>1, <1>6 DEF Deliver, Lose, Duplicate
<1>7. CASE UNCHANGED tmsgVars
  BY <1>1, <1>7 DEF tmsgVars
<1> QED
  BY <1>2, <1>3, <1>4, <1>5, <1>6, <1>7 DEF TMsgNext, TransitNext, OwnNext, WireNext

(* When Run has emptied its queue, nothing is left in a transit tunnel but   *)
(* behind a build message.                                                   *)
THEOREM SpecHeldOnlyBehindBuild == TMsgSpec => []HeldOnlyBehindBuild
<1>1. TMsgInit => TMsgInv /\ HeldInv
  BY TMsgInitInv, HeldInitInv
<1>2. TMsgInv /\ HeldInv /\ [TMsgNext]_tmsgVars => TMsgInv' /\ HeldInv'
  BY TMsgNextInv, HeldNextInv
<1>3. TMsgInv /\ HeldInv => HeldOnlyBehindBuild
  BY DEF HeldInv, GatewayHolds, HeldOnlyBehindBuild
<1> QED
  BY <1>1, <1>2, <1>3, PTL DEF TMsgSpec

-----------------------------------------------------------------------------
(* Tunnels, for any number of them and any timeouts: the containers agree   *)
(* on the tunnels there are, the pool holds only tunnels that work, and a   *)
(* tunnel fails on its second failed test in a row, however the two threads *)
(* interleave.                                                              *)
Built == {"Established", "TestFailed", "Failed", "Expiring"}
Managing == {"inbound", "outbound", "create", "test"}

(* A listed tunnel is built; a pool tunnel is listed, points back and has   *)
(* not failed; a tested tunnel has not failed either.  The tunnel that is   *)
(* about to be inserted is like a pool tunnel, and is not in the pool yet.  *)
PoolInv ==
  /\ \A t \in listed : tunnel[t].state \in Built
  /\ \A t \in members : t \in listed /\ tunnel[t].pool /\ tunnel[t].state # "Failed"
  /\ \A p \in m_Tests : /\ tunnel[p[1]].state \in Built \ {"Failed"}
                        /\ tunnel[p[2]].state \in Built \ {"Failed"}
  /\ pc \in {"add", "insert"} =>
       /\ adding \notin members
       /\ tunnel[adding].pool /\ tunnel[adding].state = "Established"

(* What ManageTunnels has gone through since it was due last has not        *)
(* expired, and a build request it left is within its time.                 *)
AgeInv ==
  /\ pc \in Managing => ~due
  /\ ~due => \A t \in pending :
       tunnel[t].state = "Pending" => tunnel[t].age <= TUNNEL_CREATION_TIMEOUT
  /\ ~due /\ pc # "inbound" => \A t \in listed \cap In : ~Ends(t, 0)
  /\ ~due /\ pc \notin {"inbound", "outbound"} => \A t \in listed \cap Out : ~Ends(t, 0)

(* A tunnel whose last test failed has a strike, a failed one has two.      *)
StrikesInv ==
  \A t \in Tunnel : tunnel[t] # None =>
    /\ tunnel[t].state = "TestFailed" => tunnel[t].strikes \in 1..2
    /\ tunnel[t].state = "Failed" => tunnel[t].strikes = 2

IInv == TypeOK /\ PoolInv /\ AgeInv /\ StrikesInv

-----------------------------------------------------------------------------
THEOREM InitInv == Init => IInv
BY ConstantsAssumption DEF Init, IInv, TypeOK, PoolInv, AgeInv, StrikesInv, Referenced, Tested, Managing

-----------------------------------------------------------------------------
(* Facts used in many places.                                               *)

LEMMA TunnelFacts ==
  /\ In \subseteq Tunnel /\ Out \subseteq Tunnel /\ In \cap Out = {}
  /\ None \notin Tunnel /\ None \notin Fields
BY ConstantsAssumption DEF Tunnel

(* The fields of a tunnel, and what an assignment to one of them changes.   *)
LEMMA FieldFacts ==
  ASSUME NEW f \in Fields
  PROVE  /\ f # None
         /\ f.state \in States /\ f.age \in Nat /\ f.age <= TUNNEL_EXPIRATION_TIMEOUT + 1
         /\ f.strikes \in 0..2
BY ConstantsAssumption DEF Fields

LEMMA StateFacts ==
  ASSUME NEW f \in Fields, NEW s \in States
  PROVE  LET g == [f EXCEPT !.state = s]
         IN /\ g \in Fields /\ g.state = s
            /\ g.age = f.age /\ g.pool = f.pool /\ g.strikes = f.strikes
BY DEF Fields

LEMMA PoolFacts ==
  ASSUME NEW f \in Fields
  PROVE  LET g == [f EXCEPT !.pool = FALSE]
         IN /\ g \in Fields /\ g.state = f.state /\ g.age = f.age
            /\ ~g.pool /\ g.strikes = f.strikes
BY DEF Fields

LEMMA RecreatedFacts ==
  ASSUME NEW f \in Fields
  PROVE  LET g == [f EXCEPT !.recreated = TRUE]
         IN /\ g \in Fields /\ g.state = f.state /\ g.age = f.age
            /\ g.pool = f.pool /\ g.strikes = f.strikes
BY DEF Fields

LEMMA NewTunnelFacts ==
  ASSUME NEW b \in BOOLEAN
  PROVE  /\ NewTunnel(b) \in Fields /\ NewTunnel(b) # None
         /\ NewTunnel(b).state = "Pending" /\ NewTunnel(b).age = 0
         /\ NewTunnel(b).pool = b
<1>1. /\ NewTunnel(b).state = "Pending" /\ NewTunnel(b).age = 0
      /\ NewTunnel(b).pool = b
  BY Zenon DEF NewTunnel
<1>2. NewTunnel(b) \in Fields
  <2>1. 0 \in 0..TUNNEL_EXPIRATION_TIMEOUT + 1 /\ 0 \in 0..2
    BY ConstantsAssumption
  <2>2. "Pending" \in States /\ FALSE \in BOOLEAN
    BY DEF States
  <2> QED
    BY <2>1, <2>2, Zenon DEF NewTunnel, Fields
<1> QED
  BY <1>1, <1>2, ConstantsAssumption

(* Release destroys what no container points to, and nothing else.          *)
LEMMA ReleaseFacts ==
  ASSUME NEW tun \in [Tunnel -> Fields \cup {None}], Release(tun),
         Referenced' \subseteq Tunnel,
         \A t \in Referenced' : tun[t] # None
  PROVE  /\ tunnel' \in [Tunnel -> Fields \cup {None}]
         /\ \A t \in Tunnel : tunnel'[t] # None <=> t \in Referenced'
         /\ \A t \in Tunnel : tunnel'[t] # None => tunnel'[t] = tun[t]
         /\ \A t \in Referenced' : tunnel'[t] = tun[t]
<1> DEFINE R == Referenced'
<1>1. tunnel' = [t \in Tunnel |-> IF t \in R THEN tun[t] ELSE None]
  BY DEF Release
<1>2. R \subseteq Tunnel /\ \A t \in R : tun[t] # None
  OBVIOUS
<1> HIDE DEF R
<1>3. /\ tunnel' \in [Tunnel -> Fields \cup {None}]
      /\ \A t \in Tunnel : tunnel'[t] # None <=> t \in R
      /\ \A t \in Tunnel : tunnel'[t] # None => tunnel'[t] = tun[t]
      /\ \A t \in R : tunnel'[t] = tun[t]
  BY <1>1, <1>2
<1> QED
  BY <1>3 DEF R

(* What points to a tunnel points to a tunnel there is.                     *)
WellReferenced ==
  /\ Referenced \subseteq Tunnel
  /\ \A t \in Referenced : tunnel[t] \in Fields
  /\ \A t \in Tunnel \ Referenced : tunnel[t] = None
  /\ pending \subseteq Referenced /\ listed \subseteq Referenced
  /\ members \subseteq Referenced
  /\ \A p \in m_Tests : /\ p[1] \in Out /\ p[2] \in In
                        /\ p[1] \in Referenced /\ p[2] \in Referenced

LEMMA ReferencedFacts ==
  /\ TypeOK => WellReferenced
  /\ TypeOK' => WellReferenced'
<1>1. TypeOK => WellReferenced
  <2> SUFFICES ASSUME TypeOK PROVE WellReferenced
    OBVIOUS
  <2>1. \A p \in m_Tests : p[1] \in Out /\ p[2] \in In
    BY DEF TypeOK
  <2>2. \A p \in m_Tests : p[1] \in Tested /\ p[2] \in Tested
    BY DEF Tested
  <2>3. Tested \subseteq Tunnel
    BY <2>1 DEF Tested, Tunnel
  <2> QED
    BY <2>1, <2>2, <2>3 DEF TypeOK, Referenced, WellReferenced
<1> QED
  BY <1>1, PTL

-----------------------------------------------------------------------------
(* One lemma per action.                                                    *)

(* Stop and Start touch no container.                                       *)
LEMMA SetActiveStep ==
  ASSUME IInv, Start \/ Stop
  PROVE  IInv'
<1>1. UNCHANGED <<tunnel, pending, listed, members, m_Tests, pc, adding, due, crashed>>
  BY Zenon DEF Start, Stop, SetActive
<1>2. Referenced' = Referenced
  BY <1>1 DEF Referenced, Tested
<1>3. m_IsActive' \in BOOLEAN /\ client' \in {"running", "detachIn"}
  BY Zenon DEF Start, Stop, SetActive
<1>4. TypeOK'
  BY <1>1, <1>2, <1>3 DEF IInv, TypeOK
<1> QED
  BY <1>1, <1>4 DEF IInv, PoolInv, AgeInv, StrikesInv, Ends

LEMMA TunnelCreatedStep ==
  ASSUME IInv, TunnelCreated
  PROVE  IInv'
<1>1. /\ UNCHANGED <<tunnel, pending, listed, members, m_Tests, m_IsActive, client,
                     due, crashed>>
      /\ pc = "add"
      /\ \/ pc' = "insert" /\ adding' = adding
         \/ pc' = "idle" /\ adding' = None
  BY Zenon DEF TunnelCreated
<1>2. Referenced' = Referenced
  BY <1>1 DEF Referenced, Tested
<1>3. TypeOK'
  BY <1>1, <1>2 DEF IInv, TypeOK
<1> QED
  BY <1>1, <1>3 DEF IInv, PoolInv, AgeInv, StrikesInv, Ends, Managing

(* The inserted tunnel is listed already.                                   *)
LEMMA InsertCreatedStep ==
  ASSUME IInv, InsertCreated
  PROVE  IInv'
<1>1. /\ UNCHANGED <<tunnel, pending, listed, m_Tests, m_IsActive, client, due, crashed>>
      /\ members' = members \cup {adding}
      /\ pc = "insert" /\ pc' = "idle" /\ adding' = None
  BY DEF InsertCreated
<1>2. adding \in listed /\ tunnel[adding].pool /\ tunnel[adding].state = "Established"
  BY <1>1 DEF IInv, TypeOK, PoolInv
<1>3. Referenced' = Referenced
  BY <1>1, <1>2 DEF Referenced, Tested
<1>4. TypeOK'
  BY <1>1, <1>2, <1>3 DEF IInv, TypeOK
<1>5. PoolInv'
  BY <1>1, <1>2 DEF IInv, PoolInv
<1> QED
  BY <1>1, <1>4, <1>5 DEF IInv, AgeInv, StrikesInv, Ends, Managing

(* A tunnel that receives data works again, and its failed tests count no   *)
(* more.                                                                    *)
LEMMA HandleTunnelDataMsgStep ==
  ASSUME IInv, NEW u \in In, HandleTunnelDataMsg(u)
  PROVE  IInv'
<1>1. /\ UNCHANGED <<pending, listed, members, m_Tests, m_IsActive, client, pc, adding,
                     due, crashed>>
      /\ u \in listed /\ tunnel[u].state = "Failed" /\ pc = "idle"
      /\ tunnel' = [SetState(tunnel, {u}, "Established") EXCEPT ![u].strikes = 0]
  BY DEF HandleTunnelDataMsg, IsFailed, NotBusy
<1>2. Referenced' = Referenced
  BY <1>1 DEF Referenced, Tested
<1>3. u \in Tunnel /\ tunnel[u] \in Fields
  BY <1>1, ReferencedFacts, TunnelFacts DEF WellReferenced, IInv
<1>4. /\ tunnel' \in [Tunnel -> Fields \cup {None}]
      /\ \A t \in Tunnel \ {u} : tunnel'[t] = tunnel[t]
      /\ tunnel'[u] \in Fields /\ tunnel'[u].state = "Established"
      /\ tunnel'[u].pool = tunnel[u].pool /\ tunnel'[u].age = tunnel[u].age
  <2> DEFINE f == [tunnel[u] EXCEPT !.state = "Established"]
             g == [f EXCEPT !.strikes = 0]
  <2>1. f \in Fields /\ f.state = "Established" /\ f.pool = tunnel[u].pool
        /\ f.age = tunnel[u].age
    BY <1>3, StateFacts DEF States
  <2> HIDE DEF f
  <2>2. g \in Fields /\ g.state = f.state /\ g.pool = f.pool /\ g.age = f.age
    BY <2>1 DEF Fields
  <2> HIDE DEF g
  <2>3. tunnel' = [t \in Tunnel |-> IF t = u THEN g ELSE tunnel[t]]
    BY <1>1, <1>3 DEF SetState, f, g
  <2> QED
    BY <1>3, <2>1, <2>2, <2>3 DEF IInv, TypeOK
<1>5. TypeOK'
  BY <1>1, <1>2, <1>3, <1>4, TunnelFacts DEF IInv, TypeOK
<1>6. PoolInv'
  BY <1>1, <1>3, <1>4, ReferencedFacts, ZenonT(60) DEF WellReferenced, IInv, PoolInv, Built
<1>7. AgeInv'
  <2>1. \A t \in pending \cup listed : t \in Tunnel
    BY DEF IInv, TypeOK
  <2>2. \A t \in Tunnel : /\ tunnel'[t].age = tunnel[t].age
                          /\ tunnel'[t].state = "Pending" => tunnel[t].state = "Pending"
    BY <1>4
  <2> QED
    BY <1>1, <2>1, <2>2 DEF IInv, AgeInv, Ends
<1>8. StrikesInv'
  BY <1>3, <1>4 DEF IInv, StrikesInv
<1> QED
  BY <1>5, <1>6, <1>7, <1>8 DEF IInv

LEMMA TickStep ==
  ASSUME IInv, Tick
  PROVE  IInv'
<1>1. /\ UNCHANGED <<pending, listed, members, m_Tests, m_IsActive, client, pc, adding,
                     crashed>>
      /\ pc = "idle" /\ due' = TRUE
  BY Zenon DEF Tick, NotBusy
<1>2. Referenced' = Referenced
  BY <1>1 DEF Referenced, Tested
<1>3. /\ tunnel' \in [Tunnel -> Fields \cup {None}]
      /\ \A t \in Tunnel :
           /\ tunnel[t] = None => tunnel'[t] = None
           /\ tunnel[t] # None => /\ tunnel'[t] # None
                                  /\ tunnel'[t].state = tunnel[t].state
                                  /\ tunnel'[t].pool = tunnel[t].pool
                                  /\ tunnel'[t].strikes = tunnel[t].strikes
  <2> DEFINE older(f) == [f EXCEPT !.age = Age(@)]
  <2>1. ASSUME NEW f \in Fields
        PROVE  /\ older(f) \in Fields /\ older(f).state = f.state
               /\ older(f).pool = f.pool /\ older(f).strikes = f.strikes
    <3>1. Age(f.age) \in 0..TUNNEL_EXPIRATION_TIMEOUT + 1
      <4>1. f.age \in Nat /\ f.age <= TUNNEL_EXPIRATION_TIMEOUT + 1
        BY <2>1, FieldFacts
      <4> QED
        BY <4>1, ConstantsAssumption DEF Age
    <3> QED
      BY <3>1 DEF Fields
  <2>2. tunnel' = [t \in Tunnel |-> IF tunnel[t] = None THEN None ELSE older(tunnel[t])]
    BY DEF Tick
  <2> HIDE DEF older
  <2> QED
    BY <2>1, <2>2, TunnelFacts DEF IInv, TypeOK
<1>4. TypeOK'
  BY <1>1, <1>2, <1>3 DEF IInv, TypeOK
<1>5. PoolInv'
  BY <1>1, <1>3, ReferencedFacts, TunnelFacts DEF WellReferenced, IInv, PoolInv
<1>6. AgeInv'
  BY <1>1 DEF AgeInv, Managing
<1>7. StrikesInv'
  BY <1>3 DEF IInv, StrikesInv
<1> QED
  BY <1>4, <1>5, <1>6, <1>7 DEF IInv

(* A build request that is left is within its time.                         *)
LEMMA ManagePendingTunnelsStep ==
  ASSUME IInv, ManagePendingTunnels
  PROVE  IInv'
<1>1. /\ UNCHANGED <<listed, members, m_Tests, m_IsActive, client, adding, crashed>>
      /\ pc = "idle" /\ pc' = "inbound" /\ due' = FALSE
      /\ pending' = {t \in pending : ~PendingOver(t)}
      /\ Release(tunnel)
  BY Zenon DEF ManagePendingTunnels, NotBusy
<1>2. Referenced' \subseteq Referenced
  BY <1>1 DEF Referenced, Tested
<1>3. /\ tunnel' \in [Tunnel -> Fields \cup {None}]
      /\ \A t \in Tunnel : tunnel'[t] # None <=> t \in Referenced'
      /\ \A t \in Tunnel : tunnel'[t] # None => tunnel'[t] = tunnel[t]
      /\ \A t \in Referenced' : tunnel'[t] = tunnel[t]
  BY <1>1, <1>2, ReleaseFacts, ReferencedFacts, TunnelFacts DEF WellReferenced, IInv, TypeOK
<1>4. TypeOK'
  BY <1>1, <1>3 DEF IInv, TypeOK
<1>5. PoolInv'
  BY <1>1, <1>3, <1>4, ReferencedFacts DEF WellReferenced, IInv, PoolInv
<1>6. AgeInv'
  <2>1. ASSUME NEW t \in pending', tunnel'[t].state = "Pending"
        PROVE  tunnel'[t].age <= TUNNEL_CREATION_TIMEOUT
    <3>1. t \in Referenced' /\ tunnel'[t] = tunnel[t] /\ ~PendingOver(t)
          /\ tunnel[t] \in Fields
      BY <2>1, <1>1, <1>3, <1>4, ReferencedFacts DEF WellReferenced, IInv
    <3>2. tunnel[t].age \in Nat
      BY <3>1, FieldFacts
    <3> QED
      BY <2>1, <3>1, <3>2, ConstantsAssumption DEF PendingOver
  <2> QED
    BY <1>1, <2>1 DEF AgeInv, Managing
<1>7. StrikesInv'
  BY <1>3 DEF IInv, StrikesInv
<1> QED
  BY <1>4, <1>5, <1>6, <1>7 DEF IInv

LEMMA ClearTestsStep ==
  ASSUME IInv, ClearTests
  PROVE  IInv'
<1>1. /\ UNCHANGED <<pending, listed, members, m_IsActive, pc, adding, due>>
      /\ client' = "stopped" /\ crashed' \in BOOLEAN
      /\ m_Tests' = {}
      /\ Release(tunnel)
  BY DEF ClearTests
<1>2. Referenced' \subseteq Referenced
  BY <1>1 DEF Referenced, Tested
<1>3. /\ tunnel' \in [Tunnel -> Fields \cup {None}]
      /\ \A t \in Tunnel : tunnel'[t] # None <=> t \in Referenced'
      /\ \A t \in Tunnel : tunnel'[t] # None => tunnel'[t] = tunnel[t]
      /\ \A t \in Referenced' : tunnel'[t] = tunnel[t]
  BY <1>1, <1>2, ReleaseFacts, ReferencedFacts, TunnelFacts DEF WellReferenced, IInv, TypeOK
<1>4. TypeOK'
  BY <1>1, <1>3 DEF IInv, TypeOK
<1>5. PoolInv'
  BY <1>1, <1>3, <1>4, ReferencedFacts DEF WellReferenced, IInv, PoolInv, TypeOK
<1>6. AgeInv'
  BY <1>1, <1>3, <1>4, ReferencedFacts DEF WellReferenced, IInv, AgeInv, Ends
<1>7. StrikesInv'
  BY <1>3 DEF IInv, StrikesInv
<1> QED
  BY <1>4, <1>5, <1>6, <1>7 DEF IInv

(* The tunnel about to be inserted is not in the pool, so DetachTunnels     *)
(* leaves it alone.                                                         *)
LEMMA DetachStep ==
  ASSUME IInv, DetachInbound \/ DetachOutbound
  PROVE  IInv'
<1>0. PICK S \in {In, Out} :
      /\ UNCHANGED <<pending, listed, m_Tests, m_IsActive, pc, adding, due>>
      /\ client' \in {"detachOut", "clearTests"}
      /\ crashed' \in {FALSE, pc = "test" /\ members \cap S # {}}
      /\ members' = members \ S
      /\ tunnel' = SetTunnelPool(tunnel, members \cap S, FALSE)
  BY Zenon DEF DetachInbound, DetachOutbound, Detach
<1>1. crashed' \in BOOLEAN
  BY <1>0
<1>2. Referenced' = Referenced
  BY <1>0 DEF IInv, PoolInv, Referenced, Tested
<1>3. /\ tunnel' \in [Tunnel -> Fields \cup {None}]
      /\ \A t \in Tunnel :
           /\ t \notin members \cap S => tunnel'[t] = tunnel[t]
           /\ tunnel[t] = None => tunnel'[t] = None
           /\ tunnel[t] # None => /\ tunnel'[t] # None
                                  /\ tunnel'[t].state = tunnel[t].state
                                  /\ tunnel'[t].age = tunnel[t].age
                                  /\ tunnel'[t].strikes = tunnel[t].strikes
  <2>1. \A t \in members \cap S : t \in Tunnel /\ tunnel[t] \in Fields
    BY ReferencedFacts DEF WellReferenced, IInv
  <2>2. \A t \in Tunnel : tunnel'[t] = IF t \in members \cap S
                                       THEN [tunnel[t] EXCEPT !.pool = FALSE]
                                       ELSE tunnel[t]
    BY <1>0 DEF SetTunnelPool
  <2>3. tunnel' \in [Tunnel -> Fields \cup {None}]
    BY <1>0, <2>1, PoolFacts DEF SetTunnelPool, IInv, TypeOK
  <2>4. ASSUME NEW t \in Tunnel
        PROVE  /\ t \notin members \cap S => tunnel'[t] = tunnel[t]
               /\ tunnel[t] = None => tunnel'[t] = None
               /\ tunnel[t] # None => /\ tunnel'[t] # None
                                      /\ tunnel'[t].state = tunnel[t].state
                                      /\ tunnel'[t].age = tunnel[t].age
                                      /\ tunnel'[t].strikes = tunnel[t].strikes
    <3>1. CASE t \in members \cap S
      <4>1. tunnel'[t] = [tunnel[t] EXCEPT !.pool = FALSE] /\ tunnel[t] \in Fields
        BY <3>1, <2>1, <2>2
      <4> QED
        BY <3>1, <4>1, PoolFacts, FieldFacts
    <3> QED
      BY <3>1, <2>2
  <2> QED
    BY <2>3, <2>4
<1>4. TypeOK'
  BY <1>0, <1>1, <1>2, <1>3 DEF IInv, TypeOK
<1>5. PoolInv'
  <2>1. \A t \in listed : t \in Tunnel /\ tunnel[t] # None
    BY ReferencedFacts, TunnelFacts DEF WellReferenced, IInv
  <2>2. \A p \in m_Tests : /\ p[1] \in Tunnel /\ tunnel[p[1]] # None
                          /\ p[2] \in Tunnel /\ tunnel[p[2]] # None
    BY ReferencedFacts, TunnelFacts DEF WellReferenced, IInv
  <2>3. pc \in {"add", "insert"} => adding \in listed
    BY DEF IInv, TypeOK
  <2>4. \A t \in members' : t \in members /\ t \notin members \cap S
    BY <1>0
  <2>5. UNCHANGED <<listed, m_Tests, pc, adding>> /\ members' \subseteq members
    BY <1>0
  <2>6. \A t \in listed : /\ tunnel'[t].state = tunnel[t].state
                          /\ t \notin members \cap S => tunnel'[t].pool = tunnel[t].pool
    BY <1>3, <2>1
  <2>7. \A p \in m_Tests : /\ tunnel'[p[1]].state = tunnel[p[1]].state
                           /\ tunnel'[p[2]].state = tunnel[p[2]].state
    BY <1>3, <2>2
  <2> QED
    BY <2>3, <2>4, <2>5, <2>6, <2>7 DEF IInv, PoolInv
<1>6. AgeInv'
  <2>1. \A t \in pending \cup listed : t \in Tunnel /\ tunnel[t] # None
    BY ReferencedFacts, TunnelFacts DEF WellReferenced, IInv
  <2>2. \A t \in pending \cup listed : /\ tunnel'[t].state = tunnel[t].state
                                       /\ tunnel'[t].age = tunnel[t].age
    BY <1>3, <2>1
  <2>3. UNCHANGED <<pending, listed, pc, due>>
    BY <1>0
  <2> QED
    BY <2>2, <2>3 DEF IInv, AgeInv, Ends
<1>7. StrikesInv'
  BY <1>3 DEF IInv, StrikesInv
<1> QED
  BY <1>4, <1>5, <1>6, <1>7 DEF IInv

(* A test that passes takes its tunnels back from TestFailed, and their     *)
(* failed tests count no more.                                              *)
LEMMA ProcessDeliveryStatusStep ==
  ASSUME IInv, NEW p \in m_Tests, ProcessDeliveryStatus(p)
  PROVE  IInv'
<1> DEFINE passed == {p[1], p[2]}
           restored == SetState(tunnel, Restored(p), "Established")
           tun == [t \in Tunnel |-> IF t \in passed
                                    THEN [restored[t] EXCEPT !.strikes = 0]
                                    ELSE tunnel[t]]
<1>0. /\ p[1] \in Tunnel /\ p[2] \in Tunnel /\ None \notin passed
      /\ tunnel[p[1]] \in Fields /\ tunnel[p[2]] \in Fields
      /\ tunnel[p[1]].state \in Built \ {"Failed"}
      /\ tunnel[p[2]].state \in Built \ {"Failed"}
  BY ReferencedFacts, TunnelFacts DEF WellReferenced, IInv, PoolInv
<1>1. /\ UNCHANGED <<pending, listed, members, m_IsActive, client, pc, adding, due>>
      /\ crashed' = FALSE /\ m_Tests' = m_Tests \ {p}
  BY <1>0, Zenon DEF ProcessDeliveryStatus
<1>a. Release(tun)
  BY <1>1 DEF ProcessDeliveryStatus
<1>2. Referenced' \subseteq Referenced
  BY <1>1 DEF Referenced, Tested
<1>3. /\ tun \in [Tunnel -> Fields \cup {None}]
      /\ \A t \in Tunnel :
           /\ t \notin passed => tun[t] = tunnel[t]
           /\ t \in passed => /\ tun[t] \in Fields
                              /\ tun[t].state = IF tunnel[t].state = "TestFailed"
                                                THEN "Established" ELSE tunnel[t].state
                              /\ tun[t].pool = tunnel[t].pool
                              /\ tun[t].age = tunnel[t].age
  <2>1. ASSUME NEW f \in Fields
        PROVE  /\ [f EXCEPT !.strikes = 0] \in Fields
               /\ [f EXCEPT !.strikes = 0].state = f.state
               /\ [f EXCEPT !.strikes = 0].pool = f.pool
               /\ [f EXCEPT !.strikes = 0].age = f.age
    BY DEF Fields
  <2>2. ASSUME NEW t \in passed
        PROVE  /\ restored[t] \in Fields
               /\ restored[t].state = IF tunnel[t].state = "TestFailed"
                                      THEN "Established" ELSE tunnel[t].state
               /\ restored[t].pool = tunnel[t].pool
               /\ restored[t].age = tunnel[t].age
    <3>1. restored[t] = IF tunnel[t].state = "TestFailed"
                        THEN [tunnel[t] EXCEPT !.state = "Established"] ELSE tunnel[t]
      BY <1>0 DEF SetState, Restored
    <3>2. t \in Tunnel /\ tunnel[t] \in Fields /\ "Established" \in States
      BY <1>0 DEF States
    <3>3. CASE tunnel[t].state = "TestFailed"
      <4>1. restored[t] = [tunnel[t] EXCEPT !.state = "Established"]
        BY <3>1, <3>3
      <4> HIDE DEF restored
      <4> QED
        BY <3>2, <3>3, <4>1, StateFacts
    <3>4. CASE tunnel[t].state # "TestFailed"
      BY <3>1, <3>2, <3>4
    <3> QED
      BY <3>3, <3>4
  <2> HIDE DEF restored
  <2>3. \A t \in Tunnel : tun[t] = IF t \in passed THEN [restored[t] EXCEPT !.strikes = 0]
                                                   ELSE tunnel[t]
    OBVIOUS
  <2>4. \A t \in Tunnel : tun[t] \in Fields \cup {None}
    BY <2>1, <2>2, <2>3 DEF IInv, TypeOK
  <2>5. tun \in [Tunnel -> Fields \cup {None}]
    BY <2>4
  <2> HIDE DEF tun, passed
  <2>6. ASSUME NEW t \in Tunnel
        PROVE  /\ t \notin passed => tun[t] = tunnel[t]
               /\ t \in passed => /\ tun[t] \in Fields
                                  /\ tun[t].state = IF tunnel[t].state = "TestFailed"
                                                    THEN "Established" ELSE tunnel[t].state
                                  /\ tun[t].pool = tunnel[t].pool
                                  /\ tun[t].age = tunnel[t].age
    <3>1. CASE t \in passed
      <4>1. tun[t] = [restored[t] EXCEPT !.strikes = 0] /\ restored[t] \in Fields
        BY <3>1, <2>2, <2>3
      <4> QED
        BY <3>1, <4>1, <2>1, <2>2
    <3> QED
      BY <3>1, <2>3
  <2> QED
    BY <2>5, <2>6
<1>4. \A t \in Referenced' : tun[t] # None
  BY <1>2, <1>3, ReferencedFacts, TunnelFacts DEF WellReferenced, IInv
<1> HIDE DEF tun
<1>5. /\ tunnel' \in [Tunnel -> Fields \cup {None}]
      /\ \A t \in Tunnel : tunnel'[t] # None <=> t \in Referenced'
      /\ \A t \in Tunnel : tunnel'[t] # None => tunnel'[t] = tun[t]
      /\ \A t \in Referenced' : tunnel'[t] = tun[t]
  BY <1>a, <1>2, <1>3, <1>4, ReleaseFacts, ReferencedFacts DEF WellReferenced, IInv
<1>6. TypeOK'
  BY <1>1, <1>5 DEF IInv, TypeOK
<1>7. PoolInv'
  <2>1. \A t \in Referenced' : tunnel'[t] = tun[t] /\ t \in Tunnel
    BY <1>5, <1>6, ReferencedFacts DEF WellReferenced
  <2>2. /\ listed \subseteq Referenced' /\ members \subseteq listed
        /\ \A q \in m_Tests' : q[1] \in Referenced' /\ q[2] \in Referenced'
    BY <1>1, <1>6, ReferencedFacts DEF WellReferenced, IInv, PoolInv
  <2>3. pc \in {"add", "insert"} => adding \in listed
    BY DEF IInv, TypeOK
  <2>4. \A t \in Tunnel : /\ tun[t].pool = tunnel[t].pool
                          /\ tun[t].state = tunnel[t].state \/ tun[t].state = "Established"
    BY <1>3
  <2>5. \A t \in Referenced' : /\ tunnel'[t].pool = tunnel[t].pool
                               /\ \/ tunnel'[t].state = tunnel[t].state
                                  \/ tunnel'[t].state = "Established"
    BY <2>1, <2>4
  <2>6. m_Tests' \subseteq m_Tests /\ pc' = pc /\ listed' = listed /\ members' = members
        /\ adding' = adding
    BY <1>1
  <2> HIDE DEF passed
  <2> QED
    BY <2>2, <2>3, <2>5, <2>6 DEF IInv, PoolInv, Built
<1>8. AgeInv'
  <2>1. \A t \in Referenced' : tunnel'[t] = tun[t] /\ t \in Tunnel
    BY <1>5, <1>6, ReferencedFacts DEF WellReferenced
  <2>2. \A t \in Tunnel : /\ tun[t].age = tunnel[t].age
                          /\ tun[t].state = tunnel[t].state \/ tun[t].state = "Established"
    BY <1>3
  <2>3. \A t \in Referenced' : /\ tunnel'[t].age = tunnel[t].age
                               /\ \/ tunnel'[t].state = tunnel[t].state
                                  \/ tunnel'[t].state = "Established"
    BY <2>1, <2>2
  <2>4. pending' \subseteq Referenced' /\ listed' \subseteq Referenced'
    BY <1>6, ReferencedFacts DEF WellReferenced
  <2> QED
    BY <1>1, <2>3, <2>4 DEF IInv, AgeInv, Ends
<1>9. StrikesInv'
  BY <1>0, <1>3, <1>5 DEF IInv, StrikesInv
<1> QED
  BY <1>6, <1>7, <1>8, <1>9 DEF IInv

-----------------------------------------------------------------------------
(* ManageTunnels                                                            *)

(* A new tunnel takes an unused place.                                      *)
Adds(tun, T, made) ==
  /\ made \in [Tunnel -> Fields \cup {None}]
  /\ \A t \in Tunnel : t \notin T => made[t] = tun[t]
  /\ \A t \in Tunnel : t \in T =>
       /\ made[t] # None /\ made[t].state = "Pending" /\ made[t].age = 0

LEMMA CreateFacts ==
  ASSUME NEW tun \in [Tunnel -> Fields \cup {None}], NEW T
  PROVE  Adds(tun, T, Create(tun, T, TRUE)) /\ Adds(tun, T, Create(tun, T, FALSE))
<1>1. ASSUME NEW new \in Fields, new # None, new.state = "Pending", new.age = 0
      PROVE  Adds(tun, T, [t \in Tunnel |-> IF t \in T THEN new ELSE tun[t]])
  BY <1>1 DEF Adds
<1> QED
  BY <1>1, NewTunnelFacts, Zenon DEF Create

(* CreateTunnels and a build request of Tunnels' own add to the pending     *)
(* tunnels, none of which there was before.                                 *)
LEMMA CreateTunnelsStep ==
  ASSUME IInv, CreateTunnels
  PROVE  IInv'
<1>1. /\ UNCHANGED <<listed, members, m_Tests, m_IsActive, client, adding, due, crashed>>
      /\ pc = "create" /\ pc' \in {"test", "idle"}
  BY Zenon DEF CreateTunnels
<1>2. PICK new \in SUBSET Tunnel : /\ \A t \in new : tunnel[t] = None
                                   /\ pending' = pending \cup new
                                   /\ tunnel' = Create(tunnel, new, TRUE)
  <2>1. CASE m_IsActive
    <3>1. PICK i \in 0..Missing(In), o \in 0..Missing(Out) :
            LET new == CreateInboundTunnel(i) \cup CreateOutboundTunnel(o)
            IN /\ pending' = pending \cup new
               /\ tunnel' = Create(tunnel, new, TRUE)
      BY <2>1, Zenon DEF CreateTunnels
    <3> DEFINE new == CreateInboundTunnel(i) \cup CreateOutboundTunnel(o)
    <3>2. new \subseteq Free(In) \cup Free(Out)
      BY DEF CreateInboundTunnel, CreateOutboundTunnel, First
    <3>3. \A t \in new : t \in Tunnel /\ tunnel[t] = None
      BY <3>2, TunnelFacts DEF Free
    <3> HIDE DEF new
    <3>4. pending' = pending \cup new /\ tunnel' = Create(tunnel, new, TRUE)
      BY <3>1 DEF new
    <3> QED
      BY <3>3, <3>4
  <2>2. CASE ~m_IsActive
    <3>1. pending' = pending /\ tunnel' = tunnel
      BY <2>2, Zenon DEF CreateTunnels
    <3>2. Create(tunnel, {}, TRUE) = tunnel
      BY DEF Create, IInv, TypeOK
    <3> QED
      BY <3>1, <3>2
  <2> QED
    BY <2>1, <2>2
<1>3. Referenced' = Referenced \cup new
  BY <1>1, <1>2 DEF Referenced, Tested
<1>4. /\ tunnel' \in [Tunnel -> Fields \cup {None}]
      /\ \A t \in Tunnel : t \notin new => tunnel'[t] = tunnel[t]
      /\ \A t \in new : /\ tunnel'[t] # None /\ tunnel'[t].state = "Pending"
                        /\ tunnel'[t].age = 0
  <2>1. tunnel \in [Tunnel -> Fields \cup {None}]
    BY DEF IInv, TypeOK
  <2>2. Adds(tunnel, new, tunnel')
    BY <1>2, <2>1, CreateFacts, Zenon
  <2> QED
    BY <1>2, <2>2 DEF Adds
<1>5. Referenced \cap new = {}
  BY <1>2, ReferencedFacts, TunnelFacts DEF WellReferenced, IInv
<1>6. TypeOK'
  BY <1>1, <1>2, <1>3, <1>4, <1>5 DEF IInv, TypeOK
<1>7. \A t \in Referenced : t \in Tunnel /\ tunnel'[t] = tunnel[t]
  BY <1>4, <1>5, ReferencedFacts DEF WellReferenced, IInv
<1>8. PoolInv'
  BY <1>1, <1>7, ReferencedFacts DEF WellReferenced, IInv, PoolInv
<1>9. AgeInv'
  <2>1. pending \subseteq Referenced /\ listed \subseteq Referenced
    BY ReferencedFacts DEF WellReferenced, IInv
  <2> QED
    <3>1. ASSUME ~due', NEW t \in pending', tunnel'[t].state = "Pending"
          PROVE  tunnel'[t].age <= TUNNEL_CREATION_TIMEOUT
      <4>1. CASE t \in new
        BY <4>1, <1>4, ConstantsAssumption
      <4>2. CASE t \in pending
        BY <3>1, <4>2, <1>1, <1>7, <2>1 DEF IInv, AgeInv
      <4> QED
        BY <4>1, <4>2, <1>2
    <3>2. \A t \in listed : tunnel'[t] = tunnel[t]
      BY <1>7, <2>1
    <3>3. pc' \in Managing => ~due'
      BY <1>1 DEF IInv, AgeInv, Managing
    <3> QED
      BY <1>1, <3>1, <3>2, <3>3 DEF IInv, AgeInv, Ends
<1>10. StrikesInv'
  <2>1. \A t \in Tunnel : tunnel'[t] = tunnel[t] \/ tunnel'[t].state = "Pending"
    BY <1>4
  <2> QED
    BY <2>1 DEF IInv, StrikesInv
<1> QED
  BY <1>6, <1>8, <1>9, <1>10 DEF IInv

(* The loop takes expired tunnels out of both lists, and marks others.      *)
LEMMA ManageTunnelsStep ==
  ASSUME IInv, NEW S \in {In, Out}, NEW n, NEW m, ManageTunnels(S, n, m),
         \/ S = In /\ pc = "inbound" /\ pc' = "outbound"
         \/ S = Out /\ pc = "outbound" /\ pc' = "create"
  PROVE  IInv'
<1> DEFINE forPool == First(n, Free(S))
           own == First(m, Free(S) \ forPool)
           new == forPool \cup own
           aged == [t \in Tunnel |-> IF t \in RecreationDue(S)
                                     THEN [tunnel[t] EXCEPT !.recreated = TRUE]
                                     ELSE tunnel[t]]
           marked == SetState(aged, ExpirationNear(S), "Expiring")
           left == SetTunnelPool(marked, LeavingPool(S), FALSE)
           made == Create(left, forPool, TRUE)
           all == Create(made, own, FALSE)
<1>1. /\ listed' = listed \ Expired(S)
      /\ members' = members \ LeavingPool(S)
      /\ m_Tests' = m_Tests
      /\ pending' = pending \cup new
      /\ Release(all)
      /\ UNCHANGED <<m_IsActive, client, adding, due, crashed>>
  BY DEF ManageTunnels, RemainingTests
<1>2. \A t \in new : t \in Tunnel /\ tunnel[t] = None
  BY TunnelFacts DEF First, Free
<1>3. /\ RecreationDue(S) \subseteq Referenced /\ LeavingPool(S) \subseteq Referenced
      /\ ExpirationNear(S) \subseteq Referenced /\ Expired(S) \subseteq Referenced
      /\ \A t \in ExpirationNear(S) : tunnel[t].state = "Established"
  BY ReferencedFacts DEF WellReferenced, IInv, RecreationDue, LeavingPool, ExpirationNear,
                         Kept, Expired, IsEstablished
<1>4. \A t \in Referenced : t \in Tunnel /\ tunnel[t] \in Fields
  BY ReferencedFacts DEF WellReferenced, IInv
<1>5. tunnel \in [Tunnel -> Fields \cup {None}]
  BY DEF IInv, TypeOK
<1>6. /\ aged \in [Tunnel -> Fields \cup {None}]
      /\ \A t \in Tunnel \ Referenced : aged[t] = tunnel[t]
      /\ \A t \in Referenced : /\ aged[t] \in Fields /\ aged[t].state = tunnel[t].state
                               /\ aged[t].age = tunnel[t].age /\ aged[t].pool = tunnel[t].pool
                               /\ aged[t].strikes = tunnel[t].strikes
  <2>1. ASSUME NEW t \in Referenced
        PROVE  /\ aged[t] \in Fields /\ aged[t].state = tunnel[t].state
               /\ aged[t].age = tunnel[t].age /\ aged[t].pool = tunnel[t].pool
               /\ aged[t].strikes = tunnel[t].strikes
    <3>1. CASE t \in RecreationDue(S)
      <4>1. aged[t] = [tunnel[t] EXCEPT !.recreated = TRUE]
        BY <1>4, <3>1
      <4> HIDE DEF aged
      <4> QED
        BY <1>4, <4>1, RecreatedFacts
    <3>2. CASE t \notin RecreationDue(S)
      BY <1>4, <3>2
    <3> QED
      BY <3>1, <3>2
  <2>2. \A t \in Tunnel \ Referenced : aged[t] = tunnel[t]
    BY <1>3
  <2>3. \A t \in Tunnel : aged[t] \in Fields \cup {None}
    BY <2>1, <2>2, <1>5
  <2> QED
    BY <2>1, <2>2, <2>3
<1> HIDE DEF aged
<1>7. /\ marked \in [Tunnel -> Fields \cup {None}]
      /\ \A t \in Tunnel \ Referenced : marked[t] = tunnel[t]
      /\ \A t \in Referenced :
           /\ marked[t] \in Fields
           /\ marked[t].state = IF t \in ExpirationNear(S) THEN "Expiring" ELSE tunnel[t].state
           /\ marked[t].age = tunnel[t].age /\ marked[t].pool = tunnel[t].pool
           /\ marked[t].strikes = tunnel[t].strikes
  <2>0. marked = [t \in Tunnel |-> IF t \in ExpirationNear(S)
                                   THEN [aged[t] EXCEPT !.state = "Expiring"] ELSE aged[t]]
    BY DEF SetState
  <2> HIDE DEF marked
  <2>1. ASSUME NEW t \in Referenced
        PROVE  /\ marked[t] \in Fields
               /\ marked[t].state = IF t \in ExpirationNear(S) THEN "Expiring"
                                                               ELSE tunnel[t].state
               /\ marked[t].age = tunnel[t].age /\ marked[t].pool = tunnel[t].pool
               /\ marked[t].strikes = tunnel[t].strikes
    <3>1. CASE t \in ExpirationNear(S)
      <4>1. marked[t] = [aged[t] EXCEPT !.state = "Expiring"] /\ aged[t] \in Fields
        BY <1>4, <1>6, <2>0, <3>1
      <4>2. "Expiring" \in States
        BY DEF States
      <4> QED
        BY <1>6, <3>1, <4>1, <4>2, StateFacts
    <3>2. CASE t \notin ExpirationNear(S)
      BY <1>4, <1>6, <2>0, <3>2
    <3> QED
      BY <3>1, <3>2
  <2>2. \A t \in Tunnel \ Referenced : marked[t] = tunnel[t]
    BY <1>3, <1>6, <2>0
  <2>3. \A t \in Tunnel : marked[t] \in Fields \cup {None}
    BY <2>1, <2>2, <1>5
  <2> QED
    BY <2>0, <2>1, <2>2, <2>3
<1> HIDE DEF marked
<1>8. /\ left \in [Tunnel -> Fields \cup {None}]
      /\ \A t \in Tunnel \ Referenced : left[t] = tunnel[t]
      /\ \A t \in Referenced :
           /\ left[t] \in Fields
           /\ left[t].state = IF t \in ExpirationNear(S) THEN "Expiring" ELSE tunnel[t].state
           /\ left[t].age = tunnel[t].age
           /\ t \notin LeavingPool(S) => left[t].pool = tunnel[t].pool
           /\ left[t].strikes = tunnel[t].strikes
  <2>0. left = [t \in Tunnel |-> IF t \in LeavingPool(S)
                                 THEN [marked[t] EXCEPT !.pool = FALSE] ELSE marked[t]]
    BY DEF SetTunnelPool
  <2> HIDE DEF left
  <2>1. ASSUME NEW t \in Referenced
        PROVE  /\ left[t] \in Fields
               /\ left[t].state = IF t \in ExpirationNear(S) THEN "Expiring"
                                                             ELSE tunnel[t].state
               /\ left[t].age = tunnel[t].age
               /\ t \notin LeavingPool(S) => left[t].pool = tunnel[t].pool
               /\ left[t].strikes = tunnel[t].strikes
    <3>1. CASE t \in LeavingPool(S)
      <4>1. left[t] = [marked[t] EXCEPT !.pool = FALSE] /\ marked[t] \in Fields
        BY <1>4, <1>7, <2>0, <3>1
      <4> QED
        BY <1>7, <3>1, <4>1, PoolFacts
    <3>2. CASE t \notin LeavingPool(S)
      BY <1>4, <1>7, <2>0, <3>2
    <3> QED
      BY <3>1, <3>2
  <2>2. \A t \in Tunnel \ Referenced : left[t] = tunnel[t]
    BY <1>3, <1>7, <2>0
  <2>3. \A t \in Tunnel : left[t] \in Fields \cup {None}
    BY <2>1, <2>2, <1>5
  <2> QED
    BY <2>0, <2>1, <2>2, <2>3
<1> HIDE DEF left
<1>9. /\ all \in [Tunnel -> Fields \cup {None}]
      /\ \A t \in Tunnel \ new : all[t] = left[t]
      /\ \A t \in new : all[t] # None /\ all[t].state = "Pending" /\ all[t].age = 0
  <2>1. Adds(left, forPool, made)
    BY <1>8, CreateFacts
  <2>2. made \in [Tunnel -> Fields \cup {None}]
    BY <2>1 DEF Adds
  <2> HIDE DEF made
  <2>3. Adds(made, own, all)
    BY <2>2, CreateFacts
  <2> HIDE DEF forPool, own, all
  <2> QED
    BY <2>1, <2>3, <1>2 DEF Adds
<1> HIDE DEF new, all
<1>10. /\ listed \subseteq Referenced /\ members \subseteq listed /\ pending \subseteq Referenced
       /\ Tested \subseteq Referenced /\ new \cap Referenced = {}
  BY <1>2, ReferencedFacts, TunnelFacts DEF WellReferenced, IInv, PoolInv, Referenced
<1>11. Referenced' \subseteq Referenced \cup new
  BY <1>1 DEF Referenced, Tested
<1>12. Referenced' \subseteq Tunnel /\ \A t \in Referenced' : all[t] # None
  <2>1. \A t \in Referenced : all[t] \in Fields
    BY <1>4, <1>8, <1>9, <1>10
  <2> QED
    BY <1>2, <1>4, <1>9, <1>11, <2>1, TunnelFacts
<1>13. /\ tunnel' \in [Tunnel -> Fields \cup {None}]
       /\ \A t \in Tunnel : tunnel'[t] # None <=> t \in Referenced'
       /\ \A t \in Tunnel : tunnel'[t] # None => tunnel'[t] = all[t]
       /\ \A t \in Referenced' : tunnel'[t] = all[t]
  BY <1>1, <1>9, <1>12, ReleaseFacts
<1>14. \A t \in Referenced \cap Referenced' :
         /\ tunnel'[t].state = IF t \in ExpirationNear(S) THEN "Expiring" ELSE tunnel[t].state
         /\ tunnel'[t].age = tunnel[t].age
         /\ t \notin LeavingPool(S) => tunnel'[t].pool = tunnel[t].pool
         /\ tunnel'[t].strikes = tunnel[t].strikes
  BY <1>4, <1>8, <1>9, <1>10, <1>13
<1>15. TypeOK'
  <2>1. /\ pending' \subseteq Tunnel /\ listed' \subseteq Tunnel /\ members' \subseteq Tunnel
        /\ m_Tests' \subseteq Out \X In
    BY <1>1, <1>2 DEF IInv, TypeOK
  <2>2. pc' \in {"outbound", "create"} /\ adding' = None
    BY <1>1 DEF IInv, TypeOK
  <2> QED
    BY <1>1, <1>13, <2>1, <2>2 DEF IInv, TypeOK
<1>16. /\ listed' \subseteq Referenced' /\ pending' \subseteq Referenced'
       /\ \A p \in m_Tests' : p[1] \in Referenced' /\ p[2] \in Referenced'
       /\ \A p \in m_Tests : p[1] \in Referenced /\ p[2] \in Referenced
  BY <1>15, ReferencedFacts DEF WellReferenced, IInv
<1>17. PoolInv'
  <2>1. \A t \in members' : t \in members /\ t \in listed' /\ t \notin LeavingPool(S)
    BY <1>1, <1>10 DEF IInv, PoolInv, LeavingPool
  <2>2. ASSUME NEW t \in Referenced \cap Referenced'
        PROVE  /\ tunnel[t].state \in Built => tunnel'[t].state \in Built
               /\ tunnel[t].state # "Failed" => tunnel'[t].state # "Failed"
    BY <1>14 DEF Built
  <2>3. listed' \subseteq listed /\ m_Tests' = m_Tests /\ pc' \notin {"add", "insert"}
    BY <1>1
  <2> QED
    BY <1>10, <1>14, <1>16, <2>1, <2>2, <2>3 DEF IInv, PoolInv
<1>18. AgeInv'
  <2>1. due' = due /\ ~due
    BY <1>1 DEF IInv, AgeInv, Managing
  <2>2. ASSUME NEW t \in pending', tunnel'[t].state = "Pending"
        PROVE  tunnel'[t].age <= TUNNEL_CREATION_TIMEOUT
    <3>1. CASE t \in new
      BY <3>1, <1>2, <1>9, <1>13, <1>16, ConstantsAssumption
    <3>2. CASE t \in pending
      BY <2>1, <2>2, <3>2, <1>10, <1>14, <1>16 DEF IInv, AgeInv
    <3> QED
      BY <3>1, <3>2, <1>1
  <2>3. \A t \in listed' : t \in listed /\ tunnel'[t].age = tunnel[t].age
                           /\ t \notin Expired(S)
    BY <1>1, <1>10, <1>14, <1>16
  <2>4. \A t \in listed' \cap S : ~Ends(t, 0)'
    <3>1. \A t \in listed' \cap S : ~Ends(t, 0)
      BY <2>3 DEF Expired
    <3> QED
      BY <3>1, <2>3 DEF Ends
  <2>5. pc = "outbound" => \A t \in listed' \cap In : ~Ends(t, 0)'
    BY <2>1, <2>3 DEF IInv, AgeInv, Ends
  <2> QED
    BY <2>1, <2>2, <2>4, <2>5 DEF AgeInv
<1>19. StrikesInv'
  <2>1. ASSUME NEW t \in Tunnel, tunnel'[t] # None
        PROVE  /\ tunnel'[t].state = "TestFailed" => tunnel'[t].strikes \in 1..2
               /\ tunnel'[t].state = "Failed" => tunnel'[t].strikes = 2
    <3>1. CASE t \in new
      BY <2>1, <3>1, <1>9, <1>13
    <3>2. CASE t \notin new
      <4>1. t \in Referenced \cap Referenced' /\ tunnel[t] # None
        BY <2>1, <3>2, <1>4, <1>11, <1>13, TunnelFacts
      <4> QED
        BY <4>1, <1>14 DEF IInv, StrikesInv
    <3> QED
      BY <3>1, <3>2
  <2> QED
    BY <2>1 DEF StrikesInv
<1> QED
  BY <1>15, <1>17, <1>18, <1>19 DEF IInv

LEMMA ManageInboundOutboundStep ==
  ASSUME IInv, ManageInboundTunnels \/ ManageOutboundTunnels
  PROVE  IInv'
<1>1. CASE ManageInboundTunnels
  BY <1>1, ManageTunnelsStep DEF ManageInboundTunnels
<1>2. CASE ManageOutboundTunnels
  BY <1>2, ManageTunnelsStep DEF ManageOutboundTunnels
<1> QED
  BY <1>1, <1>2

-----------------------------------------------------------------------------
(* Every tunnel whose test is still open has failed it: once, and then it   *)
(* has a strike and stays in the pool, or again, and then it has two.       *)
TestFailedOnce(f) == [f EXCEPT !.state = AfterFailedTest(@),
                               !.strikes = IF @ < 2 THEN @ + 1 ELSE @]

LEMMA TestFacts ==
  ASSUME NEW f \in Fields
  PROVE  /\ TestFailedOnce(f) \in Fields
         /\ TestFailedOnce(f).age = f.age /\ TestFailedOnce(f).pool = f.pool
         /\ TestFailedOnce(f).state = IF f.state = "TestFailed" THEN "Failed" ELSE "TestFailed"
         /\ TestFailedOnce(f).strikes = IF f.strikes < 2 THEN f.strikes + 1 ELSE f.strikes
<1> DEFINE s == AfterFailedTest(f.state)
           k == IF f.strikes < 2 THEN f.strikes + 1 ELSE f.strikes
<1>1. s \in States /\ s = IF f.state = "TestFailed" THEN "Failed" ELSE "TestFailed"
  BY DEF AfterFailedTest, States
<1>2. k \in 0..2 /\ k = IF f.strikes < 2 THEN f.strikes + 1 ELSE f.strikes
  BY FieldFacts
<1>3. TestFailedOnce(f) = [f EXCEPT !.state = s, !.strikes = k]
  BY DEF TestFailedOnce
<1> HIDE DEF s, k
<1> QED
  BY <1>1, <1>2, <1>3 DEF Fields

LEMMA TestTunnelsStep ==
  ASSUME IInv, TestTunnels
  PROVE  IInv'
<1> DEFINE failing == Tested \ {None}
           tested == [t \in Tunnel |->
             IF t \in failing
             THEN [tunnel[t] EXCEPT
                     !.state = AfterFailedTest(@),
                     !.strikes = IF @ < 2 THEN @ + 1 ELSE @]
             ELSE tunnel[t]]
           candidates == {t \in members' : ~IsFailed(tested, t)}
<1>1. /\ UNCHANGED <<pending, listed, m_IsActive, client, adding, due, crashed>>
      /\ pc = "test" /\ pc' = "idle"
      /\ members' = members \ FailAgain(failing)
      /\ m_Tests' = NewTests(candidates)
      /\ Release(tested)
  BY DEF TestTunnels
<1>2. /\ listed \subseteq Referenced /\ members \subseteq listed /\ pending \subseteq Referenced
      /\ failing \subseteq Referenced
      /\ \A t \in Referenced : t \in Tunnel /\ tunnel[t] \in Fields
  BY ReferencedFacts DEF WellReferenced, IInv, PoolInv, Referenced
<1>3. \A t \in failing : tunnel[t].state \in Built \ {"Failed"}
  BY DEF Tested, IInv, PoolInv
<1>4. tunnel \in [Tunnel -> Fields \cup {None}]
  BY DEF IInv, TypeOK
<1>6. /\ tested \in [Tunnel -> Fields \cup {None}]
      /\ \A t \in Tunnel : t \notin failing => tested[t] = tunnel[t]
      /\ \A t \in failing :
           /\ tested[t] \in Fields
           /\ tested[t].age = tunnel[t].age /\ tested[t].pool = tunnel[t].pool
           /\ tested[t].state = IF tunnel[t].state = "TestFailed" THEN "Failed"
                                                                  ELSE "TestFailed"
           /\ tested[t].strikes = IF tunnel[t].strikes < 2 THEN tunnel[t].strikes + 1
                                                           ELSE tunnel[t].strikes
  <2>1. ASSUME NEW t \in failing
        PROVE  /\ tested[t] \in Fields
               /\ tested[t].age = tunnel[t].age /\ tested[t].pool = tunnel[t].pool
               /\ tested[t].state = IF tunnel[t].state = "TestFailed" THEN "Failed"
                                                                      ELSE "TestFailed"
               /\ tested[t].strikes = IF tunnel[t].strikes < 2 THEN tunnel[t].strikes + 1
                                                               ELSE tunnel[t].strikes
    <3>1. t \in Tunnel /\ tunnel[t] \in Fields
      BY <1>2
    <3>2. tested[t] = TestFailedOnce(tunnel[t])
      BY <3>1 DEF TestFailedOnce
    <3> HIDE DEF tested
    <3> QED
      BY <3>1, <3>2, TestFacts
  <2>2. \A t \in Tunnel : t \notin failing => tested[t] = tunnel[t]
    OBVIOUS
  <2>3. \A t \in Tunnel : tested[t] \in Fields \cup {None}
    BY <2>1, <2>2, <1>4
  <2> QED
    BY <2>1, <2>2, <2>3
<1> HIDE DEF tested
<1>7. /\ m_Tests' \subseteq (members' \cap Out) \X (members' \cap In)
      /\ \A p \in m_Tests' : tested[p[1]].state # "Failed" /\ tested[p[2]].state # "Failed"
  BY <1>1 DEF NewTests, IsFailed
<1>8. Referenced' \subseteq Referenced
  <2>1. members' \subseteq members /\ listed' = listed /\ pending' = pending
    BY <1>1
  <2>2. Tested' \subseteq members'
    BY <1>7 DEF Tested
  <2> QED
    BY <2>1, <2>2 DEF Referenced
<1>9. \A t \in Referenced' : tested[t] # None
  BY <1>2, <1>6, <1>8, TunnelFacts
<1>10. /\ tunnel' \in [Tunnel -> Fields \cup {None}]
       /\ \A t \in Tunnel : tunnel'[t] # None <=> t \in Referenced'
       /\ \A t \in Tunnel : tunnel'[t] # None => tunnel'[t] = tested[t]
       /\ \A t \in Referenced' : tunnel'[t] = tested[t]
  BY <1>1, <1>2, <1>6, <1>8, <1>9, ReleaseFacts
<1>11. TypeOK'
  BY <1>1, <1>7, <1>10 DEF IInv, TypeOK
<1>12. /\ listed' \subseteq Referenced' /\ members' \subseteq Referenced'
       /\ pending' \subseteq Referenced'
  BY <1>11, ReferencedFacts DEF WellReferenced
<1>13. PoolInv'
  <2>1. ASSUME NEW t \in listed
        PROVE  tunnel'[t].state \in Built /\ tunnel'[t].pool = tunnel[t].pool
    <3>1. tunnel'[t] = tested[t] /\ t \in Tunnel /\ tunnel[t].state \in Built
      BY <1>1, <1>2, <1>10, <1>12 DEF IInv, PoolInv
    <3> QED
      BY <3>1, <1>6 DEF Built
  <2>2. ASSUME NEW t \in members'
        PROVE  t \in listed' /\ tunnel'[t].pool /\ tunnel'[t].state # "Failed"
    <3>1. /\ t \in members /\ t \in listed /\ tunnel[t].pool /\ tunnel[t].state # "Failed"
          /\ t \in Tunnel /\ tunnel'[t] = tested[t]
      BY <1>1, <1>2, <1>10, <1>12 DEF IInv, PoolInv
    <3>2. t \in failing => tunnel[t].state # "TestFailed"
      BY <1>1 DEF FailAgain, AfterFailedTest
    <3> QED
      BY <3>1, <3>2, <2>1, <1>1, <1>6
  <2>3. ASSUME NEW p \in m_Tests'
        PROVE  /\ tunnel'[p[1]].state \in Built \ {"Failed"}
               /\ tunnel'[p[2]].state \in Built \ {"Failed"}
    BY <1>7, <2>1, <2>2, <1>1
  <2> QED
    BY <1>1, <2>1, <2>2, <2>3 DEF PoolInv
<1>14. AgeInv'
  <2>1. \A t \in listed : tunnel'[t].age = tunnel[t].age
    BY <1>1, <1>2, <1>6, <1>10, <1>12
  <2>2. ASSUME NEW t \in pending, tunnel'[t].state = "Pending"
        PROVE  tunnel[t].state = "Pending" /\ tunnel'[t].age = tunnel[t].age
    BY <2>2, <1>1, <1>2, <1>6, <1>10, <1>12
  <2> QED
    BY <1>1, <2>1, <2>2 DEF IInv, AgeInv, Ends, Managing
<1>15. StrikesInv'
  <2>1. ASSUME NEW t \in Tunnel, tunnel'[t] # None
        PROVE  /\ tunnel'[t].state = "TestFailed" => tunnel'[t].strikes \in 1..2
               /\ tunnel'[t].state = "Failed" => tunnel'[t].strikes = 2
    <3>1. tunnel'[t] = tested[t]
      BY <2>1, <1>10
    <3>2. CASE t \in failing
      <4>1. tunnel[t].strikes \in 0..2
        BY <1>2, <3>2, FieldFacts
      <4>2. tunnel[t].state = "TestFailed" => tunnel[t].strikes \in 1..2
        BY <1>2, <3>2, TunnelFacts DEF IInv, StrikesInv
      <4> QED
        BY <1>6, <3>1, <3>2, <4>1, <4>2
    <3>3. CASE t \notin failing
      <4>1. tunnel'[t] = tunnel[t] /\ tunnel[t] # None
        BY <1>6, <2>1, <3>1, <3>3
      <4> QED
        BY <4>1 DEF IInv, StrikesInv
    <3> QED
      BY <3>2, <3>3
  <2> QED
    BY <2>1 DEF StrikesInv
<1> QED
  BY <1>11, <1>13, <1>14, <1>15 DEF IInv

-----------------------------------------------------------------------------
(* The answered request is in none of the lists but the pending ones, and   *)
(* its time is not over, so the tunnel it becomes has not expired.          *)
LEMMA AnsweredFacts ==
  ASSUME IInv, NEW u, GetPendingTunnel(u)
  PROVE  /\ u \in Tunnel /\ tunnel[u] \in Fields
         /\ u \in pending /\ tunnel[u].state = "Pending"
         /\ u \notin listed /\ u \notin members
         /\ \A p \in m_Tests : u # p[1] /\ u # p[2]
         /\ ~due => ~Ends(u, 0)
<1>1. u \in pending /\ tunnel[u].state = "Pending" /\ u \in Tunnel /\ tunnel[u] \in Fields
  BY ReferencedFacts DEF GetPendingTunnel, WellReferenced, IInv
<1>2. ASSUME ~due
      PROVE  ~Ends(u, 0)
  <2>1. tunnel[u].age <= TUNNEL_CREATION_TIMEOUT /\ tunnel[u].age \in Nat
    BY <1>1, <1>2, FieldFacts DEF IInv, AgeInv
  <2> QED
    BY <2>1, ConstantsAssumption DEF Ends
<1> QED
  BY <1>1, <1>2 DEF IInv, PoolInv, Built

LEMMA DeclinedStep ==
  ASSUME IInv, NEW u, GetPendingTunnel(u), NotBusy,
         tunnel' = SetState(tunnel, {u}, "BuildFailed"),
         UNCHANGED <<pending, listed, pc, adding, members, m_Tests, m_IsActive, client, due,
                     crashed>>
  PROVE  IInv'
<1>1. Referenced' = Referenced
  BY DEF Referenced, Tested
<1>2. /\ tunnel' \in [Tunnel -> Fields \cup {None}]
      /\ \A t \in Tunnel : t # u => tunnel'[t] = tunnel[t]
      /\ tunnel'[u] \in Fields /\ tunnel'[u].state = "BuildFailed"
  <2> DEFINE f == [tunnel[u] EXCEPT !.state = "BuildFailed"]
  <2>1. f \in Fields /\ f.state = "BuildFailed"
    BY AnsweredFacts, StateFacts DEF States
  <2> HIDE DEF f
  <2>2. tunnel' = [t \in Tunnel |-> IF t = u THEN f ELSE tunnel[t]]
    BY AnsweredFacts DEF SetState, f
  <2> QED
    BY <2>1, <2>2, AnsweredFacts DEF IInv, TypeOK
<1>3. TypeOK'
  <2>1. \A t \in Tunnel : tunnel[t] # None <=> tunnel'[t] # None
    <3>1. tunnel[u] \in Fields
      BY AnsweredFacts
    <3> QED
      BY <1>2, <3>1, TunnelFacts
  <2>2. pc' = "idle" /\ pc = "idle"
    BY DEF NotBusy
  <2> QED
    BY <1>1, <1>2, <2>1, <2>2 DEF IInv, TypeOK
<1>4. \A t \in Referenced : t \in Tunnel
  BY ReferencedFacts DEF WellReferenced, IInv
<1>5. PoolInv'
  <2>1. /\ \A t \in listed : t \in Tunnel /\ t # u
        /\ \A p \in m_Tests : p[1] \in Tunnel /\ p[1] # u /\ p[2] \in Tunnel /\ p[2] # u
    BY AnsweredFacts, ReferencedFacts, <1>4 DEF WellReferenced, IInv
  <2> QED
    BY <1>2, <2>1 DEF IInv, PoolInv, NotBusy
<1>6. AgeInv'
  <2>1. \A t \in listed : tunnel'[t] = tunnel[t]
    BY <1>2, AnsweredFacts, <1>4, ReferencedFacts DEF WellReferenced, IInv
  <2>2. ASSUME NEW t \in pending, tunnel'[t].state = "Pending"
        PROVE  tunnel'[t] = tunnel[t]
    BY <2>2, <1>2, <1>4, ReferencedFacts DEF WellReferenced, IInv
  <2> QED
    BY <2>1, <2>2 DEF IInv, AgeInv, Ends
<1>7. StrikesInv'
  BY <1>2 DEF IInv, StrikesInv
<1> QED
  BY <1>3, <1>5, <1>6, <1>7 DEF IInv

(* An accepted request becomes a listed tunnel.  One of the pool is about   *)
(* to be inserted; any other leaves its pool, and may bring a new request   *)
(* for a tunnel back through the same hops.                                 *)
LEMMA AddTunnelStep ==
  ASSUME IInv, NEW u, GetPendingTunnel(u), NotBusy, AddTunnel(u),
         UNCHANGED <<members, m_Tests, m_IsActive, client, due, crashed>>
  PROVE  IInv'
<1> DEFINE accepted == SetState(tunnel, {u}, "Established")
           detached == SetTunnelPool(accepted, {u}, FALSE)
           paired == First(1, IF u \in In /\ ~tunnel[u].pool THEN Free(Out) ELSE {})
<1>1. listed' = listed \cup {u} /\ pending' = pending \cup paired
  BY DEF AddTunnel, Listed
<1>2. \A t \in paired : t \in Tunnel /\ tunnel[t] = None
  BY TunnelFacts DEF First, Free
<1>3. u \in Tunnel /\ tunnel[u] \in Fields /\ u \notin paired
  BY <1>2, AnsweredFacts, TunnelFacts
<1>4. /\ accepted \in [Tunnel -> Fields \cup {None}]
      /\ \A t \in Tunnel : t # u => accepted[t] = tunnel[t]
      /\ accepted[u] \in Fields /\ accepted[u].state = "Established"
      /\ accepted[u].age = tunnel[u].age /\ accepted[u].pool = tunnel[u].pool
  <2> DEFINE f == [tunnel[u] EXCEPT !.state = "Established"]
  <2>1. /\ f \in Fields /\ f.state = "Established" /\ f.age = tunnel[u].age
        /\ f.pool = tunnel[u].pool
    BY <1>3, StateFacts DEF States
  <2> HIDE DEF f
  <2>2. accepted = [t \in Tunnel |-> IF t = u THEN f ELSE tunnel[t]]
    BY <1>3 DEF SetState, f
  <2> HIDE DEF accepted
  <2> QED
    BY <2>1, <2>2, <1>3 DEF IInv, TypeOK
<1> HIDE DEF accepted
<1>5. /\ detached \in [Tunnel -> Fields \cup {None}]
      /\ \A t \in Tunnel : t # u => detached[t] = tunnel[t]
      /\ detached[u] \in Fields /\ detached[u].state = "Established"
      /\ detached[u].age = tunnel[u].age
  <2> DEFINE f == [accepted[u] EXCEPT !.pool = FALSE]
  <2>1. f \in Fields /\ f.state = "Established" /\ f.age = tunnel[u].age
    BY <1>4, PoolFacts
  <2> HIDE DEF f
  <2>2. detached = [t \in Tunnel |-> IF t = u THEN f ELSE accepted[t]]
    BY <1>3 DEF SetTunnelPool, f
  <2> HIDE DEF detached
  <2> QED
    BY <2>1, <2>2, <1>3, <1>4
<1> HIDE DEF detached
<1>6. /\ tunnel' \in [Tunnel -> Fields \cup {None}]
      /\ \A t \in Tunnel : t # u /\ t \notin paired => tunnel'[t] = tunnel[t]
      /\ tunnel'[u] \in Fields /\ tunnel'[u].state = "Established"
      /\ tunnel'[u].age = tunnel[u].age
      /\ \A t \in paired : /\ tunnel'[t] # None /\ tunnel'[t].state = "Pending"
                           /\ tunnel'[t].age = 0
      /\ \/ pc' = "add" /\ adding' = u /\ tunnel'[u].pool
         \/ UNCHANGED <<pc, adding>>
  <2>1. CASE tunnel[u].pool /\ m_IsActive
    <3>1. pc' = "add" /\ adding' = u /\ tunnel' = accepted
      BY <2>1, Zenon DEF AddTunnel, accepted
    <3>2. paired = {}
      BY <2>1 DEF First
    <3> HIDE DEF paired
    <3> QED
      BY <1>4, <2>1, <3>1, <3>2
  <2>2. CASE ~(tunnel[u].pool /\ m_IsActive)
    <3>1. tunnel' = Create(detached, paired, FALSE) /\ UNCHANGED <<pc, adding>>
      BY <2>2, Zenon DEF AddTunnel, accepted, detached
    <3> HIDE DEF paired
    <3>2. Adds(detached, paired, tunnel')
      BY <1>5, <3>1, CreateFacts, Zenon
    <3> QED
      BY <1>2, <1>3, <1>5, <3>1, <3>2 DEF Adds
  <2> QED
    BY <2>1, <2>2
<1> HIDE DEF paired
<1>7. Referenced' = Referenced \cup paired
  BY <1>1, AnsweredFacts DEF Referenced, Tested
<1>8. /\ \A t \in Referenced : t \in Tunnel /\ tunnel[t] # None /\ t \notin paired
      /\ listed \subseteq Referenced /\ pending \subseteq Referenced
  BY <1>2, ReferencedFacts, TunnelFacts DEF WellReferenced, IInv
<1>9. TypeOK'
  <2>1. \A t \in Tunnel : tunnel'[t] # None <=> t \in Referenced'
    <3>1. tunnel'[u] # None /\ u \in Referenced
      BY <1>6, <1>8, AnsweredFacts, TunnelFacts
    <3>2. \A t \in Tunnel : tunnel[t] # None <=> t \in Referenced
      BY DEF IInv, TypeOK
    <3> QED
      BY <1>2, <1>6, <1>7, <3>1, <3>2
  <2>2. pc' \in {"add", "idle"} /\ (pc' = "add" => adding' \in listed')
        /\ (pc' = "idle" => adding' = None)
    BY <1>1, <1>6 DEF IInv, TypeOK, NotBusy
  <2>3. pending' \subseteq Tunnel /\ listed' \subseteq Tunnel
    BY <1>1, <1>2, <1>3 DEF IInv, TypeOK
  <2> QED
    BY <1>6, <2>1, <2>2, <2>3 DEF IInv, TypeOK
<1>10. /\ \A t \in listed : tunnel'[t] = tunnel[t]
       /\ \A t \in members : tunnel'[t] = tunnel[t]
       /\ \A p \in m_Tests : tunnel'[p[1]] = tunnel[p[1]] /\ tunnel'[p[2]] = tunnel[p[2]]
  <2>1. /\ \A t \in listed : t \in Referenced /\ t # u
        /\ \A t \in members : t \in Referenced /\ t # u
        /\ \A p \in m_Tests : /\ p[1] \in Referenced /\ p[1] # u
                              /\ p[2] \in Referenced /\ p[2] # u
    BY AnsweredFacts, ReferencedFacts DEF WellReferenced, IInv
  <2> QED
    BY <2>1, <1>6, <1>8
<1>11. PoolInv'
  <2>1. \A t \in listed' : tunnel'[t].state \in Built
    BY <1>1, <1>6, <1>10 DEF IInv, PoolInv, Built
  <2>2. \A t \in members' : t \in listed' /\ tunnel'[t].pool /\ tunnel'[t].state # "Failed"
    BY <1>1, <1>10 DEF IInv, PoolInv
  <2>3. pc' \in {"add", "insert"} =>
          /\ adding' \notin members'
          /\ tunnel'[adding'].pool /\ tunnel'[adding'].state = "Established"
    BY <1>6, AnsweredFacts DEF NotBusy
  <2> QED
    BY <1>10, <2>1, <2>2, <2>3 DEF IInv, PoolInv
<1>12. AgeInv'
  <2>1. ASSUME ~due, NEW t \in pending', tunnel'[t].state = "Pending"
        PROVE  tunnel'[t].age <= TUNNEL_CREATION_TIMEOUT
    <3>1. CASE t \in paired
      BY <3>1, <1>6, ConstantsAssumption
    <3>2. CASE t \in pending
      <4>1. tunnel'[t] = tunnel[t]
        BY <2>1, <3>2, <1>6, <1>8
      <4> QED
        BY <2>1, <3>2, <4>1 DEF IInv, AgeInv
    <3> QED
      BY <3>1, <3>2, <1>1
  <2>2. ~due => ~Ends(u, 0)'
    BY <1>6, AnsweredFacts DEF Ends
  <2>3. \A t \in listed : Ends(t, 0)' = Ends(t, 0)
    BY <1>10 DEF Ends
  <2>4. pc = "idle" /\ pc' \notin Managing
    BY <1>6 DEF NotBusy, Managing
  <2> QED
    BY <1>1, <2>1, <2>2, <2>3, <2>4 DEF IInv, AgeInv
<1>13. StrikesInv'
  <2>1. \A t \in Tunnel : \/ tunnel'[t] = tunnel[t]
                          \/ tunnel'[t].state \in {"Established", "Pending"}
    BY <1>6
  <2> QED
    BY <2>1 DEF IInv, StrikesInv
<1> QED
  BY <1>9, <1>11, <1>12, <1>13 DEF IInv

LEMMA HandleTunnelBuildResponseStep ==
  ASSUME IInv, NEW u, HandleTunnelBuildResponse(u)
  PROVE  IInv'
BY AddTunnelStep, DeclinedStep DEF HandleTunnelBuildResponse

-----------------------------------------------------------------------------
(* The invariant is preserved by every step.                                *)
LEMMA StepInv == IInv /\ [Next]_vars => IInv'
<1> SUFFICES ASSUME IInv, [Next]_vars PROVE IInv'
  OBVIOUS
<1>1. CASE UNCHANGED vars
  BY <1>1 DEF vars, IInv, TypeOK, PoolInv, AgeInv, StrikesInv, Referenced, Tested, Ends
<1>2. CASE HandleVariableTunnelBuildMsg \/ HandleVariableTunnelBuildReplyMsg
  BY <1>2, HandleTunnelBuildResponseStep
     DEF HandleVariableTunnelBuildMsg, HandleVariableTunnelBuildReplyMsg
<1>3. CASE \E t \in In : HandleTunnelDataMsg(t)
  BY <1>3, HandleTunnelDataMsgStep
<1>4. CASE \E p \in m_Tests : ProcessDeliveryStatus(p)
  BY <1>4, ProcessDeliveryStatusStep
<1>5. CASE TunnelsThread
  BY <1>5, TunnelCreatedStep, InsertCreatedStep, ManagePendingTunnelsStep,
     ManageInboundOutboundStep, CreateTunnelsStep, TestTunnelsStep, TickStep
     DEF TunnelsThread
<1>6. CASE Start \/ Stop
  BY <1>6, SetActiveStep
<1>7. CASE DetachTunnels
  BY <1>7, DetachStep, ClearTestsStep DEF DetachTunnels
<1> QED
  BY <1>1, <1>2, <1>3, <1>4, <1>5, <1>6, <1>7 DEF Next

LEMMA SpecInv == Spec => []IInv
BY InitInv, StepInv, PTL DEF Spec

(* The containers hold tunnels that exist, and a tunnel exists as long as   *)
(* one of them holds it.                                                    *)
THEOREM SpecTypeOK == Spec => []TypeOK
<1>1. IInv => TypeOK
  BY DEF IInv
<1> QED
  BY <1>1, SpecInv, PTL

(* A pool tunnel is built, listed, points back to the pool, has not failed, *)
(* and has not expired when ManageTunnels is over.                          *)
THEOREM SpecPoolSound == Spec => []PoolSound
<1>1. IInv => PoolSound
  <2> SUFFICES ASSUME IInv, NEW t \in members
               PROVE  /\ t \in listed /\ tunnel[t].pool
                      /\ tunnel[t].state \in {"Established", "TestFailed", "Expiring"}
                      /\ NotBusy /\ ~due => ~Ends(t, 0)
    BY DEF PoolSound
  <2>1. /\ t \in listed /\ tunnel[t].pool
        /\ tunnel[t].state \in {"Established", "TestFailed", "Expiring"}
    BY DEF IInv, PoolInv, Built
  <2>2. t \in In \/ t \in Out
    BY DEF IInv, TypeOK, Tunnel
  <2> QED
    BY <2>1, <2>2 DEF IInv, AgeInv, NotBusy
<1> QED
  BY <1>1, SpecInv, PTL

(* A tunnel that has failed has failed two tests in a row.                  *)
THEOREM SpecTwoStrikes == Spec => []TwoStrikes
<1>1. IInv => TwoStrikes
  BY DEF IInv, StrikesInv, TwoStrikes, IsFailed
<1> QED
  BY <1>1, SpecInv, PTL
=============================================================================
