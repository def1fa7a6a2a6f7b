------------------------- MODULE CertificatesProofs -------------------------
(***************************************************************************)
(* Proofs about Certificates, for all configurations, calendars and        *)
(* bounds.                                                                 *)
(***************************************************************************)
EXTENDS Certificates, TLAPS

USE CalendarAssumption, CertificateBoundsAreNat, ConfigurationsAssumption

\* The times of certificates are whole seconds.  Without it a certificate that begins
\* half a second after its issuer could be rounded to begin before it.
WholeSeconds == \A i \in DOMAIN cas : cas[i].notBefore % 2 = 0

IInv == TypeOK /\ WholeSeconds /\ IssuedWithinIssuer /\ NeverTooYoungToSign

\* Rounding keeps what it rounds within a second, and even.
LEMMA Rounding ==
    ASSUME NEW t \in Int
    PROVE  /\ Truncate(t) \in Int /\ Truncate(t) <= t /\ Truncate(t) % 2 = 0
           /\ \A s \in Int : s % 2 = 0 /\ s <= t => s <= Truncate(t)
BY DEF Truncate

\* Whatever is not set gets a default that is not 0.
LEMMA DefaultsAreSet ==
    ASSUME NEW c \in Configurations
    PROVE  /\ WithDefaults(c).ca \in Nat
           /\ WithDefaults(c).intermediate \in Nat \ {0}
           /\ WithDefaults(c).certificate \in Nat \ {0}
           /\ WithDefaults(c).grace \in Nat
BY DEF WithDefaults, Default, Lifetimes

\* The next authority of the list, when it meets the invariant, leaves it true of the list.
LEMMA AddKeeps ==
    ASSUME IInv, NEW ca \in Authorities, Add(ca),
           now' \in 0..MaxTime, now <= now', UNCHANGED leaf,
           ca.notBefore % 2 = 0,
           ca.issuer # 0 =>
              /\ ca.issuer \in DOMAIN cas
              /\ ca.notBefore >= cas[ca.issuer].notBefore
              /\ cas[ca.issuer].intermediate >= Year + MaxDelay =>
                    ca.notAfter <= cas[ca.issuer].notAfter,
           ~ca.loaded => ca.notBefore <= now' - ca.grace
    PROVE  IInv'
<1>1. /\ cas \in Seq(Authorities) /\ cas' = Append(cas, ca)
      /\ cas' \in Seq(Authorities) /\ Len(cas') = Len(cas) + 1 /\ Len(cas) < MaxCAs
      /\ DOMAIN cas = 1..Len(cas) /\ DOMAIN cas' = 1..(Len(cas) + 1) /\ Len(cas) \in Nat
      /\ cas'[Len(cas) + 1] = ca
      /\ \A i \in DOMAIN cas : cas'[i] = cas[i] /\ cas[i] \in Authorities
  BY DEF IInv, TypeOK, Add
<1>2. TypeOK'
  BY <1>1 DEF IInv, TypeOK
<1>3. WholeSeconds'
  <2>1. SUFFICES ASSUME NEW i \in DOMAIN cas' PROVE cas'[i].notBefore % 2 = 0
    BY DEF WholeSeconds
  <2>2. CASE i = Len(cas) + 1 BY <1>1, <2>2
  <2>3. CASE i \in DOMAIN cas BY <1>1, <2>3 DEF IInv, WholeSeconds
  <2>4. QED BY <1>1, <2>2, <2>3
<1>4. IssuedWithinIssuer'
  <2>1. ASSUME NEW i \in DOMAIN cas', cas'[i].issuer # 0
        PROVE  /\ cas'[i].issuer < i
               /\ cas'[i].notBefore >= cas'[cas'[i].issuer].notBefore
               /\ cas'[cas'[i].issuer].intermediate >= Year + MaxDelay =>
                     cas'[i].notAfter <= cas'[cas'[i].issuer].notAfter
    <3>1. CASE i = Len(cas) + 1
      <4>1. cas'[i] = ca /\ ca.issuer \in DOMAIN cas /\ cas'[ca.issuer] = cas[ca.issuer]
        BY <1>1, <2>1, <3>1
      <4>2. QED BY <1>1, <2>1, <3>1, <4>1
    <3>2. CASE i \in DOMAIN cas
      <4>1. cas'[i] = cas[i] /\ cas[i].issuer # 0 BY <1>1, <2>1, <3>2
      <4>2. /\ cas[i].issuer < i
            /\ cas[i].notBefore >= cas[cas[i].issuer].notBefore
            /\ cas[cas[i].issuer].intermediate >= Year + MaxDelay =>
                  cas[i].notAfter <= cas[cas[i].issuer].notAfter
        BY <3>2, <4>1 DEF IInv, IssuedWithinIssuer
      <4>3. cas[i].issuer \in DOMAIN cas
        <5>1. cas[i] \in Authorities BY <1>1, <3>2
        <5>2. cas[i].issuer \in Nat BY <5>1 DEF Authorities
        <5>3. i \in 1..Len(cas) /\ Len(cas) \in Nat /\ DOMAIN cas = 1..Len(cas) BY <1>1, <3>2
        <5>4. QED BY <4>1, <4>2, <5>2, <5>3
      <4>4. cas'[cas[i].issuer] = cas[cas[i].issuer] BY <1>1, <4>3
      <4>5. QED BY <4>1, <4>2, <4>4
    <3>3. i = Len(cas) + 1 \/ i \in DOMAIN cas BY <1>1
    <3>4. QED BY <3>1, <3>2, <3>3
  <2>2. leaf'.issuer # 0 => leaf'.issuer \in DOMAIN cas' /\ Within(leaf', cas'[leaf'.issuer])
    BY <1>1 DEF IInv, IssuedWithinIssuer
  <2>3. QED BY <2>1, <2>2 DEF IssuedWithinIssuer
<1>5. NeverTooYoungToSign'
  <2>1. SUFFICES ASSUME NEW i \in DOMAIN cas', ~cas'[i].loaded
                 PROVE  cas'[i].notBefore <= now' - cas'[i].grace
    BY DEF NeverTooYoungToSign
  <2>2. CASE i = Len(cas) + 1 BY <1>1, <2>1, <2>2
  <2>3. CASE i \in DOMAIN cas
    <3>1. cas[i].notBefore <= now - cas[i].grace
      BY <1>1, <2>1, <2>3 DEF IInv, NeverTooYoungToSign
    <3>2. now \in Nat /\ now' \in Nat BY DEF IInv, TypeOK
    <3>3. cas'[i] = cas[i] /\ cas[i] \in Authorities BY <1>1, <2>3
    <3>4. cas[i].notBefore \in Int /\ cas[i].grace \in Nat BY <3>3 DEF Authorities
    <3>5. QED BY <3>1, <3>2, <3>3, <3>4
  <2>4. QED BY <1>1, <2>2, <2>3
<1>6. QED BY <1>2, <1>3, <1>4, <1>5 DEF IInv

LEMMA Initially == Init => IInv
BY DEF Init, IInv, TypeOK, WholeSeconds, IssuedWithinIssuer, NeverTooYoungToSign

LEMMA GenerateKeeps == ASSUME IInv, NEW c \in Configurations, GenerateCA(c) PROVE IInv'
<1> DEFINE l == WithDefaults(c)
           w == Window(now - l.grace, now + l.ca)
           ca == [notBefore |-> w.notBefore, notAfter |-> w.notAfter, issuer |-> 0,
                  grace |-> l.grace, intermediate |-> l.intermediate,
                  certificate |-> l.certificate, loaded |-> FALSE, key |-> TRUE]
<1>1. Add(ca) /\ UNCHANGED <<now, leaf>> BY DEF GenerateCA
<1>2. now \in Nat /\ now \in 0..MaxTime BY DEF IInv, TypeOK
<1>3. /\ l.ca \in Nat /\ l.intermediate \in Nat \ {0} /\ l.certificate \in Nat \ {0}
      /\ l.grace \in Nat
  BY DefaultsAreSet
<1> HIDE DEF l
<1>4. /\ w.notBefore \in Int /\ w.notBefore <= now - l.grace /\ w.notBefore % 2 = 0
      /\ w.notAfter \in Int
  <2>1. now - l.grace \in Int /\ now + l.ca \in Int BY <1>2, <1>3
  <2>2. w.notBefore = Truncate(now - l.grace) /\ w.notAfter = Truncate(now + l.ca)
    BY DEF Window
  <2>3. QED BY <2>1, <2>2, Rounding
<1> HIDE DEF w
<1>5. ca \in Authorities BY <1>3, <1>4 DEF Authorities
<1>6. QED BY <1>1, <1>2, <1>4, <1>5, AddKeeps

LEMMA LoadKeeps ==
    ASSUME IInv, NEW i, NEW c \in Configurations, NEW key \in BOOLEAN, LoadCA(i, c, key)
    PROVE  IInv'
<1> DEFINE l == WithDefaults(c)
           ca == [cas[i] EXCEPT !.grace = l.grace, !.intermediate = l.intermediate,
                                !.certificate = l.certificate, !.loaded = TRUE, !.key = key]
<1>1. i \in DOMAIN cas /\ Add(ca) /\ UNCHANGED <<now, leaf>> BY DEF LoadCA
<1>2. now \in Nat /\ now \in 0..MaxTime /\ cas[i] \in Authorities /\ Len(cas) \in Nat /\ DOMAIN cas = 1..Len(cas)
  BY <1>1 DEF IInv, TypeOK
<1>3. l.intermediate \in Nat \ {0} /\ l.certificate \in Nat \ {0} /\ l.grace \in Nat
  BY DefaultsAreSet
<1> HIDE DEF l
<1>4. /\ ca \in Authorities /\ ca.notBefore = cas[i].notBefore /\ ca.notAfter = cas[i].notAfter
      /\ ca.issuer = cas[i].issuer /\ ca.loaded
  BY <1>2, <1>3 DEF Authorities
<1> HIDE DEF ca
<1>5. ca.notBefore % 2 = 0 BY <1>1, <1>4 DEF IInv, WholeSeconds
<1>6. ca.issuer # 0 => /\ ca.issuer \in DOMAIN cas
                       /\ ca.notBefore >= cas[ca.issuer].notBefore
                       /\ cas[ca.issuer].intermediate >= Year + MaxDelay =>
                             ca.notAfter <= cas[ca.issuer].notAfter
  <2>1. HAVE ca.issuer # 0
  <2>2. /\ cas[i].issuer < i
        /\ cas[i].notBefore >= cas[cas[i].issuer].notBefore
        /\ cas[cas[i].issuer].intermediate >= Year + MaxDelay =>
              cas[i].notAfter <= cas[cas[i].issuer].notAfter
    BY <1>1, <1>4, <2>1 DEF IInv, IssuedWithinIssuer
  <2>3. cas[i].issuer \in DOMAIN cas BY <1>1, <1>2, <1>4, <2>1, <2>2 DEF Authorities
  <2>4. QED BY <1>4, <2>2, <2>3
<1>7. QED BY <1>1, <1>2, <1>4, <1>5, <1>6, AddKeeps

LEMMA IntermediateKeeps ==
    ASSUME IInv, NEW i \in DOMAIN cas,
           NEW from \in now..(now + MaxDelay), NEW to \in now..(now + MaxDelay),
           from <= to, to <= MaxTime, Intermediate(i, from, to)
    PROVE  IInv'
<1> DEFINE w == Window(from, to + Year)
           ca == [notBefore |-> w.notBefore, notAfter |-> w.notAfter, issuer |-> i,
                  grace |-> 0, intermediate |-> cas[i].intermediate,
                  certificate |-> cas[i].certificate, loaded |-> FALSE, key |-> TRUE]
<1>1. /\ Add(ca) /\ now' = to /\ UNCHANGED leaf
      /\ cas[i].notBefore <= now - cas[i].grace
      /\ cas[i].notAfter >= now + cas[i].intermediate
  BY DEF Intermediate, MayIssue
<1>2. /\ now \in Nat /\ from \in Nat /\ to \in 0..MaxTime
      /\ now <= from /\ from <= to /\ to <= now + MaxDelay
      /\ cas[i] \in Authorities /\ Len(cas) \in Nat /\ DOMAIN cas = 1..Len(cas)
  BY DEF IInv, TypeOK
<1>3. /\ cas[i].notBefore \in Int /\ cas[i].notAfter \in Int /\ cas[i].grace \in Nat
      /\ cas[i].intermediate \in Nat \ {0} /\ cas[i].certificate \in Nat \ {0}
  BY <1>2 DEF Authorities
<1>4. /\ w.notBefore \in Int /\ w.notBefore <= from /\ w.notBefore % 2 = 0
      /\ w.notAfter \in Int /\ w.notAfter <= to + Year
      /\ \A s \in Int : s % 2 = 0 /\ s <= from => s <= w.notBefore
  <2>1. from \in Int /\ to + Year \in Int BY <1>2
  <2>2. w.notBefore = Truncate(from) /\ w.notAfter = Truncate(to + Year) BY DEF Window
  <2>3. QED BY <2>1, <2>2, Rounding
<1> HIDE DEF w
<1>5. ca \in Authorities BY <1>2, <1>3, <1>4 DEF Authorities
<1>6. cas[i].notBefore <= w.notBefore
  <2>1. cas[i].notBefore % 2 = 0 BY DEF IInv, WholeSeconds
  <2>2. cas[i].notBefore <= from BY <1>1, <1>2, <1>3
  <2>3. QED BY <1>3, <1>4, <2>1, <2>2
<1>7. cas[i].intermediate >= Year + MaxDelay => w.notAfter <= cas[i].notAfter
  <2>1. w.notAfter \in Int /\ w.notAfter <= to + Year BY <1>4
  <2>2. cas[i].notAfter >= now + cas[i].intermediate BY <1>1
  <2>3. now \in Nat /\ to \in Nat /\ to <= now + MaxDelay BY <1>2
  <2>4. QED BY <1>3, <2>1, <2>2, <2>3
<1>8. ca.issuer = i /\ ca.notBefore % 2 = 0 /\ ca.notBefore <= now' - ca.grace
  BY <1>1, <1>2, <1>4
<1>9. ca.notBefore = w.notBefore /\ ca.notAfter = w.notAfter OBVIOUS
<1> HIDE DEF ca
<1>10. /\ ca.notBefore >= cas[ca.issuer].notBefore
       /\ cas[ca.issuer].intermediate >= Year + MaxDelay =>
             ca.notAfter <= cas[ca.issuer].notAfter
  BY <1>3, <1>4, <1>6, <1>7, <1>8, <1>9
<1>11. now <= now' /\ now' \in 0..MaxTime /\ UNCHANGED leaf BY <1>1, <1>2
<1>12. QED BY <1>1, <1>5, <1>8, <1>10, <1>11, AddKeeps

LEMMA SignKeeps == ASSUME IInv, NEW i \in DOMAIN cas, Sign(i) PROVE IInv'
<1> DEFINE w == Window(now - cas[i].grace, now + cas[i].certificate)
<1>1. /\ leaf' = [notBefore |-> w.notBefore, notAfter |-> w.notAfter, issuer |-> i]
      /\ UNCHANGED <<now, cas>>
      /\ cas[i].notBefore <= now - cas[i].grace
      /\ cas[i].notAfter >= now + cas[i].certificate
  BY DEF Sign, MayIssue
<1>2. now \in Nat /\ cas[i] \in Authorities /\ DOMAIN cas = 1..Len(cas) /\ Len(cas) \in Nat
  BY DEF IInv, TypeOK
<1>3. /\ cas[i].notBefore \in Int /\ cas[i].notAfter \in Int /\ cas[i].grace \in Nat
      /\ cas[i].certificate \in Nat \ {0}
  BY <1>2 DEF Authorities
<1>4. /\ w.notBefore \in Int /\ w.notAfter \in Int
      /\ w.notAfter <= now + cas[i].certificate
      /\ \A s \in Int : s % 2 = 0 /\ s <= now - cas[i].grace => s <= w.notBefore
  <2>1. now - cas[i].grace \in Int /\ now + cas[i].certificate \in Int BY <1>2, <1>3
  <2>2. /\ w.notBefore = Truncate(now - cas[i].grace)
        /\ w.notAfter = Truncate(now + cas[i].certificate)
    BY DEF Window
  <2>3. QED BY <2>1, <2>2, Rounding
<1> HIDE DEF w
<1>5. TypeOK' BY <1>1, <1>2, <1>4 DEF IInv, TypeOK
<1>6. Within(leaf', cas[i])
  <2>1. cas[i].notBefore % 2 = 0 BY DEF IInv, WholeSeconds
  <2>2. cas[i].notBefore <= w.notBefore BY <1>1, <1>3, <1>4, <2>1
  <2>3. w.notAfter <= cas[i].notAfter BY <1>1, <1>2, <1>3, <1>4
  <2>4. leaf'.notBefore = w.notBefore /\ leaf'.notAfter = w.notAfter BY <1>1
  <2>5. QED BY <2>2, <2>3, <2>4, <1>3, <1>4 DEF Within
<1>7. WholeSeconds' /\ NeverTooYoungToSign'
  BY <1>1 DEF IInv, WholeSeconds, NeverTooYoungToSign
<1>8. IssuedWithinIssuer' BY <1>1, <1>6 DEF IInv, IssuedWithinIssuer, Within
<1>9. QED BY <1>5, <1>7, <1>8 DEF IInv

LEMMA TickKeeps == ASSUME IInv, Tick PROVE IInv'
<1>1. now \in Nat /\ now' = now + 1 /\ now' \in 0..MaxTime /\ UNCHANGED <<cas, leaf>>
  BY DEF IInv, TypeOK, Tick
<1>2. TypeOK' /\ WholeSeconds' /\ IssuedWithinIssuer'
  BY <1>1 DEF IInv, TypeOK, WholeSeconds, IssuedWithinIssuer, Within
<1>3. NeverTooYoungToSign'
  <2>1. SUFFICES ASSUME NEW i \in DOMAIN cas', ~cas'[i].loaded
                 PROVE  cas'[i].notBefore <= now' - cas'[i].grace
    BY DEF NeverTooYoungToSign
  <2>2. i \in DOMAIN cas /\ cas'[i] = cas[i] BY <1>1
  <2>3. cas[i].notBefore <= now - cas[i].grace BY <2>1, <2>2 DEF IInv, NeverTooYoungToSign
  <2>4. cas[i] \in Authorities BY <2>2 DEF IInv, TypeOK
  <2>5. cas[i].notBefore \in Int /\ cas[i].grace \in Nat BY <2>4 DEF Authorities
  <2>6. QED BY <1>1, <2>2, <2>3, <2>5
<1>4. QED BY <1>2, <1>3 DEF IInv

LEMMA Inductive == IInv /\ [Next]_vars => IInv'
<1> SUFFICES ASSUME IInv, [Next]_vars PROVE IInv' OBVIOUS
<1>1. CASE Tick BY <1>1, TickKeeps
<1>2. ASSUME NEW c \in Configurations, GenerateCA(c) PROVE IInv' BY <1>2, GenerateKeeps
<1>3. ASSUME NEW c \in Configurations, NEW i \in DOMAIN cas, NEW key \in BOOLEAN,
             LoadCA(i, c, key)
      PROVE  IInv'
  BY <1>3, LoadKeeps
<1>4. ASSUME NEW i \in DOMAIN cas, Sign(i) PROVE IInv' BY <1>4, SignKeeps
<1>5. ASSUME NEW i \in DOMAIN cas,
             NEW from \in now..(now + MaxDelay), NEW to \in now..(now + MaxDelay),
             from <= to, to <= MaxTime, Intermediate(i, from, to)
      PROVE  IInv'
  BY <1>5, IntermediateKeeps
<1>6. CASE UNCHANGED vars
  BY <1>6 DEF vars, IInv, TypeOK, WholeSeconds, IssuedWithinIssuer, NeverTooYoungToSign, Within
<1>7. QED BY <1>1, <1>2, <1>3, <1>4, <1>5, <1>6 DEF Next

LEMMA Invariant == Spec => []IInv
BY Initially, Inductive, PTL DEF Spec

\* Every authority has its lifetimes set, in all configurations.
THEOREM TypeCorrect == Spec => []TypeOK
<1>1. IInv => TypeOK BY DEF IInv
<1>2. QED BY <1>1, Invariant, PTL

\* What Sign makes is valid only while its issuer is.  What Intermediate makes never
\* begins before its issuer, and it ends no later when the lifetime that its issuer checks
\* is at least a year and the time that may go by between the check and the template.
\* (Nothing is claimed of the end of intermediates with shorter lifetimes: they may outlive
\* their issuers.)
THEOREM ValidityNests == Spec => []IssuedWithinIssuer
<1>1. IInv => IssuedWithinIssuer BY DEF IInv
<1>2. QED BY <1>1, Invariant, PTL

\* The first check of Sign and Intermediate never refuses an authority that GenerateCA or
\* Intermediate has made.  (The second may.)
THEOREM NeverTooYoung == Spec => []NeverTooYoungToSign
<1>1. IInv => NeverTooYoungToSign BY DEF IInv
<1>2. QED BY <1>1, Invariant, PTL

=============================================================================
