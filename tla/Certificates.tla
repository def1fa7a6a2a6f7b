---------------------------- MODULE Certificates ----------------------------
(***************************************************************************)
(* multicluster/bootstrap/certificates.go: a certificate authority that is *)
(* generated or loaded, intermediate authorities made from it, and the     *)
(* certificates that they sign, with the times in which each is valid.     *)
(* Keys, names and encodings are left to the crypto library, but for two   *)
(* things: a certificate keeps its times in whole seconds, and nothing is  *)
(* signed with a key that does not belong to the certificate.  Time is     *)
(* counted in half seconds.                                                *)
(***************************************************************************)
EXTENDS Integers, Sequences

CONSTANTS
    Hour, Year,       \* in half seconds
    Configurations,   \* the CAConfigurations in use; a field that is 0 is not set
    MaxTime, MaxCAs,  \* bounds
    MaxDelay          \* bound: time from the checks of Intermediate to its template

ASSUME CalendarAssumption ==
    /\ Hour \in Nat /\ Hour > 0 /\ Hour % 2 = 0
    /\ Year \in Nat /\ Year % 2 = 0 /\ Year > Hour

ASSUME CertificateBoundsAreNat == {MaxTime, MaxCAs, MaxDelay} \subseteq Nat

VARIABLES
    now,
    cas,    \* the CACertificate values that the program has
    leaf    \* the last certificate that one of them has signed, if any

vars == <<now, cas, leaf>>

Lifetimes == [ca : Nat, intermediate : Nat, certificate : Nat, grace : Nat]

ASSUME ConfigurationsAssumption == Configurations \subseteq Lifetimes

Default(value, default) == IF value = 0 THEN default ELSE value

\* Slip: the defaults are not filled in.
WithDefaultsDefect(c) == c

\* What GenerateCA and LoadCA make of a CAConfiguration.
WithDefaults(c) ==
    [ca           |-> Default(c.ca, 10 * Year),
     intermediate |-> Default(c.intermediate, 5 * Year),
     certificate  |-> Default(c.certificate, Year),
     grace        |-> Default(c.grace, Hour)]

\* How a certificate keeps a time.
Truncate(t) == t - (t % 2)

Window(from, to) == [notBefore |-> Truncate(from), notAfter |-> Truncate(to)]

Authorities ==
    [notBefore : Int, notAfter : Int, issuer : Nat, grace : Nat, intermediate : Nat \ {0},
     certificate : Nat \ {0}, loaded : BOOLEAN, key : BOOLEAN]

TypeOK ==
    /\ now \in 0..MaxTime
    /\ cas \in Seq(Authorities) /\ Len(cas) <= MaxCAs
    /\ leaf \in [notBefore : Int, notAfter : Int, issuer : Nat]

\* issuer 0 is the authority itself, or nobody.
Init ==
    /\ now = 0
    /\ cas = <<>>
    /\ leaf = [notBefore |-> 0, notAfter |-> 0, issuer |-> 0]

-----------------------------------------------------------------------------
Add(ca) == Len(cas) < MaxCAs /\ cas' = Append(cas, ca)

GenerateCA(c) ==
    LET l == WithDefaults(c)
        w == Window(now - l.grace, now + l.ca)
    IN  /\ Add([notBefore |-> w.notBefore, notAfter |-> w.notAfter, issuer |-> 0,
                grace |-> l.grace, intermediate |-> l.intermediate,
                certificate |-> l.certificate, loaded |-> FALSE, key |-> TRUE])
        /\ UNCHANGED <<now, leaf>>

\* The PEM blocks of an authority, with a key that may be another's, and a
\* configuration that need not be the one it was generated with.
LoadCA(i, c, key) ==
    LET l == WithDefaults(c)
    IN  /\ i \in DOMAIN cas
        /\ Add([cas[i] EXCEPT !.grace = l.grace, !.intermediate = l.intermediate,
                              !.certificate = l.certificate, !.loaded = TRUE, !.key = key])
        /\ UNCHANGED <<now, leaf>>

\* Slip: the start of the new certificate is not compared.
MayIssueYoungDefect(ca, lifetime) == ca.key /\ ca.notAfter >= now + lifetime

\* The two checks that Sign and Intermediate begin with, and CreateCertificate's own.
MayIssue(ca, lifetime) ==
    /\ ca.notBefore <= now - ca.grace
    /\ ca.notAfter >= now + lifetime
    /\ ca.key

Sign(i) ==
    LET ca == cas[i]
        w == Window(now - ca.grace, now + ca.certificate)
    IN  /\ MayIssue(ca, ca.certificate)
        /\ leaf' = [notBefore |-> w.notBefore, notAfter |-> w.notAfter, issuer |-> i]
        /\ UNCHANGED <<now, cas>>

\* Slip: the intermediate has the grace period of its issuer.
IntermediateDefect(i, from, to) ==
    LET ca == cas[i]
        w == Window(from, to + Year)
    IN  /\ MayIssue(ca, ca.intermediate)
        /\ Add([notBefore |-> w.notBefore, notAfter |-> w.notAfter, issuer |-> i,
                grace |-> ca.grace, intermediate |-> ca.intermediate,
                certificate |-> ca.certificate, loaded |-> FALSE, key |-> TRUE])
        /\ now' = to
        /\ UNCHANGED leaf

\* The template reads the clock again, once for either end, after the key has been
\* generated.  Neither the grace period nor the lifetime that was checked is used for it.
Intermediate(i, from, to) ==
    LET ca == cas[i]
        w == Window(from, to + Year)
    IN  /\ MayIssue(ca, ca.intermediate)
        /\ Add([notBefore |-> w.notBefore, notAfter |-> w.notAfter, issuer |-> i,
                grace |-> 0, intermediate |-> ca.intermediate,
                certificate |-> ca.certificate, loaded |-> FALSE, key |-> TRUE])
        /\ now' = to
        /\ UNCHANGED leaf

Tick == now < MaxTime /\ now' = now + 1 /\ UNCHANGED <<cas, leaf>>

Next ==
    \/ Tick
    \/ \E c \in Configurations :
        \/ GenerateCA(c)
        \/ \E i \in DOMAIN cas, key \in BOOLEAN : LoadCA(i, c, key)
    \/ \E i \in DOMAIN cas :
        \/ Sign(i)
        \/ \E from, to \in now..(now + MaxDelay) :
              from <= to /\ to <= MaxTime /\ Intermediate(i, from, to)

Spec == Init /\ [][Next]_vars

-----------------------------------------------------------------------------
(* Properties. *)

Within(inner, outer) ==
    inner.notBefore >= outer.notBefore /\ inner.notAfter <= outer.notAfter

\* A certificate that Sign has made is valid only while its issuer is, after rounding too
\* ("CA expires before certificate expiration time").  The times of an intermediate are
\* others than the ones that were checked: it never begins before its issuer, and it ends
\* no later only if the lifetime that was checked makes up for the year that it gets and
\* for the time that went by.  With a shorter one it may outlive its issuer.
IssuedWithinIssuer ==
    /\ leaf.issuer # 0 => leaf.issuer \in DOMAIN cas /\ Within(leaf, cas[leaf.issuer])
    /\ \A i \in DOMAIN cas :
          LET j == cas[i].issuer
          IN  j # 0 =>
                /\ j < i
                /\ cas[i].notBefore >= cas[j].notBefore
                /\ cas[j].intermediate >= Year + MaxDelay => cas[i].notAfter <= cas[j].notAfter

\* The first check of Sign and Intermediate never refuses an authority for being too
\* young, although what it signs begins a grace period earlier: unless it was loaded with
\* another configuration.  (Whether it lasts long enough is the second check.)
NeverTooYoungToSign ==
    \A i \in DOMAIN cas : ~cas[i].loaded => cas[i].notBefore <= now - cas[i].grace

=============================================================================
