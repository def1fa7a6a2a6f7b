--------------------------- MODULE BootstrapProofs ---------------------------
(***************************************************************************)
(* What calls of BootstrapKubernetesClusters leave behind, for any number  *)
(* of clusters and of calls.  The inductive invariant says what a call has *)
(* collected and written when it has come to a step: a prefix of the list  *)
(* of clusters while it collects, everything once it writes, and complete  *)
(* clusters before the one that it is writing.                             *)
(***************************************************************************)
EXTENDS Bootstrap, TLAPS

Objs == [namespace : BOOLEAN, account : BOOLEAN, token : {"absent", "empty", "filled"},
         kubeconfig : [Clusters -> 0..N], tls : [ca : 0..MaxAttempts, name : 0..N]]

\* Cluster k has what call n with options o writes; c is what is in the cluster.
Complete(o, n, c, k) ==
    /\ o.tls => c.tls = [ca |-> n, name |-> k]
    /\ o.kube => \A j \in Clusters : c.kubeconfig[j] = j

Full(o, kcs, certs) == (o.kube => Len(kcs) = N) /\ (o.tls => Len(certs) = N)

\* What has been collected before step s.
Collected(s, o, kcs, certs) ==
    /\ s.do \in {"account", "token", "poll"} =>
           Len(kcs) = s.at - 1 /\ (o.tls => Len(certs) = s.at - 1)
    /\ s.do = "sign" => (o.kube => Len(kcs) = s.at) /\ Len(certs) = s.at - 1
    /\ s.do \in {"kubeconfig", "tls"} => Full(o, kcs, certs)

\* What has been written before step s.
Written(s, o, n, a) ==
    s.do \in {"kubeconfig", "tls"} =>
        /\ \A k \in Clusters : k < s.at => Complete(o, n, a[k], k)
        /\ o.kube => \A j \in Clusters : s.do = "tls" \/ j < s.of => a[s.at].kubeconfig[j] = j

\* Call n with options o may be at step s.
Fits(s, o, n, a, kcs, certs) ==
    /\ s \in Steps
    /\ s.do \in {"account", "token", "poll", "kubeconfig"} => o.kube
    /\ s.do \in {"sign", "tls"} => o.tls
    /\ s.ensuring => s.do \in {"account", "kubeconfig", "tls"}
    /\ Collected(s, o, kcs, certs)
    /\ Written(s, o, n, a)

Identity(seq) == \A i \in 1..Len(seq) : seq[i] = i

IInv ==
    /\ TypeOK
    /\ Fits(now, opts, attempt, api, kubeconfigs, certificates)
    /\ found # "ask" => Object(now) \in Objects
    /\ Identity(kubeconfigs) /\ Identity(certificates)
    /\ \A k \in Clusters : api[k].tls.ca <= attempt
    /\ SecretsAreTheirs
    /\ NewestFirst
    /\ SuccessIsComplete

AllComplete(o, n, a) == \A k \in Clusters : Complete(o, n, a[k], k)

-----------------------------------------------------------------------------
(* The loops. *)

\* The second loop may go on with cluster k when the clusters before it are complete, and
\* it is over when all are.
LEMMA WriteFits ==
    ASSUME NEW o \in Options, NEW n, NEW a, NEW kcs, NEW certs, NEW k \in 1..(N + 1),
           Full(o, kcs, certs),
           \A j \in Clusters : j < k => Complete(o, n, a[j], j)
    PROVE  /\ Fits(Write(o, k), o, n, a, kcs, certs)
           /\ Write(o, k) = Idle => AllComplete(o, n, a)
<1> USE BootstrapAssumption
<1>1. 1 \in Clusters BY DEF Clusters
<1>2. CASE k \in Clusters /\ o.kube
  <2> DEFINE t == Ensured(o, "kubeconfig", k, 1)
  <2>1. Write(o, k) = t BY <1>2 DEF Write
  <2>2. /\ t \in Steps /\ t.do = "kubeconfig" /\ t.at = k /\ t.of = 1 /\ t.ensuring = o.ensure
    BY <1>1, <1>2 DEF Ensured, Step, Steps, Options
  <2>3. t # Idle BY <2>2 DEF Idle, Step
  <2> HIDE DEF t
  <2>4. Collected(t, o, kcs, certs) BY <2>2 DEF Collected
  <2>5. Written(t, o, n, a) BY <2>2 DEF Written, Clusters
  <2>6. QED BY <1>2, <2>1, <2>2, <2>3, <2>4, <2>5 DEF Fits
<1>3. CASE k \in Clusters /\ ~o.kube /\ o.tls
  <2> DEFINE t == Ensured(o, "tls", k, k)
  <2>1. Write(o, k) = t BY <1>3 DEF Write
  <2>2. /\ t \in Steps /\ t.do = "tls" /\ t.at = k /\ t.of = k /\ t.ensuring = o.ensure
    BY <1>1, <1>3 DEF Ensured, Step, Steps, Options
  <2>3. t # Idle BY <2>2 DEF Idle, Step
  <2> HIDE DEF t
  <2>4. Collected(t, o, kcs, certs) BY <2>2 DEF Collected
  <2>5. Written(t, o, n, a) BY <1>3, <2>2 DEF Written
  <2>6. QED BY <1>3, <2>1, <2>2, <2>3, <2>4, <2>5 DEF Fits
<1>4. CASE ~(k \in Clusters /\ (o.kube \/ o.tls))
  <2>1. Write(o, k) = Idle BY <1>4 DEF Write
  <2>2. Idle \in Steps /\ Idle.do = "none" /\ Idle.ensuring = FALSE
    BY <1>1 DEF Idle, Step, Steps
  <2>3. Fits(Idle, o, n, a, kcs, certs) BY <2>2 DEF Fits, Collected, Written
  <2>4. AllComplete(o, n, a)
    <3>1. CASE k \in Clusters BY <1>4, <3>1 DEF AllComplete, Complete
    <3>2. CASE k \notin Clusters BY <3>2 DEF AllComplete, Clusters
    <3>3. QED BY <3>1, <3>2
  <2>5. QED BY <2>1, <2>3, <2>4
<1>5. QED BY <1>2, <1>3, <1>4 DEF Options

\* The first loop may go on with cluster k when it has collected from the clusters before.
LEMMA GatherFits ==
    ASSUME NEW o \in Options, NEW n, NEW a, NEW kcs, NEW certs, NEW k \in 1..(N + 1),
           o.kube => Len(kcs) = k - 1,
           o.tls => Len(certs) = k - 1
    PROVE  /\ Fits(Gather(o, k), o, n, a, kcs, certs)
           /\ Gather(o, k) = Idle => AllComplete(o, n, a)
<1> USE BootstrapAssumption
<1>1. CASE k \in Clusters /\ o.kube
  <2> DEFINE t == Ensured(o, "account", k, k)
  <2>1. Gather(o, k) = t BY <1>1 DEF Gather
  <2>2. /\ t \in Steps /\ t.do = "account" /\ t.at = k /\ t.ensuring = o.ensure
    BY <1>1 DEF Ensured, Step, Steps, Options
  <2>3. t # Idle BY <2>2 DEF Idle, Step
  <2> HIDE DEF t
  <2>4. Collected(t, o, kcs, certs) BY <1>1, <2>2 DEF Collected
  <2>5. Written(t, o, n, a) BY <2>2 DEF Written
  <2>6. QED BY <1>1, <2>1, <2>2, <2>3, <2>4, <2>5 DEF Fits
<1>2. CASE k \in Clusters /\ ~o.kube /\ o.tls
  <2> DEFINE t == Step("sign", k, k)
  <2>1. Gather(o, k) = t BY <1>2 DEF Gather
  <2>2. /\ t \in Steps /\ t.do = "sign" /\ t.at = k /\ t.ensuring = FALSE
    BY <1>2 DEF Step, Steps
  <2>3. t # Idle BY <2>2 DEF Idle, Step
  <2> HIDE DEF t
  <2>4. Collected(t, o, kcs, certs) BY <1>2, <2>2 DEF Collected
  <2>5. Written(t, o, n, a) BY <2>2 DEF Written
  <2>6. QED BY <1>2, <2>1, <2>2, <2>3, <2>4, <2>5 DEF Fits
<1>3. CASE ~(k \in Clusters /\ (o.kube \/ o.tls))
  <2>1. Gather(o, k) = Write(o, 1) BY <1>3 DEF Gather
  <2>2. Full(o, kcs, certs)
    <3>1. CASE k \in Clusters BY <1>3, <3>1 DEF Full
    <3>2. CASE k \notin Clusters
      <4>1. k = N + 1 BY <3>2 DEF Clusters
      <4>2. QED BY <4>1 DEF Full
    <3>3. QED BY <3>1, <3>2
  <2>3. 1 \in 1..(N + 1) /\ \A j \in Clusters : ~(j < 1) BY DEF Clusters
  <2>4. QED BY <2>1, <2>2, <2>3, WriteFits
<1>4. QED BY <1>1, <1>2, <1>3 DEF Options

-----------------------------------------------------------------------------
(* The clusters. *)

SameSecrets ==
    \A k \in Clusters : api'[k].tls = api[k].tls /\ api'[k].kubeconfig = api[k].kubeconfig

\* A step that touches no secret keeps what has been written.
LEMMA SameSecretsKeep ==
    ASSUME IInv, SameSecrets, attempt' = attempt
    PROVE  /\ (\A k \in Clusters : api[k].tls.ca <= attempt)'
           /\ SecretsAreTheirs' /\ NewestFirst'
           /\ \A o, n : \A k \in Clusters : Complete(o, n, api[k], k) => Complete(o, n, api'[k], k)
           /\ \A o, n, s : s \in Steps /\ Written(s, o, n, api) => Written(s, o, n, api')
<1>1. (\A k \in Clusters : api[k].tls.ca <= attempt)' BY DEF IInv, SameSecrets
<1>2. SecretsAreTheirs' BY DEF IInv, SameSecrets, SecretsAreTheirs
<1>3. NewestFirst' BY DEF IInv, SameSecrets, NewestFirst
<1>4. ASSUME NEW o, NEW n, NEW k \in Clusters
      PROVE  Complete(o, n, api[k], k) => Complete(o, n, api'[k], k)
  BY DEF SameSecrets, Complete
<1>5. ASSUME NEW o, NEW n, NEW s \in Steps, Written(s, o, n, api)
      PROVE  Written(s, o, n, api')
  <2>1. s.at \in Clusters BY DEF Steps
  <2>2. CASE s.do \notin {"kubeconfig", "tls"} BY <2>2 DEF Written
  <2>3. CASE s.do \in {"kubeconfig", "tls"}
    <3>1. \A k \in Clusters : k < s.at => Complete(o, n, api'[k], k)
      BY <1>4, <1>5, <2>3 DEF Written
    <3>2. o.kube => \A j \in Clusters : s.do = "tls" \/ j < s.of => api'[s.at].kubeconfig[j] = j
      BY <1>5, <2>1, <2>3 DEF Written, SameSecrets
    <3>3. QED BY <3>1, <3>2 DEF Written
  <2>4. QED BY <2>2, <2>3
<1>6. QED BY <1>1, <1>2, <1>3, <1>4, <1>5

\* What Put does to the clusters, object by object.
LEMMA PutEffect ==
    ASSUME IInv, NEW s \in Steps, Object(s) \in Objects
    PROVE  /\ Object(s) \in {"namespace", "account", "token"} =>
                 /\ PutObject(s) \in [Clusters -> Objs]
                 /\ \A k \in Clusters : /\ PutObject(s)[k].tls = api[k].tls
                                        /\ PutObject(s)[k].kubeconfig = api[k].kubeconfig
           /\ Object(s) = "kubeconfig" =>
                 PutObject(s) = [api EXCEPT ![s.at].kubeconfig[s.of] = kubeconfigs[s.of]]
           /\ Object(s) = "tls" => PutObject(s) = [api EXCEPT ![s.at].tls = TLSData(s.at)]
<1>1. api \in [Clusters -> Objs] /\ s.at \in Clusters BY DEF IInv, TypeOK, Objs, Steps
<1>2. CASE Object(s) = "namespace"
  <2> DEFINE c == [api[s.at] EXCEPT !.namespace = TRUE]
  <2>1. PutObject(s) = [api EXCEPT ![s.at] = c] BY <1>2 DEF PutObject
  <2>2. c \in Objs BY <1>1 DEF Objs
  <2>3. c.tls = api[s.at].tls /\ c.kubeconfig = api[s.at].kubeconfig BY <1>1 DEF Objs
  <2> HIDE DEF c
  <2>4. QED BY <1>1, <1>2, <2>1, <2>2, <2>3
<1>3. CASE Object(s) = "account"
  <2> DEFINE c == [api[s.at] EXCEPT !.account = TRUE]
  <2>1. PutObject(s) = [api EXCEPT ![s.at] = c] BY <1>3 DEF PutObject
  <2>2. c \in Objs BY <1>1 DEF Objs
  <2>3. c.tls = api[s.at].tls /\ c.kubeconfig = api[s.at].kubeconfig BY <1>1 DEF Objs
  <2> HIDE DEF c
  <2>4. QED BY <1>1, <1>3, <2>1, <2>2, <2>3
<1>4. CASE Object(s) = "token"
  <2> DEFINE v == IF api[s.at].token = "absent" THEN "empty" ELSE api[s.at].token
  <2>1. PutObject(s) = [api EXCEPT ![s.at].token = v] BY <1>4 DEF PutObject
  <2>2. v \in {"absent", "empty", "filled"} BY <1>1 DEF Objs
  <2> HIDE DEF v
  <2>3. QED BY <1>1, <1>4, <2>1, <2>2 DEF Objs
<1>5. CASE Object(s) = "kubeconfig" BY <1>5 DEF PutObject
<1>6. CASE Object(s) = "tls" BY <1>6 DEF PutObject
<1>7. QED BY <1>2, <1>3, <1>4, <1>5, <1>6 DEF Objects

-----------------------------------------------------------------------------
(* The steps of a call that succeed. *)

\* When the call has come to a step that fits, and the secrets are as they should be, the
\* invariant holds.
LEMMA ProceedKeeps ==
    ASSUME IInv, Proceed, api' \in [Clusters -> Objs],
           kubeconfigs' \in Seq(Clusters), Len(kubeconfigs') <= N, Identity(kubeconfigs'),
           certificates' \in Seq(Clusters), Len(certificates') <= N, Identity(certificates'),
           (\A k \in Clusters : api[k].tls.ca <= attempt)', SecretsAreTheirs', NewestFirst',
           Fits(now', opts, attempt, api', kubeconfigs', certificates'),
           now' = Idle => AllComplete(opts, attempt, api')
    PROVE  IInv'
<1>1. opts' = opts /\ attempt' = attempt /\ found' = "ask" BY DEF Proceed
<1>2. result' = IF now' = Idle THEN "ok" ELSE "none" BY DEF Proceed
<1>3. TypeOK' BY <1>1, <1>2 DEF IInv, TypeOK, Objs, Fits
<1>4. SuccessIsComplete' BY <1>1, <1>2 DEF SuccessIsComplete, AllComplete, Complete
<1>5. QED BY <1>1, <1>3, <1>4 DEF IInv

\* The namespace, the account or the token is there.
LEMMA PutOtherKeeps ==
    ASSUME IInv, Put, Object(now) \in {"namespace", "account", "token"}
    PROVE  IInv' /\ SameSecrets
<1> USE BootstrapAssumption
<1>1. now \in Steps /\ opts \in Options BY DEF IInv, TypeOK
<1>2. api' \in [Clusters -> Objs] /\ SameSecrets
  BY <1>1, PutEffect DEF Put, SameSecrets, Objects
<1>3. /\ Proceed /\ attempt' = attempt /\ kubeconfigs' = kubeconfigs
      /\ certificates' = certificates /\ now' = After(opts, now)
  BY DEF Put, Proceed
<1>4. Fits(now, opts, attempt, api, kubeconfigs, certificates) BY DEF IInv
<1> DEFINE t == now'
<1>5. CASE now.ensuring
  <2>1. t = [now EXCEPT !.ensuring = FALSE]
    <3>1. After(opts, now) = [now EXCEPT !.ensuring = FALSE] BY <1>5 DEF After
    <3>2. QED BY <1>3, <3>1
  <2>2. /\ t \in Steps /\ t.do = now.do /\ t.at = now.at /\ t.of = now.of
        /\ t.ensuring = FALSE
    BY <1>1, <2>1 DEF Steps
  <2>3. t # Idle BY <1>4, <1>5, <2>2 DEF Fits, Idle, Step
  <2> HIDE DEF t
  <2>4. Collected(t, opts, kubeconfigs, certificates) BY <1>4, <2>2 DEF Fits, Collected
  <2>5. Written(t, opts, attempt, api) BY <1>4, <2>2 DEF Fits, Written
  <2>6. Written(t, opts, attempt, api') BY <1>2, <1>3, <2>2, <2>5, SameSecretsKeep
  <2>7. Fits(t, opts, attempt, api', kubeconfigs', certificates')
    BY <1>3, <1>4, <2>2, <2>4, <2>6 DEF Fits
  <2>8. QED BY <1>2, <1>3, <2>3, <2>7, SameSecretsKeep, ProceedKeeps DEF IInv, TypeOK, t
<1>6. CASE ~now.ensuring
  <2>1. now.do \in {"account", "token"} BY <1>1, <1>6 DEF Object, Steps
  <2> DEFINE do == IF now.do = "account" THEN "token" ELSE "poll"
  <2>2. AfterGathering(opts, now) = CreateRemoteKubeconfig(now) BY <2>1 DEF AfterGathering
  <2>3. After(opts, now) = AfterGathering(opts, now) BY <1>6, <2>1 DEF After
  <2>4. t = Step(do, now.at, now.at) BY <1>3, <2>2, <2>3 DEF CreateRemoteKubeconfig
  <2>5. do \in {"token", "poll"} OBVIOUS
  <2> HIDE DEF do
  <2>6. t \in Steps /\ t.do \in {"token", "poll"} /\ t.at = now.at /\ t.ensuring = FALSE
    BY <1>1, <2>4, <2>5 DEF Step, Steps
  <2>7. t # Idle BY <2>6 DEF Idle, Step
  <2> HIDE DEF t
  <2>8. Collected(t, opts, kubeconfigs, certificates) BY <1>4, <2>1, <2>6 DEF Fits, Collected
  <2>9. Written(t, opts, attempt, api') BY <2>6 DEF Written
  <2>10. Fits(t, opts, attempt, api', kubeconfigs', certificates')
    BY <1>3, <1>4, <2>1, <2>6, <2>8, <2>9 DEF Fits
  <2>11. QED BY <1>2, <1>3, <2>7, <2>10, SameSecretsKeep, ProceedKeeps DEF IInv, TypeOK, t
<1>7. QED BY <1>2, <1>5, <1>6

\* A collected kubeconfig or certificate is that of the cluster it is asked of, and its
\* place in the list is the cluster's.
LEMMA AppendIdentity ==
    ASSUME NEW seq \in Seq(Clusters), Identity(seq), NEW k \in Clusters, Len(seq) = k - 1
    PROVE  /\ Append(seq, k) \in Seq(Clusters) /\ Len(Append(seq, k)) = k
           /\ Identity(Append(seq, k))
<1> USE BootstrapAssumption
<1>1. /\ Append(seq, k) \in Seq(Clusters) /\ Len(Append(seq, k)) = Len(seq) + 1 /\ Len(seq) \in Nat
      /\ \A i \in 1..Len(seq) : Append(seq, k)[i] = seq[i]
      /\ Append(seq, k)[Len(seq) + 1] = k
  OBVIOUS
<1>2. k \in Nat BY DEF Clusters
<1> DEFINE t == Append(seq, k)
<1> HIDE DEF t
<1>3. ASSUME NEW i \in 1..Len(t) PROVE t[i] = i
  <2>1. CASE i \in 1..Len(seq) BY <1>1, <2>1 DEF Identity, t
  <2>2. CASE i = Len(seq) + 1 BY <1>1, <1>2, <2>2 DEF t
  <2>3. i \in 1..Len(seq) \/ i = Len(seq) + 1 BY <1>1, <1>2 DEF t
  <2>4. QED BY <2>1, <2>2, <2>3
<1>4. QED BY <1>1, <1>2, <1>3 DEF Identity, t

LEMMA PollDoneKeeps ==
    ASSUME IInv, PollDone
    PROVE  IInv'
<1> USE BootstrapAssumption
<1>1. now \in Steps /\ opts \in Options BY DEF IInv, TypeOK
<1>2. now.at \in Clusters /\ now.at \in Nat /\ now.at <= N BY <1>1 DEF Steps, Clusters
<1>3. /\ Proceed /\ attempt' = attempt /\ kubeconfigs' = Append(kubeconfigs, now.at)
      /\ certificates' = certificates /\ api' = api /\ now' = After(opts, now)
      /\ now.do = "poll" /\ ~now.ensuring
  BY DEF PollDone, Proceed, Doing
<1>4. SameSecrets BY <1>3 DEF SameSecrets
<1>5. Len(kubeconfigs) = now.at - 1 /\ (opts.tls => Len(certificates) = now.at - 1) /\ opts.kube
  BY <1>3 DEF IInv, Fits, Collected
<1>6. /\ kubeconfigs' \in Seq(Clusters) /\ Len(kubeconfigs') = now.at
      /\ Identity(kubeconfigs')
  BY <1>2, <1>3, <1>5, AppendIdentity DEF IInv, TypeOK
<1>7. After(opts, now) = AfterGathering(opts, now) BY <1>3 DEF After
<1>8. /\ Fits(now', opts, attempt, api', kubeconfigs', certificates')
      /\ now' = Idle => AllComplete(opts, attempt, api')
  <2>1. CASE opts.tls
    <3> DEFINE t == now'
    <3>1. AfterGathering(opts, now) = Step("sign", now.at, now.at)
      BY <1>3, <2>1 DEF AfterGathering
    <3>2. t = Step("sign", now.at, now.at) BY <1>3, <1>7, <3>1
    <3>3. t \in Steps /\ t.do = "sign" /\ t.at = now.at /\ t.ensuring = FALSE
      BY <1>2, <3>2 DEF Step, Steps
    <3>4. t # Idle BY <3>3 DEF Idle, Step
    <3> HIDE DEF t
    <3>5. Collected(t, opts, kubeconfigs', certificates')
      BY <1>3, <1>5, <1>6, <2>1, <3>3 DEF Collected
    <3>6. Written(t, opts, attempt, api') BY <3>3 DEF Written
    <3>7. Fits(t, opts, attempt, api', kubeconfigs', certificates')
      BY <2>1, <3>3, <3>5, <3>6 DEF Fits
    <3>8. QED BY <3>4, <3>7 DEF t
  <2>2. CASE ~opts.tls
    <3>1. AfterGathering(opts, now) = Gather(opts, now.at + 1)
      BY <1>3, <2>2 DEF AfterGathering
    <3>2. now.at + 1 \in 1..(N + 1) /\ (now.at + 1) - 1 = now.at BY <1>2
    <3>3. QED BY <1>1, <1>3, <1>6, <1>7, <2>2, <3>1, <3>2, GatherFits
  <2>3. QED BY <2>1, <2>2
<1>9. QED BY <1>2, <1>3, <1>4, <1>6, <1>8, SameSecretsKeep, ProceedKeeps DEF IInv, TypeOK, Objs

LEMMA SignKeeps ==
    ASSUME IInv, Sign
    PROVE  IInv'
<1> USE BootstrapAssumption
<1>1. now \in Steps /\ opts \in Options BY DEF IInv, TypeOK
<1>2. now.at \in Clusters /\ now.at \in Nat /\ now.at <= N BY <1>1 DEF Steps, Clusters
<1>3. /\ Proceed /\ attempt' = attempt /\ certificates' = Append(certificates, now.at)
      /\ kubeconfigs' = kubeconfigs /\ api' = api /\ now' = After(opts, now)
      /\ now.do = "sign" /\ ~now.ensuring
  BY DEF Sign, Proceed, Doing
<1>4. SameSecrets BY <1>3 DEF SameSecrets
<1>5. Len(certificates) = now.at - 1 /\ (opts.kube => Len(kubeconfigs) = now.at) /\ opts.tls
  BY <1>3 DEF IInv, Fits, Collected
<1>6. /\ certificates' \in Seq(Clusters) /\ Len(certificates') = now.at
      /\ Identity(certificates')
  BY <1>2, <1>3, <1>5, AppendIdentity DEF IInv, TypeOK
<1>7. After(opts, now) = Gather(opts, now.at + 1)
  <2>1. After(opts, now) = AfterGathering(opts, now) BY <1>3 DEF After
  <2>2. QED BY <1>3, <2>1 DEF AfterGathering
<1>8. now.at + 1 \in 1..(N + 1) /\ (now.at + 1) - 1 = now.at BY <1>2
<1>9. /\ Fits(now', opts, attempt, api', kubeconfigs', certificates')
      /\ now' = Idle => AllComplete(opts, attempt, api')
  BY <1>1, <1>3, <1>5, <1>6, <1>7, <1>8, GatherFits
<1>10. QED BY <1>2, <1>3, <1>4, <1>6, <1>9, SameSecretsKeep, ProceedKeeps DEF IInv, TypeOK, Objs

\* The kubeconfig of cluster now.of is written to cluster now.at.
LEMMA PutKubeconfigKeeps ==
    ASSUME IInv, Put, Object(now) = "kubeconfig"
    PROVE  IInv'
<1> USE BootstrapAssumption
<1>1. now \in Steps /\ opts \in Options /\ api \in [Clusters -> Objs] BY DEF IInv, TypeOK, Objs
<1>2. /\ now.at \in Clusters /\ now.at \in Nat /\ now.at <= N
      /\ now.of \in Clusters /\ now.of \in Nat /\ now.of <= N
  BY <1>1 DEF Steps, Clusters
<1>3. now.do = "kubeconfig" /\ ~now.ensuring BY <1>1 DEF Object, Steps
<1>4. /\ Proceed /\ attempt' = attempt /\ certificates' = certificates
      /\ kubeconfigs' = kubeconfigs /\ now' = After(opts, now) /\ api' = PutObject(now)
  BY DEF Put, Proceed
<1>5. /\ opts.kube /\ Len(kubeconfigs) = N /\ Full(opts, kubeconfigs, certificates)
      /\ \A k \in Clusters : k < now.at => Complete(opts, attempt, api[k], k)
      /\ \A j \in Clusters : j < now.of => api[now.at].kubeconfig[j] = j
  BY <1>3 DEF IInv, Fits, Collected, Full, Written
<1>6. kubeconfigs[now.of] = now.of BY <1>2, <1>5 DEF IInv, Identity, Clusters
<1> DEFINE c == [api[now.at] EXCEPT !.kubeconfig[now.of] = now.of]
<1>7. api' = [api EXCEPT ![now.at] = c]
  BY <1>1, <1>4, <1>6, PutEffect DEF Objects
<1>8. /\ c \in Objs /\ c.tls = api[now.at].tls /\ c.kubeconfig[now.of] = now.of
      /\ \A j \in Clusters : j # now.of => c.kubeconfig[j] = api[now.at].kubeconfig[j]
  <2> DEFINE f == [api[now.at].kubeconfig EXCEPT ![now.of] = now.of]
  <2>1. api[now.at] \in Objs /\ api[now.at].kubeconfig \in [Clusters -> 0..N]
    BY <1>1, <1>2 DEF Objs
  <2>2. /\ f \in [Clusters -> 0..N] /\ f[now.of] = now.of
        /\ \A j \in Clusters : j # now.of => f[j] = api[now.at].kubeconfig[j]
    BY <1>2, <2>1
  <2>3. c = [api[now.at] EXCEPT !.kubeconfig = f] OBVIOUS
  <2> HIDE DEF f, c
  <2>4. c \in Objs /\ c.tls = api[now.at].tls /\ c.kubeconfig = f
    BY <2>1, <2>2, <2>3 DEF Objs
  <2>5. QED BY <2>2, <2>4
<1> HIDE DEF c
<1>9. /\ api' \in [Clusters -> Objs]
      /\ api'[now.at] = c /\ \A k \in Clusters : k # now.at => api'[k] = api[k]
  BY <1>1, <1>2, <1>7, <1>8
<1>10. /\ (\A k \in Clusters : api[k].tls.ca <= attempt)' /\ NewestFirst'
  <2>1. \A k \in Clusters : api'[k].tls = api[k].tls BY <1>8, <1>9
  <2>2. QED BY <1>4, <2>1 DEF IInv, NewestFirst
<1>11. SecretsAreTheirs'
  <2>1. ASSUME NEW k \in Clusters
        PROVE  api'[k].tls.name \in {0, k} /\ \A j \in Clusters : api'[k].kubeconfig[j] \in {0, j}
    <3>1. CASE k = now.at BY <1>2, <1>8, <1>9, <3>1 DEF IInv, SecretsAreTheirs
    <3>2. CASE k # now.at BY <1>9, <3>2 DEF IInv, SecretsAreTheirs
    <3>3. QED BY <3>1, <3>2
  <2>2. QED BY <2>1 DEF SecretsAreTheirs
<1>12. \A k \in Clusters : k < now.at => Complete(opts, attempt, api'[k], k)
  BY <1>2, <1>5, <1>9
<1>13. \A j \in Clusters : j < now.of + 1 => api'[now.at].kubeconfig[j] = j
  BY <1>2, <1>5, <1>8, <1>9 DEF Clusters
<1>14. /\ Fits(now', opts, attempt, api', kubeconfigs', certificates')
       /\ now' = Idle => AllComplete(opts, attempt, api')
  <2>1. After(opts, now) = AfterWriting(opts, now) BY <1>3 DEF After
  <2> DEFINE t == now'
  <2>2. CASE now.of < Len(kubeconfigs)
    <3>1. AfterWriting(opts, now) = Ensured(opts, "kubeconfig", now.at, now.of + 1)
      BY <1>2, <1>3, <1>5, <2>2 DEF AfterWriting
    <3>2. t = Ensured(opts, "kubeconfig", now.at, now.of + 1) BY <1>4, <2>1, <3>1
    <3>3. now.of + 1 \in Clusters BY <1>2, <1>5, <2>2 DEF Clusters
    <3>4. t \in Steps /\ t.do = "kubeconfig" /\ t.at = now.at /\ t.of = now.of + 1
      BY <1>1, <1>2, <3>2, <3>3 DEF Ensured, Step, Steps, Options
    <3>5. t # Idle BY <3>4 DEF Idle, Step
    <3> HIDE DEF t
    <3>6. Collected(t, opts, kubeconfigs', certificates') BY <1>4, <1>5, <3>4 DEF Collected
    <3>7. Written(t, opts, attempt, api') BY <1>12, <1>13, <3>4 DEF Written
    <3>8. Fits(t, opts, attempt, api', kubeconfigs', certificates')
      BY <1>5, <3>4, <3>6, <3>7 DEF Fits
    <3>9. QED BY <3>5, <3>8 DEF t
  <2>3. CASE ~(now.of < Len(kubeconfigs)) /\ opts.tls
    <3>1. now.of = N BY <1>2, <1>5, <2>3
    <3>2. AfterWriting(opts, now) = Ensured(opts, "tls", now.at, now.at)
      BY <1>2, <1>3, <1>5, <2>3 DEF AfterWriting
    <3>3. t = Ensured(opts, "tls", now.at, now.at) BY <1>4, <2>1, <3>2
    <3>4. t \in Steps /\ t.do = "tls" /\ t.at = now.at
      BY <1>1, <1>2, <3>3 DEF Ensured, Step, Steps, Options
    <3>5. t # Idle BY <3>4 DEF Idle, Step
    <3> HIDE DEF t
    <3>6. Collected(t, opts, kubeconfigs', certificates') BY <1>4, <1>5, <3>4 DEF Collected
    <3>7. \A j \in Clusters : api'[now.at].kubeconfig[j] = j BY <1>13, <3>1 DEF Clusters
    <3>8. Written(t, opts, attempt, api') BY <1>12, <3>4, <3>7 DEF Written
    <3>9. Fits(t, opts, attempt, api', kubeconfigs', certificates')
      BY <2>3, <3>4, <3>6, <3>8 DEF Fits
    <3>10. QED BY <3>5, <3>9 DEF t
  <2>4. CASE ~(now.of < Len(kubeconfigs)) /\ ~opts.tls
    <3>1. now.of = N BY <1>2, <1>5, <2>4
    <3>2. AfterWriting(opts, now) = Write(opts, now.at + 1)
      BY <2>4 DEF AfterWriting
    <3>3. Complete(opts, attempt, api'[now.at], now.at)
      BY <1>13, <2>4, <3>1 DEF Complete, Clusters
    <3>4. \A j \in Clusters : j < now.at + 1 => Complete(opts, attempt, api'[j], j)
      BY <1>2, <1>12, <3>3 DEF Clusters
    <3>5. now.at + 1 \in 1..(N + 1) BY <1>2
    <3>6. QED BY <1>1, <1>4, <1>5, <2>1, <3>2, <3>4, <3>5, WriteFits
  <2>5. QED BY <2>2, <2>3, <2>4
<1>15. QED BY <1>4, <1>9, <1>10, <1>11, <1>14, ProceedKeeps DEF IInv, TypeOK

\* The certificate of cluster now.at is written to it: all clusters before it have the
\* authority of this call already, so it is not newer than theirs.
LEMMA PutTLSKeeps ==
    ASSUME IInv, Put, Object(now) = "tls"
    PROVE  IInv'
<1> USE BootstrapAssumption
<1>1. now \in Steps /\ opts \in Options /\ api \in [Clusters -> Objs] /\ attempt \in 0..MaxAttempts
  BY DEF IInv, TypeOK, Objs
<1>2. now.at \in Clusters /\ now.at \in Nat /\ now.at <= N BY <1>1 DEF Steps, Clusters
<1>3. now.do = "tls" /\ ~now.ensuring BY <1>1 DEF Object, Steps
<1>4. /\ Proceed /\ attempt' = attempt /\ certificates' = certificates
      /\ kubeconfigs' = kubeconfigs /\ now' = After(opts, now) /\ api' = PutObject(now)
  BY DEF Put, Proceed
<1>5. /\ opts.tls /\ Len(certificates) = N /\ Full(opts, kubeconfigs, certificates)
      /\ \A k \in Clusters : k < now.at => Complete(opts, attempt, api[k], k)
      /\ opts.kube => \A j \in Clusters : api[now.at].kubeconfig[j] = j
  BY <1>3 DEF IInv, Fits, Collected, Full, Written
<1>6. certificates[now.at] = now.at BY <1>2, <1>5 DEF IInv, Identity, Clusters
<1> DEFINE secret == [ca |-> attempt, name |-> now.at]
<1> DEFINE c == [api[now.at] EXCEPT !.tls = secret]
<1>7. secret \in [ca : 0..MaxAttempts, name : 0..N] /\ secret.ca = attempt /\ secret.name = now.at
  BY <1>1, <1>2
<1>8. api' = [api EXCEPT ![now.at] = c]
  BY <1>1, <1>4, <1>6, PutEffect DEF Objects, TLSData
<1> HIDE DEF secret
<1>9. c \in Objs /\ c.tls = secret /\ c.kubeconfig = api[now.at].kubeconfig
  BY <1>1, <1>2, <1>7 DEF Objs
<1> HIDE DEF c
<1>10. /\ api' \in [Clusters -> Objs]
       /\ api'[now.at] = c /\ \A k \in Clusters : k # now.at => api'[k] = api[k]
  BY <1>1, <1>2, <1>8, <1>9
<1>11. \A k \in Clusters : k < now.at + 1 => Complete(opts, attempt, api'[k], k)
  <2>1. Complete(opts, attempt, api'[now.at], now.at)
    BY <1>2, <1>5, <1>9, <1>10 DEF Complete, secret
  <2>2. \A k \in Clusters : k < now.at => Complete(opts, attempt, api'[k], k)
    BY <1>2, <1>5, <1>10
  <2>3. QED BY <1>2, <2>1, <2>2 DEF Clusters
<1>12. \A k \in Clusters : api'[k].tls.ca \in Nat /\ api'[k].tls.ca <= attempt
  <2>1. ASSUME NEW k \in Clusters PROVE api'[k].tls.ca \in Nat /\ api'[k].tls.ca <= attempt
    <3>1. CASE k = now.at BY <1>1, <1>7, <1>9, <1>10, <3>1
    <3>2. CASE k # now.at BY <1>1, <1>10, <3>2 DEF IInv, Objs
    <3>3. QED BY <3>1, <3>2
  <2>2. QED BY <2>1
<1>13. NewestFirst'
  <2>1. ASSUME NEW k \in Clusters, NEW l \in Clusters, k < l
        PROVE  api'[k].tls.ca >= api'[l].tls.ca
    <3>1. CASE k <= now.at
      <4>1. k < now.at + 1 BY <1>2, <3>1 DEF Clusters
      <4>2. api'[k].tls = [ca |-> attempt, name |-> k] BY <1>5, <1>11, <4>1 DEF Complete
      <4>3. QED BY <1>1, <1>12, <4>2
    <3>2. CASE ~(k <= now.at)
      <4>1. k # now.at /\ l # now.at BY <1>2, <2>1, <3>2 DEF Clusters
      <4>2. QED BY <1>10, <2>1, <4>1 DEF IInv, NewestFirst
    <3>3. QED BY <3>1, <3>2
  <2>2. QED BY <2>1 DEF NewestFirst
<1>14. SecretsAreTheirs'
  <2>1. ASSUME NEW k \in Clusters
        PROVE  api'[k].tls.name \in {0, k} /\ \A j \in Clusters : api'[k].kubeconfig[j] \in {0, j}
    <3>1. CASE k = now.at BY <1>2, <1>7, <1>9, <1>10, <3>1 DEF IInv, SecretsAreTheirs
    <3>2. CASE k # now.at BY <1>10, <3>2 DEF IInv, SecretsAreTheirs
    <3>3. QED BY <3>1, <3>2
  <2>2. QED BY <2>1 DEF SecretsAreTheirs
<1>15. /\ Fits(now', opts, attempt, api', kubeconfigs', certificates')
       /\ now' = Idle => AllComplete(opts, attempt, api')
  <2>1. After(opts, now) = AfterWriting(opts, now) BY <1>3 DEF After
  <2>2. AfterWriting(opts, now) = Write(opts, now.at + 1) BY <1>3 DEF AfterWriting
  <2>3. now.at + 1 \in 1..(N + 1) BY <1>2
  <2>4. QED BY <1>1, <1>4, <1>5, <1>11, <2>1, <2>2, <2>3, WriteFits
<1>16. (\A k \in Clusters : api[k].tls.ca <= attempt)' BY <1>4, <1>12
<1>17. QED BY <1>4, <1>10, <1>13, <1>14, <1>15, <1>16, ProceedKeeps DEF IInv, TypeOK

LEMMA PutKeeps ==
    ASSUME IInv, Put
    PROVE  IInv'
<1>1. Object(now) \in Objects BY DEF IInv, Put
<1>2. QED BY <1>1, PutOtherKeeps, PutKubeconfigKeeps, PutTLSKeeps DEF Objects

-----------------------------------------------------------------------------
(* The other steps. *)

\* Steps that leave the call where it is and touch no secret.
LEMMA QuietKeeps ==
    ASSUME IInv, api' \in [Clusters -> Objs], SameSecrets,
           found' \in {"ask", "yes", "no"}, found' # "ask" => Object(now) \in Objects,
           UNCHANGED <<attempt, opts, now, kubeconfigs, certificates, result>>
    PROVE  IInv'
<1>1. TypeOK' BY DEF IInv, TypeOK, Objs
<1>2. now \in Steps BY DEF IInv, TypeOK
<1>3. Written(now, opts, attempt, api') BY <1>2, SameSecretsKeep DEF IInv, Fits
<1>4. Fits(now, opts, attempt, api', kubeconfigs, certificates) BY <1>3 DEF IInv, Fits
<1>5. SuccessIsComplete' BY DEF IInv, SuccessIsComplete, SameSecrets
<1>6. (found # "ask" => Object(now) \in Objects)' BY DEF Object
<1>7. QED BY <1>1, <1>4, <1>5, <1>6, SameSecretsKeep DEF IInv

LEMMA GetObjectKeeps ==
    ASSUME IInv, GetObject
    PROVE  IInv'
<1>1. api' = api /\ api \in [Clusters -> Objs] /\ SameSecrets
  BY DEF IInv, TypeOK, Objs, GetObject, SameSecrets
<1>2. found' \in {"ask", "yes", "no"} /\ Object(now) \in Objects BY DEF GetObject
<1>3. QED BY <1>1, <1>2, QuietKeeps DEF GetObject

LEMMA OperatorCreatesKeeps ==
    ASSUME IInv, NEW k \in Clusters, OperatorCreates(k)
    PROVE  IInv' /\ SameSecrets
<1> DEFINE s == Step(IF api[k].account THEN "token" ELSE "account", k, k)
<1>1. api' = PutObject(s) BY DEF OperatorCreates
<1>2. s \in Steps /\ s.do \in {"token", "account"} /\ ~s.ensuring BY DEF Step, Steps
<1> HIDE DEF s
<1>3. Object(s) \in {"namespace", "account", "token"} /\ Object(s) \in Objects
  BY <1>2 DEF Object, Objects
<1>4. api' \in [Clusters -> Objs] /\ SameSecrets BY <1>1, <1>2, <1>3, PutEffect DEF SameSecrets
<1>5. /\ found' \in {"ask", "yes", "no"} /\ (found' # "ask" => Object(now) \in Objects)
      /\ UNCHANGED <<attempt, opts, now, kubeconfigs, certificates, result>>
  BY DEF IInv, TypeOK, OperatorCreates
<1>6. QED BY <1>4, <1>5, QuietKeeps

LEMMA ControlTokenKeeps ==
    ASSUME IInv, NEW k \in Clusters, ControlToken(k)
    PROVE  IInv' /\ SameSecrets
<1> DEFINE v == IF api[k].account THEN "filled" ELSE "absent"
<1>1. api' = [api EXCEPT ![k].token = v] BY DEF ControlToken
<1>2. v \in {"absent", "empty", "filled"} OBVIOUS
<1> HIDE DEF v
<1>3. api \in [Clusters -> Objs] BY DEF IInv, TypeOK, Objs
<1>4. api' \in [Clusters -> Objs] /\ SameSecrets BY <1>1, <1>2, <1>3 DEF Objs, SameSecrets
<1>5. /\ found' \in {"ask", "yes", "no"} /\ (found' # "ask" => Object(now) \in Objects)
      /\ UNCHANGED <<attempt, opts, now, kubeconfigs, certificates, result>>
  BY DEF IInv, TypeOK, ControlToken
<1>6. QED BY <1>4, <1>5, QuietKeeps

\* A call that fails leaves everything as it is at that moment.
LEMMA FailKeeps ==
    ASSUME IInv, Fail
    PROVE  IInv'
<1> USE BootstrapAssumption
<1>1. /\ now' = Idle /\ found' = "ask" /\ result' = "error"
      /\ UNCHANGED <<api, attempt, opts, kubeconfigs, certificates>>
  BY DEF Fail
<1>2. Idle \in Steps /\ Idle.do = "none" /\ Idle.ensuring = FALSE
  BY DEF Idle, Step, Steps, Clusters
<1>3. TypeOK' BY <1>1, <1>2 DEF IInv, TypeOK
<1>4. Fits(Idle, opts, attempt, api, kubeconfigs, certificates)
  BY <1>2 DEF Fits, Collected, Written
<1>5. SameSecrets BY <1>1 DEF SameSecrets
<1>6. SuccessIsComplete' BY <1>1 DEF SuccessIsComplete
<1>7. QED BY <1>1, <1>3, <1>4, <1>5, <1>6, SameSecretsKeep DEF IInv

LEMMA CallKeeps ==
    ASSUME IInv, NEW o \in Options, Call(o)
    PROVE  IInv'
<1> USE BootstrapAssumption
<1>1. /\ attempt' = attempt + 1 /\ attempt \in 0..MaxAttempts /\ attempt' \in 0..MaxAttempts
      /\ opts' = o /\ now' = Gather(o, 1) /\ kubeconfigs' = <<>> /\ certificates' = <<>>
      /\ UNCHANGED <<api, found>> /\ now = Idle
      /\ result' = IF now' = Idle THEN "ok" ELSE "none"
  BY DEF Call, IInv, TypeOK
<1>2. /\ Len(<<>>) = 0 /\ <<>> \in Seq(Clusters) /\ Identity(<<>>) /\ 1 \in 1..(N + 1)
      /\ Len(<<>>) <= N /\ Len(<<>>) = 1 - 1
  BY DEF Identity
<1>3. /\ Fits(now', o, attempt', api, <<>>, <<>>)
      /\ now' = Idle => AllComplete(o, attempt', api)
  BY <1>1, <1>2, GatherFits
<1>4. TypeOK' BY <1>1, <1>2, <1>3 DEF IInv, TypeOK, Fits
<1>5. found = "ask"
  <2>1. Idle.do = "none" /\ Idle.ensuring = FALSE BY DEF Idle, Step
  <2>2. QED BY <1>1, <2>1 DEF IInv, Object, Objects
<1>6. \A k \in Clusters : api[k].tls.ca \in Nat BY DEF IInv, TypeOK
<1>7. (\A k \in Clusters : api[k].tls.ca <= attempt)' BY <1>1, <1>6 DEF IInv
<1>8. SecretsAreTheirs' /\ NewestFirst' BY <1>1 DEF IInv, SecretsAreTheirs, NewestFirst
<1>9. SuccessIsComplete' BY <1>1, <1>3 DEF SuccessIsComplete, AllComplete, Complete
<1>10. QED BY <1>1, <1>2, <1>3, <1>4, <1>5, <1>7, <1>8, <1>9 DEF IInv

LEMMA InitIInv == Init => IInv
<1> SUFFICES ASSUME Init PROVE IInv OBVIOUS
<1> USE BootstrapAssumption
<1>1. /\ attempt = 0 /\ now = Idle /\ found = "ask" /\ kubeconfigs = <<>>
      /\ certificates = <<>> /\ result = "none"
      /\ opts \in Options
  BY DEF Init, Options
<1>2. PICK ns \in [Clusters -> BOOLEAN] :
        api = [k \in Clusters |->
                 [namespace |-> ns[k], account |-> FALSE, token |-> "absent",
                  kubeconfig |-> [j \in Clusters |-> 0], tls |-> NoSecret]]
  BY DEF Init
<1>3. api \in [Clusters -> Objs] BY <1>2 DEF Objs, NoSecret
<1>4. \A k \in Clusters : /\ api[k].tls = NoSecret
                          /\ \A j \in Clusters : api[k].kubeconfig[j] = 0
  BY <1>2
<1>5. Idle \in Steps /\ Idle.do = "none" /\ Idle.ensuring = FALSE
  BY DEF Idle, Step, Steps, Clusters
<1>6. TypeOK BY <1>1, <1>3, <1>5 DEF TypeOK, Objs
<1>7. Fits(now, opts, attempt, api, kubeconfigs, certificates)
  BY <1>1, <1>5 DEF Fits, Collected, Written
<1>8. Identity(kubeconfigs) /\ Identity(certificates) BY <1>1 DEF Identity
<1>9. NoSecret.ca = 0 /\ NoSecret.name = 0 BY DEF NoSecret
<1>10. SecretsAreTheirs /\ NewestFirst BY <1>4, <1>9 DEF SecretsAreTheirs, NewestFirst
<1>11. SuccessIsComplete BY <1>1 DEF SuccessIsComplete
<1>12. \A k \in Clusters : api[k].tls.ca <= attempt BY <1>1, <1>4, <1>9
<1>13. QED BY <1>1, <1>6, <1>7, <1>8, <1>10, <1>11, <1>12 DEF IInv

LEMMA Inductive == IInv /\ [Next]_vars => IInv'
<1> SUFFICES ASSUME IInv, [Next]_vars PROVE IInv' OBVIOUS
<1>1. CASE GetObject BY <1>1, GetObjectKeeps
<1>2. CASE Put BY <1>2, PutKeeps
<1>3. CASE PutRefused BY <1>3, FailKeeps DEF PutRefused
<1>4. CASE PollDone BY <1>4, PollDoneKeeps
<1>5. CASE Sign BY <1>5, SignKeeps
<1>6. CASE Error BY <1>6, FailKeeps DEF Error
<1>7. ASSUME NEW o \in Options, Call(o) PROVE IInv' BY <1>7, CallKeeps
<1>8. ASSUME NEW k \in Clusters, OperatorCreates(k) PROVE IInv' BY <1>8, OperatorCreatesKeeps
<1>9. ASSUME NEW k \in Clusters, ControlToken(k) PROVE IInv' BY <1>9, ControlTokenKeeps
<1>10. CASE UNCHANGED vars
  <2>1. TypeOK' BY <1>10 DEF IInv, TypeOK, vars
  <2>2. SecretsAreTheirs' /\ NewestFirst' /\ SuccessIsComplete'
    BY <1>10 DEF IInv, SecretsAreTheirs, NewestFirst, SuccessIsComplete, vars
  <2>3. QED BY <1>10, <2>1, <2>2 DEF IInv, vars, Object
<1>11. QED
  BY <1>1, <1>2, <1>3, <1>4, <1>5, <1>6, <1>7, <1>8, <1>9, <1>10 DEF Next, CallStep

LEMMA Invariance == Spec => []IInv
BY InitIInv, Inductive, PTL DEF Spec

-----------------------------------------------------------------------------
(* The results, for every number of clusters and of calls. *)

\* The variables keep their types; a call never holds more kubeconfigs or certificates
\* than there are clusters, so that the indices of the second loop are those of the first.
THEOREM TypeCorrect == Spec => []TypeOK
<1>1. IInv => TypeOK BY DEF IInv
<1>2. QED BY <1>1, Invariance, PTL

\* BootstrapKubernetesClusters that returns nil has left every cluster with a certificate
\* of this call's authority and with the kubeconfigs of all clusters.
THEOREM SuccessComplete == Spec => []SuccessIsComplete
<1>1. IInv => SuccessIsComplete BY DEF IInv
<1>2. QED BY <1>1, Invariance, PTL

\* No cluster ever has the certificate or, under a name, the kubeconfig of another.
THEOREM SecretsTheirs == Spec => []SecretsAreTheirs
<1>1. IInv => SecretsAreTheirs BY DEF IInv
<1>2. QED BY <1>1, Invariance, PTL

\* However calls fail, the authorities of the clusters get older along the list.
THEOREM AuthoritiesNewestFirst == Spec => []NewestFirst
<1>1. IInv => NewestFirst BY DEF IInv
<1>2. QED BY <1>1, Invariance, PTL

\* No kubeconfig or certificate secret changes before the first loop has collected what
\* the call is to write, of all clusters.  (A call that fails in the second loop leaves
\* some of them changed.)
THEOREM CollectedFirst == Spec => CollectsBeforeItWrites
<1> DEFINE A == \A k \in Clusters :
          api'[k].tls # api[k].tls \/ api'[k].kubeconfig # api[k].kubeconfig
              => /\ opts.kube => Len(kubeconfigs) = N
                 /\ opts.tls => Len(certificates) = N
<1>1. IInv /\ [Next]_vars => [A]_vars
  <2> SUFFICES ASSUME IInv, [Next]_vars PROVE A OBVIOUS
  <2>1. SameSecrets => A BY DEF SameSecrets
  <2>2. api' = api => SameSecrets BY DEF SameSecrets
  <2> HIDE DEF A
  <2>3. CASE GetObject BY <2>1, <2>2, <2>3 DEF GetObject
  <2>4. CASE Put
    <3>1. CASE Object(now) \in {"namespace", "account", "token"}
      BY <2>1, <2>4, <3>1, PutOtherKeeps
    <3>2. CASE Object(now) \in {"kubeconfig", "tls"}
      <4>1. now \in Steps BY DEF IInv, TypeOK
      <4>2. now.do \in {"kubeconfig", "tls"} BY <3>2, <4>1 DEF Object, Steps
      <4>3. QED BY <4>2 DEF A, IInv, Fits, Collected, Full
    <3>3. QED BY <2>4, <3>1, <3>2 DEF IInv, Put, Objects
  <2>5. CASE PutRefused BY <2>1, <2>2, <2>5 DEF PutRefused, Fail
  <2>6. CASE PollDone BY <2>1, <2>2, <2>6 DEF PollDone
  <2>7. CASE Sign BY <2>1, <2>2, <2>7 DEF Sign
  <2>8. CASE Error BY <2>1, <2>2, <2>8 DEF Error, Fail
  <2>9. ASSUME NEW o \in Options, Call(o) PROVE A BY <2>1, <2>2, <2>9 DEF Call
  <2>10. ASSUME NEW k \in Clusters, OperatorCreates(k) PROVE A
    BY <2>1, <2>10, OperatorCreatesKeeps
  <2>11. ASSUME NEW k \in Clusters, ControlToken(k) PROVE A
    BY <2>1, <2>11, ControlTokenKeeps
  <2>12. CASE UNCHANGED vars BY <2>1, <2>2, <2>12 DEF vars
  <2>13. QED
    BY <2>3, <2>4, <2>5, <2>6, <2>7, <2>8, <2>9, <2>10, <2>11, <2>12 DEF Next, CallStep
<1>2. CollectsBeforeItWrites <=> [][A]_vars BY DEF CollectsBeforeItWrites
<1> HIDE DEF A
<1>3. QED BY <1>1, <1>2, Invariance, PTL DEF Spec

=============================================================================
