------------------------------ MODULE Bootstrap ------------------------------
(***************************************************************************)
(* BootstrapKubernetesClusters of multicluster/bootstrap: it makes a new   *)
(* certificate authority, collects a kubeconfig and a certificate for each *)
(* cluster, and then writes, cluster after cluster, the kubeconfigs of all *)
(* of them and the cluster's certificate into secrets.  Every request to   *)
(* an API server may fail, which ends the call; nothing is undone, and a   *)
(* user calls it again, with a new authority.                              *)
(*                                                                         *)
(* Meanwhile the operators that run in the clusters create the same        *)
(* service accounts and tokens when a peer asks them for a kubeconfig      *)
(* (CreateRemoteKubeconfig is the Fetcher of NewRaftRuntimeManager).       *)
(***************************************************************************)
EXTENDS Naturals, Sequences

CONSTANTS
    N,            \* RemoteClusters, in their order
    MaxAttempts   \* bound: calls of BootstrapKubernetesClusters

ASSUME BootstrapAssumption == N \in Nat \ {0} /\ MaxAttempts \in Nat \ {0}

VARIABLES
    api,      \* what is in the clusters
    attempt,  \* calls so far; the number of an authority is that of the call that made it
    opts,     \* BootstrapTLS, BootstrapKubeconfigs and EnsureNamespace of this call
    now,      \* the step that it has come to
    found,    \* in CreateOrUpdate: what Get has answered ("ask": it has not)
    kubeconfigs, certificates,   \* collected so far; each is known by its cluster
    result    \* of the last call that has returned

vars == <<api, attempt, opts, now, found, kubeconfigs, certificates, result>>

Clusters == 1..N
Options == [tls : BOOLEAN, kube : BOOLEAN, ensure : BOOLEAN]

\* A step in cluster at; a kubeconfig is that of cluster of.  While it is ensuring, the
\* namespace of the step's object is made sure of first.
Steps == [do : {"none", "account", "token", "poll", "sign", "kubeconfig", "tls"},
          ensuring : BOOLEAN, at : Clusters, of : Clusters]

TypeOK ==
    /\ api \in [Clusters -> [namespace : BOOLEAN, account : BOOLEAN,
                             token : {"absent", "empty", "filled"},
                             kubeconfig : [Clusters -> 0..N],
                             tls : [ca : 0..MaxAttempts, name : 0..N]]]
    /\ attempt \in 0..MaxAttempts
    /\ opts \in Options
    /\ now \in Steps
    /\ found \in {"ask", "yes", "no"}
    /\ kubeconfigs \in Seq(Clusters) /\ Len(kubeconfigs) <= N
    /\ certificates \in Seq(Clusters) /\ Len(certificates) <= N
    /\ result \in {"none", "ok", "error"}

NoSecret == [ca |-> 0, name |-> 0]

Step(do, k, j) == [do |-> do, ensuring |-> FALSE, at |-> k, of |-> j]

\* No call is under way.
Idle == Step("none", 1, 1)

Init ==
    /\ \E ns \in [Clusters -> BOOLEAN] :
        api = [k \in Clusters |->
                 [namespace |-> ns[k], account |-> FALSE, token |-> "absent",
                  kubeconfig |-> [j \in Clusters |-> 0], tls |-> NoSecret]]
    /\ attempt = 0
    /\ opts = [tls |-> FALSE, kube |-> FALSE, ensure |-> FALSE]
    /\ now = Idle /\ found = "ask"
    /\ kubeconfigs = <<>> /\ certificates = <<>>
    /\ result = "none"

-----------------------------------------------------------------------------
(* The steps of a call. *)

Ensured(o, do, k, j) == [Step(do, k, j) EXCEPT !.ensuring = o.ensure]

\* The second loop from cluster k on.
Write(o, k) ==
    CASE k \in Clusters /\ o.kube -> Ensured(o, "kubeconfig", k, 1)
      [] k \in Clusters /\ ~o.kube /\ o.tls -> Ensured(o, "tls", k, k)
      [] OTHER -> Idle

\* The first loop from cluster k on.
Gather(o, k) ==
    CASE k \in Clusters /\ o.kube -> Ensured(o, "account", k, k)
      [] k \in Clusters /\ ~o.kube /\ o.tls -> Step("sign", k, k)
      [] OTHER -> Write(o, 1)

\* Slip: nobody makes a token for the account.
CreateRemoteKubeconfigDefect(s) == Step("poll", s.at, s.at)

CreateRemoteKubeconfig(s) == Step(IF s.do = "account" THEN "token" ELSE "poll", s.at, s.at)

\* Slip: each cluster is written as soon as its certificate is there.
AfterGatheringDefect(o, s) ==
    CASE s.do \in {"account", "token"} -> CreateRemoteKubeconfig(s)
      [] s.do = "poll" /\ o.tls -> Step("sign", s.at, s.at)
      [] OTHER -> Write(o, s.at)

AfterGathering(o, s) ==
    CASE s.do \in {"account", "token"} -> CreateRemoteKubeconfig(s)
      [] s.do = "poll" /\ o.tls -> Step("sign", s.at, s.at)
      [] OTHER -> Gather(o, s.at + 1)

\* Slip: a cluster does not get the kubeconfig of the last one.
AfterWritingDefect(o, s) ==
    CASE s.do = "kubeconfig" /\ s.of + 1 < Len(kubeconfigs) -> Ensured(o, "kubeconfig", s.at, s.of + 1)
      [] s.do = "kubeconfig" /\ s.of + 1 >= Len(kubeconfigs) /\ o.tls -> Ensured(o, "tls", s.at, s.at)
      [] OTHER -> Write(o, s.at + 1)

\* CreateKubeconfigSecret for all kubeconfigs, then CreateTLSSecret
AfterWriting(o, s) ==
    CASE s.do = "kubeconfig" /\ s.of < Len(kubeconfigs) -> Ensured(o, "kubeconfig", s.at, s.of + 1)
      [] s.do = "kubeconfig" /\ s.of >= Len(kubeconfigs) /\ o.tls -> Ensured(o, "tls", s.at, s.at)
      [] OTHER -> Write(o, s.at + 1)

After(o, s) ==
    CASE s.ensuring -> [s EXCEPT !.ensuring = FALSE]
      [] ~s.ensuring /\ s.do \in {"kubeconfig", "tls"} -> AfterWriting(o, s)
      [] OTHER -> AfterGathering(o, s)

-----------------------------------------------------------------------------
\* Slip: what an earlier call has collected is kept.
CallDefect(o) ==
    /\ now = Idle /\ attempt < MaxAttempts
    /\ attempt' = attempt + 1
    /\ opts' = o
    /\ now' = Gather(o, 1)
    /\ result' = IF Gather(o, 1) = Idle THEN "ok" ELSE "none"
    /\ UNCHANGED <<api, found, kubeconfigs, certificates>>

\* BootstrapKubernetesClusters is called, and GenerateCA makes authority attempt + 1.
Call(o) ==
    /\ now = Idle /\ attempt < MaxAttempts
    /\ attempt' = attempt + 1
    /\ opts' = o
    /\ now' = Gather(o, 1)
    /\ kubeconfigs' = <<>> /\ certificates' = <<>>
    /\ result' = IF Gather(o, 1) = Idle THEN "ok" ELSE "none"
    /\ UNCHANGED <<api, found>>

Doing(step) == now.do = step /\ ~now.ensuring

\* The step is done; after the last one the call returns nil.
Proceed ==
    /\ now' = After(opts, now)
    /\ found' = "ask"
    /\ result' = IF After(opts, now) = Idle THEN "ok" ELSE "none"
    /\ UNCHANGED <<attempt, opts>>

\* An error is returned.
Fail ==
    /\ now' = Idle
    /\ found' = "ask"
    /\ result' = "error"
    /\ UNCHANGED <<api, attempt, opts, kubeconfigs, certificates>>

-----------------------------------------------------------------------------
(* controllerutil.CreateOrUpdate: Get, and then Create or Update. *)

\* The kind of the object that the step is about.
Object(s) == IF s.ensuring THEN "namespace" ELSE s.do

Objects == {"namespace", "account", "token", "kubeconfig", "tls"}

Exists(s) ==
    LET c == api[s.at]
    IN  CASE Object(s) = "namespace" -> c.namespace
          [] Object(s) = "account" -> c.account
          [] Object(s) = "token" -> c.token # "absent"
          [] Object(s) = "kubeconfig" -> c.kubeconfig[s.of] # 0
          [] Object(s) = "tls" -> c.tls # NoSecret

GetObject ==
    /\ Object(now) \in Objects /\ found = "ask"
    /\ found' = IF Exists(now) THEN "yes" ELSE "no"
    /\ UNCHANGED <<api, attempt, opts, now, kubeconfigs, certificates, result>>

\* Slip: the secret gets the certificate of the last cluster that was signed for.
TLSDataDefect(k) == [ca |-> attempt, name |-> certificates[Len(certificates)]]

\* Slip: the data of a secret that is there is left as it is.
TLSDataKeptDefect(k) ==
    IF api[k].tls # NoSecret THEN api[k].tls ELSE [ca |-> attempt, name |-> certificates[k]]

\* ca.crt, and the tls.crt and tls.key of certificates[i]
TLSData(k) == [ca |-> attempt, name |-> certificates[k]]

\* The object is as the call wants it.  Namespaces, accounts and tokens that are there are
\* left as they are, the data of secrets is replaced.
PutObject(s) ==
    CASE Object(s) = "namespace" -> [api EXCEPT ![s.at].namespace = TRUE]
      [] Object(s) = "account" -> [api EXCEPT ![s.at].account = TRUE]
      [] Object(s) = "token" -> [api EXCEPT ![s.at].token = IF @ = "absent" THEN "empty" ELSE @]
      [] Object(s) = "kubeconfig" -> [api EXCEPT ![s.at].kubeconfig[s.of] = kubeconfigs[s.of]]
      [] Object(s) = "tls" -> [api EXCEPT ![s.at].tls = TLSData(s.at)]

Put ==
    /\ found # "ask"
    /\ (found = "yes") = Exists(now)
    /\ now.ensuring \/ api[now.at].namespace
    /\ api' = PutObject(now)
    /\ Proceed
    /\ UNCHANGED <<kubeconfigs, certificates>>

\* AlreadyExists, NotFound, or no such namespace.
PutRefused ==
    /\ found # "ask"
    /\ \/ (found = "yes") # Exists(now)
       \/ ~now.ensuring /\ ~api[now.at].namespace
    /\ Fail

-----------------------------------------------------------------------------
\* The token is there.  While it is not, the call looks again every second.  The secret
\* itself is there since the step before; a Get that fails is an Error.
PollDone ==
    /\ Doing("poll") /\ api[now.at].token = "filled"
    /\ kubeconfigs' = Append(kubeconfigs, now.at)
    /\ Proceed
    /\ UNCHANGED <<api, certificates>>

Sign ==
    /\ Doing("sign")
    /\ certificates' = Append(certificates, now.at)
    /\ Proceed
    /\ UNCHANGED <<api, kubeconfigs>>

Disturbed == attempt < MaxAttempts

\* A request fails, a context of the kubeconfig is missing, or ctx is cancelled.
Error ==
    /\ now # Idle /\ Disturbed
    /\ Fail

-----------------------------------------------------------------------------
(* Others. *)

\* An operator that is asked for its kubeconfig.
OperatorCreates(k) ==
    /\ Disturbed /\ api[k].namespace
    /\ api' = IF api[k].account THEN PutObject(Step("token", k, k))
              ELSE PutObject(Step("account", k, k))
    /\ UNCHANGED <<attempt, opts, now, found, kubeconfigs, certificates, result>>

\* The token controller of Kubernetes fills the secrets of accounts, and deletes those
\* that have none.
ControlToken(k) ==
    /\ api[k].token = "empty"
    /\ api' = [api EXCEPT ![k].token = IF api[k].account THEN "filled" ELSE "absent"]
    /\ UNCHANGED <<attempt, opts, now, found, kubeconfigs, certificates, result>>

CallStep == GetObject \/ Put \/ PutRefused \/ PollDone \/ Sign

Next ==
    \/ CallStep \/ Error
    \/ \E o \in Options : Call(o)
    \/ \E k \in Clusters : OperatorCreates(k) \/ ControlToken(k)

Spec == Init /\ [][Next]_vars

\* Calls go on and the token controller works.  Nobody has to call again.
Fairness == WF_vars(CallStep) /\ \A k \in Clusters : WF_vars(ControlToken(k))

FairSpec == Spec /\ Fairness

-----------------------------------------------------------------------------
(* Properties. *)

\* A call that returns no error leaves all clusters with certificates of its own authority
\* and with the kubeconfigs of all, whatever earlier calls have left behind.
SuccessIsComplete ==
    result = "ok" =>
        \A k \in Clusters :
            /\ opts.tls => api[k].tls = [ca |-> attempt, name |-> k]
            /\ opts.kube => \A j \in Clusters : api[k].kubeconfig[j] = j

\* At no time, in the middle of a call or after one that failed, does a cluster have the
\* certificate or, under a name, the kubeconfig of another.
SecretsAreTheirs ==
    \A k \in Clusters :
        /\ api[k].tls.name \in {0, k}
        /\ \A j \in Clusters : api[k].kubeconfig[j] \in {0, j}

\* No kubeconfig secret and no certificate secret is written before the first loop has
\* done all clusters.  So a call that fails in that loop (with kubeconfigs, because it does
\* not reach one of the clusters; without them the loop only signs) leaves these secrets
\* of all clusters as they were.  A call that fails in the second loop does not: the
\* clusters before that one have new ones (NewestFirst).
CollectsBeforeItWrites ==
    [][\A k \in Clusters :
          api'[k].tls # api[k].tls \/ api'[k].kubeconfig # api[k].kubeconfig
              => /\ opts.kube => Len(kubeconfigs) = N
                 /\ opts.tls => Len(certificates) = N]_vars

\* Clusters that trust different authorities are those before and after the place where
\* calls failed: along the list of clusters authorities get older.
NewestFirst == \A k, l \in Clusters : k < l => api[k].tls.ca >= api[l].tls.ca

\* A call that is not disturbed succeeds, whatever calls before it and operators have left
\* behind, if the namespaces are there or it may create them: the token it waits for comes.
UndisturbedSucceeds ==
    (attempt = MaxAttempts /\ (opts.ensure \/ \A k \in Clusters : api[k].namespace))
        ~> result = "ok"

=============================================================================
