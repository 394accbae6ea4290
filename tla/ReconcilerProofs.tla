--------------------------- MODULE ReconcilerProofs ---------------------------
(***************************************************************************)
(* Theorems about KnowledgeBaseReconciler, for every set of specs, every   *)
(* budget, every lagging cache and every set of drifting objects.          *)
(***************************************************************************)
EXTENDS ReconcilerProperties, TLAPS

USE DEF server, control, worker, cluster, Outdate

(***************************************************************************)
(* The two programs.  What a pass has built and what a cleanup has swept   *)
(* depend on the order of their steps.                                     *)
(***************************************************************************)
Names ==
  {"namespace", "externalSecret", "qdrantStatefulSet", "qdrantService",
   "postgresStatefulSet", "postgresService", "initJob", "appConfig",
   "embeddingDeployment", "embeddingService", "queryDeployment", "queryService",
   "graphDeployment", "graphService", "httpRoute", "repositoryConfig",
   "sourceConfig", "repoMapping", "resolverServiceAccount", "resolveRoleBinding",
   "generatorServiceAccount", "generatorRole", "generatorRoleBinding",
   "triggerTemplate", "trigger", "mcpDeployment", "mcpService"}

(* What is left alone when it is there, and what is overwritten.           *)
Ensured == {"namespace", "resolverServiceAccount", "generatorServiceAccount"}
Overwritten == Names \ (Ensured \cup {"initJob"})

JobStep == [how |-> "job", obj |-> "initJob"]

BuildStep ==
  [how : {"ensure"}, obj : Ensured] \cup [how : {"upsert"}, obj : Overwritten]
    \cup {JobStep, Probe}

(* Steps that do not make the trigger.                                     *)
QuietStep == {step \in BuildStep : step.obj # "trigger"}

Prefix(p, s) == Len(p) =< Len(s) /\ \A i \in 1 .. Len(p) : s[i] = p[i]

StepsOf(s) == {s[i] : i \in DOMAIN s}

(* A program continued begins with the program, and has the steps of both. *)
LEMMA Continued ==
  ASSUME NEW S, NEW p \in Seq(S), NEW t \in Seq(S)
  PROVE  /\ p \o t \in Seq(S) /\ Prefix(p, p \o t)
         /\ StepsOf(p) \cup StepsOf(t) \subseteq StepsOf(p \o t)
<1>1. p \o t \in Seq(S) /\ Len(p \o t) = Len(p) + Len(t)
  OBVIOUS
<1>2. \A i \in 1 .. Len(p) : (p \o t)[i] = p[i]
  OBVIOUS
<1>3. \A i \in 1 .. Len(t) : (p \o t)[Len(p) + i] = t[i]
  OBVIOUS
<1>4. Prefix(p, p \o t)
  BY <1>1, <1>2 DEF Prefix
<1>5. ASSUME NEW step \in StepsOf(p) PROVE step \in StepsOf(p \o t)
  <2>1. PICK i \in 1 .. Len(p) : step = p[i]
    BY DEF StepsOf
  <2> QED
    BY <1>1, <1>2, <2>1 DEF StepsOf
<1>6. ASSUME NEW step \in StepsOf(t) PROVE step \in StepsOf(p \o t)
  <2>1. PICK i \in 1 .. Len(t) : step = t[i]
    BY DEF StepsOf
  <2> QED
    BY <1>1, <1>3, <2>1 DEF StepsOf
<1> QED
  BY <1>1, <1>4, <1>5, <1>6

(* Beginnings of beginnings are beginnings.                                *)
LEMMA PrefixTransitive ==
  ASSUME NEW S, NEW p \in Seq(S), NEW q \in Seq(S), NEW r \in Seq(S),
         Prefix(p, q), Prefix(q, r)
  PROVE  Prefix(p, r)
  BY DEF Prefix

(* Short programs.                                                         *)
LEMMA ShortPrograms ==
  ASSUME NEW S
  PROVE  /\ \A a \in S : << a >> \in Seq(S) /\ a \in StepsOf(<< a >>)
         /\ \A a, b \in S : << a, b >> \in Seq(S) /\ {a, b} \subseteq StepsOf(<< a, b >>)
         /\ \A a, b, c \in S :
              << a, b, c >> \in Seq(S) /\ {a, b, c} \subseteq StepsOf(<< a, b, c >>)
<1>1. ASSUME NEW a \in S PROVE << a >> \in Seq(S) /\ a \in StepsOf(<< a >>)
  BY DEF StepsOf
<1>2. ASSUME NEW a \in S, NEW b \in S
      PROVE  << a, b >> \in Seq(S) /\ {a, b} \subseteq StepsOf(<< a, b >>)
  BY DEF StepsOf
<1>3. ASSUME NEW a \in S, NEW b \in S, NEW c \in S
      PROVE  << a, b, c >> \in Seq(S) /\ {a, b, c} \subseteq StepsOf(<< a, b, c >>)
  BY DEF StepsOf
<1> QED
  BY <1>1, <1>2, <1>3

(* The steps the provisioners are made of, those without the trigger apart. *)
LEMMA StepsAreBuildSteps ==
  /\ \A o \in Ensured : Ensure(o) \in QuietStep
  /\ \A o \in Overwritten \ {"trigger"} : Upsert(o) \in QuietStep
  /\ Probe \in QuietStep /\ JobStep \in QuietStep
  /\ QuietStep \subseteq BuildStep
  /\ Upsert("trigger") \in BuildStep
<1>1. \A o \in Ensured : Ensure(o) \in BuildStep /\ Ensure(o).obj = o /\ o # "trigger"
  BY DEF Ensure, BuildStep, Ensured
<1>2. \A o \in Overwritten : Upsert(o) \in BuildStep /\ Upsert(o).obj = o
  BY DEF Upsert, BuildStep
<1>3. /\ Probe \in BuildStep /\ Probe.obj = "status"
      /\ JobStep \in BuildStep /\ JobStep.obj = "initJob"
  BY DEF Probe, JobStep, BuildStep
<1>4. "trigger" \in Overwritten
  BY DEF Overwritten, Names, Ensured
<1> QED
  BY <1>1, <1>2, <1>3, <1>4 DEF QuietStep

(* A program without the trigger that begins with the namespace and the    *)
(* secret and has the given steps.                                         *)
FirstSteps == NamespaceSteps \o ExternalSecretSteps

Carries(p, steps) ==
  /\ p \in Seq(QuietStep) /\ Prefix(FirstSteps, p)
  /\ steps \subseteq StepsOf(p)

(* It may be continued.                                                    *)
LEMMA CarriesOn ==
  ASSUME NEW p, NEW steps, Carries(p, steps), NEW t \in Seq(QuietStep),
         FirstSteps \in Seq(QuietStep)
  PROVE  Carries(p \o t, steps \cup StepsOf(t))
<1>1. p \in Seq(QuietStep) /\ Prefix(FirstSteps, p) /\ steps \subseteq StepsOf(p)
  BY DEF Carries
<1>2. p \o t \in Seq(QuietStep) /\ Prefix(p, p \o t)
      /\ StepsOf(p) \cup StepsOf(t) \subseteq StepsOf(p \o t)
  BY <1>1, Continued
<1>3. Prefix(FirstSteps, p \o t)
  BY <1>1, <1>2, PrefixTransitive
<1> QED
  BY <1>1, <1>2, <1>3 DEF Carries

(* The pass up to the trigger, and its steps.                              *)
RoutableSteps ==
  FirstSteps \o QdrantSteps \o PostgresSteps
    \o InitJobSteps \o AppConfigSteps \o EmbeddingSteps \o QuerySteps
    \o GraphSteps \o HTTPRouteSteps \o RepositoryConfigSteps
    \o SourceConfigSteps \o RepoMappingSteps \o ResolveRBACSteps
    \o GeneratorRBACSteps \o TriggerTemplateSteps

StoreSteps == StepsOf(FirstSteps) \cup StepsOf(QdrantSteps) \cup StepsOf(PostgresSteps)
ServiceSteps ==
  StepsOf(InitJobSteps) \cup StepsOf(AppConfigSteps) \cup StepsOf(EmbeddingSteps)
    \cup StepsOf(QuerySteps) \cup StepsOf(GraphSteps)
ConfigSteps ==
  StepsOf(HTTPRouteSteps) \cup StepsOf(RepositoryConfigSteps) \cup StepsOf(SourceConfigSteps)
    \cup StepsOf(RepoMappingSteps)
RightSteps ==
  StepsOf(ResolveRBACSteps) \cup StepsOf(GeneratorRBACSteps) \cup StepsOf(TriggerTemplateSteps)
EarlySteps == StoreSteps \cup ServiceSteps \cup ConfigSteps \cup RightSteps

(* It begins with the namespace and the secret, and has its steps.         *)
LEMMA RoutableIsComplete ==
  /\ Len(FirstSteps) = 2
  /\ FirstSteps[1] = Ensure("namespace") /\ FirstSteps[2] = Upsert("externalSecret")
  /\ Carries(RoutableSteps, EarlySteps)
<1> DEFINE
  stored == FirstSteps \o QdrantSteps \o PostgresSteps
  served == stored \o InitJobSteps \o AppConfigSteps \o EmbeddingSteps \o QuerySteps \o GraphSteps
  mapped == served \o HTTPRouteSteps \o RepositoryConfigSteps \o SourceConfigSteps
              \o RepoMappingSteps
<1> HIDE DEF stored, served, mapped
<1>1. /\ NamespaceSteps \in Seq(QuietStep) /\ ExternalSecretSteps \in Seq(QuietStep)
      /\ AppConfigSteps \in Seq(QuietStep) /\ HTTPRouteSteps \in Seq(QuietStep)
      /\ RepositoryConfigSteps \in Seq(QuietStep) /\ SourceConfigSteps \in Seq(QuietStep)
      /\ RepoMappingSteps \in Seq(QuietStep) /\ TriggerTemplateSteps \in Seq(QuietStep)
  BY ShortPrograms, StepsAreBuildSteps
  DEF NamespaceSteps, ExternalSecretSteps, AppConfigSteps, HTTPRouteSteps, RepositoryConfigSteps,
      SourceConfigSteps, RepoMappingSteps, TriggerTemplateSteps, Names, Overwritten, Ensured
<1>2. /\ EmbeddingSteps \in Seq(QuietStep) /\ QuerySteps \in Seq(QuietStep)
      /\ GraphSteps \in Seq(QuietStep) /\ InitJobSteps \in Seq(QuietStep)
  BY ShortPrograms, StepsAreBuildSteps
  DEF EmbeddingSteps, QuerySteps, GraphSteps, InitJobSteps, JobStep, Names, Overwritten, Ensured
<1>3. QdrantSteps \in Seq(QuietStep) /\ PostgresSteps \in Seq(QuietStep)
  BY ShortPrograms, StepsAreBuildSteps DEF QdrantSteps, PostgresSteps, Names, Overwritten, Ensured
<1>4. ResolveRBACSteps \in Seq(QuietStep) /\ GeneratorRBACSteps \in Seq(QuietStep)
  BY ShortPrograms, StepsAreBuildSteps
  DEF ResolveRBACSteps, GeneratorRBACSteps, Names, Overwritten, Ensured
<1>5. /\ Len(FirstSteps) = 2
      /\ FirstSteps[1] = Ensure("namespace") /\ FirstSteps[2] = Upsert("externalSecret")
      /\ FirstSteps \in Seq(QuietStep)
  BY <1>1 DEF FirstSteps, NamespaceSteps, ExternalSecretSteps
<1>6. Carries(FirstSteps, StepsOf(FirstSteps))
  BY <1>5 DEF Carries, Prefix
<1>7. Carries(stored, StoreSteps)
  <2>1. Carries(FirstSteps \o QdrantSteps, StepsOf(FirstSteps) \cup StepsOf(QdrantSteps))
    BY <1>3, <1>5, <1>6, CarriesOn
  <2> QED
    BY <1>3, <1>5, <2>1, CarriesOn DEF stored, StoreSteps
<1>8. ASSUME NEW p, NEW s, NEW t \in Seq(QuietStep), NEW u \in Seq(QuietStep), Carries(p, s)
      PROVE  Carries(p \o t \o u, s \cup StepsOf(t) \cup StepsOf(u))
  <2>1. Carries(p \o t, s \cup StepsOf(t))
    BY <1>5, <1>8, CarriesOn
  <2> QED
    BY <1>5, <1>8, <2>1, CarriesOn
<1>9. Carries(served, StoreSteps \cup ServiceSteps)
  <2> DEFINE jobbed == stored \o InitJobSteps
             embedded == jobbed \o AppConfigSteps \o EmbeddingSteps
             steps == (StoreSteps \cup StepsOf(InitJobSteps)) \cup StepsOf(AppConfigSteps)
                        \cup StepsOf(EmbeddingSteps)
  <2> HIDE DEF jobbed, embedded, steps
  <2>1. Carries(jobbed, StoreSteps \cup StepsOf(InitJobSteps))
    BY <1>2, <1>5, <1>7, CarriesOn DEF jobbed
  <2>2. Carries(embedded, steps)
    BY <1>1, <1>2, <1>8, <2>1 DEF embedded, steps
  <2>3. Carries(embedded \o QuerySteps \o GraphSteps,
                steps \cup StepsOf(QuerySteps) \cup StepsOf(GraphSteps))
    BY <1>2, <1>8, <2>2
  <2>4. served = embedded \o QuerySteps \o GraphSteps
    BY DEF served, embedded, jobbed
  <2> QED
    BY <2>3, <2>4 DEF Carries, ServiceSteps, steps
<1>10. Carries(mapped, StoreSteps \cup ServiceSteps \cup ConfigSteps)
  <2> DEFINE routed == served \o HTTPRouteSteps \o RepositoryConfigSteps
             steps == (StoreSteps \cup ServiceSteps) \cup StepsOf(HTTPRouteSteps)
                        \cup StepsOf(RepositoryConfigSteps)
  <2> HIDE DEF routed, steps
  <2>1. Carries(routed, steps)
    BY <1>1, <1>8, <1>9 DEF routed, steps
  <2>2. Carries(routed \o SourceConfigSteps \o RepoMappingSteps,
                steps \cup StepsOf(SourceConfigSteps) \cup StepsOf(RepoMappingSteps))
    BY <1>1, <1>8, <2>1
  <2> QED
    BY <2>2 DEF Carries, ConfigSteps, mapped, routed, steps
<1>11. Carries(RoutableSteps, EarlySteps)
  <2> DEFINE granted == mapped \o ResolveRBACSteps \o GeneratorRBACSteps
             steps == (StoreSteps \cup ServiceSteps \cup ConfigSteps) \cup StepsOf(ResolveRBACSteps)
                        \cup StepsOf(GeneratorRBACSteps)
  <2> HIDE DEF granted, steps
  <2>1. Carries(granted, steps)
    BY <1>4, <1>8, <1>10 DEF granted, steps
  <2>2. Carries(granted \o TriggerTemplateSteps, steps \cup StepsOf(TriggerTemplateSteps))
    BY <1>1, <1>5, <2>1, CarriesOn
  <2>3. RoutableSteps = granted \o TriggerTemplateSteps
    BY DEF RoutableSteps, granted, mapped, served, stored
  <2> QED
    BY <2>2, <2>3 DEF Carries, EarlySteps, RightSteps, steps
<1> QED
  BY <1>5, <1>11

(* What the following rests on: the namespace and the secret come first,   *)
(* there are all those steps, and the rights of the syncs come before the  *)
(* trigger.                                                                *)
LEMMA ProvisioningOrder ==
  /\ Provisioning \in Seq(BuildStep) /\ Len(Provisioning) > 2
  /\ Provisioning[1] = Ensure("namespace") /\ Provisioning[2] = Upsert("externalSecret")
  /\ EarlySteps \cup StepsOf(TriggerSteps) \cup StepsOf(HealthSteps) \cup StepsOf(MCPServerSteps)
       \subseteq StepsOf(Provisioning)
  /\ \A i \in DOMAIN Provisioning : Provisioning[i].obj = "trigger" =>
       \A step \in RightSteps : \E j \in DOMAIN Provisioning : j < i /\ Provisioning[j] = step
<1> DEFINE early == RoutableSteps
           triggered == early \o TriggerSteps
           probed == triggered \o HealthSteps
<1>1. /\ early \in Seq(QuietStep) /\ early \in Seq(BuildStep)
      /\ Prefix(FirstSteps, early)
      /\ EarlySteps \subseteq StepsOf(early)
  BY RoutableIsComplete, StepsAreBuildSteps DEF Carries
<1>2. /\ TriggerSteps \in Seq(BuildStep) /\ HealthSteps \in Seq(BuildStep)
      /\ MCPServerSteps \in Seq(BuildStep)
  BY ShortPrograms, StepsAreBuildSteps
  DEF TriggerSteps, HealthSteps, MCPServerSteps, Names, Overwritten, Ensured
<1>3. Provisioning = probed \o MCPServerSteps
  BY DEF Provisioning, RoutableSteps, FirstSteps
<1> HIDE DEF early, triggered, probed
<1>4. triggered \in Seq(BuildStep) /\ Prefix(early, triggered)
      /\ StepsOf(TriggerSteps) \subseteq StepsOf(triggered)
  BY <1>1, <1>2, Continued DEF triggered
<1>5. probed \in Seq(BuildStep) /\ Prefix(triggered, probed)
      /\ StepsOf(TriggerSteps) \cup StepsOf(HealthSteps) \subseteq StepsOf(probed)
  BY <1>2, <1>4, Continued DEF probed
<1>6. Provisioning \in Seq(BuildStep) /\ Prefix(probed, Provisioning)
      /\ StepsOf(TriggerSteps) \cup StepsOf(HealthSteps) \cup StepsOf(MCPServerSteps)
           \subseteq StepsOf(Provisioning)
  BY <1>2, <1>3, <1>5, Continued
<1>7. Prefix(early, Provisioning)
  <2>1. Prefix(early, probed)
    BY <1>1, <1>4, <1>5, PrefixTransitive
  <2> QED
    BY <1>1, <1>5, <1>6, <2>1, PrefixTransitive
<1>8. \A step \in StepsOf(early) :
        \E j \in DOMAIN Provisioning : j =< Len(early) /\ Provisioning[j] = step
  <2> SUFFICES ASSUME NEW j \in DOMAIN early
               PROVE  j \in DOMAIN Provisioning /\ j =< Len(early) /\ Provisioning[j] = early[j]
    BY DEF StepsOf
  <2> QED
    BY <1>1, <1>6, <1>7 DEF Prefix
<1>9. ASSUME NEW i \in DOMAIN Provisioning, Provisioning[i].obj = "trigger" PROVE i > Len(early)
  <2> SUFFICES ASSUME i =< Len(early) PROVE FALSE
    BY <1>1, <1>6
  <2>1. i \in 1 .. Len(early)
    BY <1>1, <1>6
  <2>2. early[i] \in QuietStep
    BY <1>1, <2>1
  <2>3. Provisioning[i] = early[i]
    BY <1>7, <2>1 DEF Prefix
  <2> QED
    BY <1>9, <2>2, <2>3 DEF QuietStep
<1>10. \A i \in DOMAIN Provisioning : Provisioning[i].obj = "trigger" =>
         \A step \in RightSteps : \E j \in DOMAIN Provisioning : j < i /\ Provisioning[j] = step
  <2> SUFFICES ASSUME NEW i \in DOMAIN Provisioning, Provisioning[i].obj = "trigger",
                      NEW step \in RightSteps
               PROVE  \E j \in DOMAIN Provisioning : j < i /\ Provisioning[j] = step
    OBVIOUS
  <2>1. PICK j \in DOMAIN Provisioning : j =< Len(early) /\ Provisioning[j] = step
    BY <1>1, <1>8 DEF EarlySteps
  <2>2. j < i
    BY <1>1, <1>6, <1>9, <2>1
  <2> QED
    BY <2>1, <2>2
<1>11. EarlySteps \subseteq StepsOf(Provisioning)
  BY <1>1, <1>8 DEF StepsOf
<1>12. /\ Len(Provisioning) >= 2
       /\ Provisioning[1] = Ensure("namespace") /\ Provisioning[2] = Upsert("externalSecret")
  BY <1>1, <1>6, <1>7, RoutableIsComplete DEF Prefix
<1>13. Len(Provisioning) # 2
  <2>1. Probe \in StepsOf(HealthSteps)
    BY DEF HealthSteps, StepsOf
  <2>2. PICK i \in DOMAIN Provisioning : Provisioning[i] = Probe
    BY <1>6, <2>1 DEF StepsOf
  <2>3. Probe # Ensure("namespace") /\ Probe # Upsert("externalSecret")
    BY DEF Probe, Ensure, Upsert
  <2>4. i # 1 /\ i # 2
    BY <1>12, <2>2, <2>3
  <2> QED
    BY <1>6, <2>2, <2>4
<1>14. Len(Provisioning) > 2
  <2>1. PICK n \in Nat : n = Len(Provisioning)
    BY <1>6
  <2>2. n >= 2 /\ n # 2
    BY <1>12, <1>13, <2>1
  <2> QED
    BY <2>1, <2>2
<1> QED
  BY <1>6, <1>10, <1>11, <1>12, <1>14

(* Everything named has a step, so it is an object; and so are the claims. *)
LEMMA TheyAreObjects == (Names \ {"namespace"}) \cup {"pvcs"} \subseteq Obj
<1>1. ASSUME NEW steps, steps \subseteq StepsOf(Provisioning), NEW step \in steps,
             step.obj \notin {"namespace", "status"}
      PROVE  step.obj \in Obj
  BY <1>1 DEF Obj, StepsOf
<1> DEFINE Has(steps, o) == \E step \in steps : step.obj = o
<1>2. /\ Has(StepsOf(ResolveRBACSteps), "resolverServiceAccount")
      /\ Has(StepsOf(ResolveRBACSteps), "resolveRoleBinding")
      /\ Has(StepsOf(GeneratorRBACSteps), "generatorServiceAccount")
      /\ Has(StepsOf(GeneratorRBACSteps), "generatorRole")
      /\ Has(StepsOf(GeneratorRBACSteps), "generatorRoleBinding")
      /\ Has(StepsOf(TriggerTemplateSteps), "triggerTemplate")
      /\ Has(StepsOf(TriggerSteps), "trigger")
  BY DEF StepsOf, ResolveRBACSteps, GeneratorRBACSteps, TriggerTemplateSteps, TriggerSteps,
     Ensure, Upsert
<1>3. /\ Has(StepsOf(QdrantSteps), "qdrantStatefulSet") /\ Has(StepsOf(QdrantSteps), "qdrantService")
      /\ Has(StepsOf(PostgresSteps), "postgresStatefulSet")
      /\ Has(StepsOf(PostgresSteps), "postgresService")
      /\ Has(StepsOf(InitJobSteps), "initJob") /\ Has(StepsOf(AppConfigSteps), "appConfig")
  BY DEF StepsOf, QdrantSteps, PostgresSteps, InitJobSteps, AppConfigSteps, Upsert
<1>4. /\ Has(StepsOf(EmbeddingSteps), "embeddingDeployment")
      /\ Has(StepsOf(EmbeddingSteps), "embeddingService")
      /\ Has(StepsOf(QuerySteps), "queryDeployment") /\ Has(StepsOf(QuerySteps), "queryService")
      /\ Has(StepsOf(GraphSteps), "graphDeployment") /\ Has(StepsOf(GraphSteps), "graphService")
      /\ Has(StepsOf(MCPServerSteps), "mcpDeployment") /\ Has(StepsOf(MCPServerSteps), "mcpService")
  BY DEF StepsOf, EmbeddingSteps, QuerySteps, GraphSteps, MCPServerSteps, Upsert
<1>5. /\ Has(StepsOf(HTTPRouteSteps), "httpRoute")
      /\ Has(StepsOf(RepositoryConfigSteps), "repositoryConfig")
      /\ Has(StepsOf(SourceConfigSteps), "sourceConfig")
      /\ Has(StepsOf(RepoMappingSteps), "repoMapping")
  BY DEF StepsOf, HTTPRouteSteps, RepositoryConfigSteps, SourceConfigSteps, RepoMappingSteps, Upsert
<1>6. Has(StepsOf(FirstSteps), "externalSecret")
  <2>1. 2 \in DOMAIN FirstSteps /\ FirstSteps[2].obj = "externalSecret"
    BY RoutableIsComplete DEF Upsert, FirstSteps, NamespaceSteps, ExternalSecretSteps
  <2> QED
    BY <2>1 DEF StepsOf
<1>7. ASSUME NEW o \in Names \ {"namespace"} PROVE Has(StepsOf(Provisioning), o)
  <2>1. \/ Has(EarlySteps, o) \/ Has(StepsOf(TriggerSteps), o) \/ Has(StepsOf(MCPServerSteps), o)
    BY <1>2, <1>3, <1>4, <1>5, <1>6
    DEF Names, EarlySteps, StoreSteps, ServiceSteps, ConfigSteps, RightSteps
  <2> QED
    BY <2>1, ProvisioningOrder
<1>8. "status" \notin Names /\ "pvcs" \in Obj
  BY DEF Names, Obj
<1> QED
  BY <1>1, <1>7, <1>8

(* The objects of the organization are among them.                         *)
LEMMA OrgScopedAreObjects == OrgScoped \subseteq Obj
  BY TheyAreObjects DEF OrgScoped, Names

(* What a step may be.                                                     *)
LEMMA StepsAreKnown ==
  ASSUME NEW i \in DOMAIN Provisioning
  PROVE  LET step == Provisioning[i] IN
         /\ i \in Nat \ {0} /\ i =< Len(Provisioning)
         /\ step.how \in {"ensure", "upsert", "job", "probe"}
         /\ step.how = "job" <=> step.obj = "initJob"
         /\ step.how = "ensure" <=> step.obj \in Ensured
         /\ step.how = "upsert" <=> step.obj \in Overwritten
         /\ step.how # "probe" => step.obj \in Names /\ step.obj \in Obj \cup {"namespace"}
<1> DEFINE step == Provisioning[i]
<1>1. i \in 1 .. Len(Provisioning) /\ step \in BuildStep
  BY ProvisioningOrder
<1>2. /\ Ensured \subseteq Names /\ Overwritten \subseteq Names /\ Overwritten \cap Ensured = {}
      /\ "initJob" \in Names /\ "initJob" \notin Ensured /\ "initJob" \notin Overwritten
      /\ "status" \notin Ensured /\ "status" \notin Overwritten
  BY DEF Ensured, Overwritten, Names
<1>3. CASE step \in [how : {"ensure"}, obj : Ensured]
  BY <1>1, <1>2, <1>3, TheyAreObjects
<1>4. CASE step \in [how : {"upsert"}, obj : Overwritten]
  BY <1>1, <1>2, <1>4, TheyAreObjects
<1>5. CASE step \in {JobStep, Probe}
  BY <1>1, <1>2, <1>5, TheyAreObjects DEF Probe, JobStep
<1> QED
  BY <1>1, <1>3, <1>4, <1>5 DEF BuildStep

(* The places of the deletions that matter, and that all are of objects.   *)
LEMMA CleanupOrder ==
  /\ DOMAIN Cleanup = 1 .. 24
  /\ Cleanup[9] = "postgresStatefulSet" /\ Cleanup[11] = "qdrantStatefulSet"
  /\ Cleanup[13] = "externalSecret" /\ Cleanup[15] = "pvcs"
  /\ Cleanup[18] = "repoMapping" /\ Cleanup[19] = "trigger"
  /\ Cleanup[20] = "triggerTemplate" /\ Cleanup[24] = "namespace"
  /\ \A i \in DOMAIN Cleanup : Cleanup[i] = "namespace" => i = 24
  /\ \A i \in DOMAIN Cleanup : Cleanup[i] = "pvcs" => i = 15
  /\ \A i \in DOMAIN Cleanup : Cleanup[i] \in Rights => i > 19
  /\ \A i \in DOMAIN Cleanup : Cleanup[i] \in Names \cup {"pvcs"}
<1>1. DOMAIN Cleanup = 1 .. 24
  BY DEF Cleanup
<1>2. \A i \in DOMAIN Cleanup : Cleanup[i] = "pvcs" => i = 15
  BY DEF Cleanup
<1>3. \A i \in DOMAIN Cleanup : Cleanup[i] \in Names \cup {"pvcs"}
  BY DEF Cleanup, Names
<1> QED
  BY <1>1, <1>2, <1>3 DEF Cleanup, Rights

(***************************************************************************)
(* Where a pass is.                                                        *)
(***************************************************************************)
PlaceIsKnown ==
  /\ pc = "advance" => at = 1
  /\ pc \in {"provision", "createJob"} => at \in DOMAIN Provisioning
  /\ pc = "createJob" => Provisioning[at].how = "job"
  /\ pc = "publish" => at = Len(Provisioning) + 1

(***************************************************************************)
(* Type correctness.                                                       *)
(***************************************************************************)
(* The record that stands for no KnowledgeBase is a record like any other. *)
LEMMA GoneInRecord == Gone \in Record
  BY DEF Gone, Blank, Record, Phases

(* What a user creates is a record.                                        *)
LEMMA FreshInRecord == ASSUME NEW spec \in Specs PROVE Fresh(spec) \in Record
  BY DEF Fresh, Blank, Record, Phases

(* A budget that is spent stays a budget.                                  *)
LEMMA SpendType ==
  ASSUME budget \in Budget, NEW what, Spend(what) PROVE budget' \in Budget
  BY DEF Spend, Budget

(* A write of a record leaves a record, and the watch event a Boolean.     *)
LEMMA StoreType ==
  ASSUME kb \in Record, notify \in BOOLEAN, NEW new \in Record, Store(new)
  PROVE  kb' \in Record /\ notify' \in BOOLEAN
  BY DEF Store

ClusterTyped ==
  /\ ns \in {"absent", "active", "terminating"}
  /\ objs \in [Obj -> Specs \cup {None}]
  /\ amiss \subseteq Obj \cup {"namespace"}

(* Creating or overwriting an object keeps the types of the cluster.       *)
LEMMA MakeType == ASSUME TypeOK, NEW o, Make(o) PROVE ClusterTyped'
  BY DEF Make, TypeOK, Record, ClusterTyped

(* Deleting an object keeps the types of the cluster.                      *)
LEMMA EraseType == ASSUME TypeOK, NEW o, Erase(o) PROVE ClusterTyped'
  BY DEF Erase, Remove, TypeOK, ClusterTyped

(* Passing it over does.                                                   *)
LEMMA PassedOverType ==
  ASSUME TypeOK, NEW o \in Obj \cup {"namespace"}, TakeAsThere(o) \/ TakeAsGone(o)
  PROVE  ClusterTyped'
  BY DEF TakeAsThere, TakeAsGone, TypeOK, ClusterTyped

(* Every KnowledgeBase enters Reconcile at one of its branches.            *)
LEMMA EntryType == ASSUME NEW v PROVE Entry(v) \in Entries
  BY DEF Entry, Progress, Admission, Entries

(* The end of a pass keeps the types of queue and worker.                  *)
LEMMA DoneType ==
  ASSUME TypeOK, NEW requeue \in BOOLEAN, Done(requeue)
  PROVE  /\ pc' = "idle" /\ at' \in Nat /\ snap' \in Record /\ current' = FALSE
         /\ view' \in Record /\ queued' \in BOOLEAN /\ later' \in BOOLEAN
  BY GoneInRecord DEF Done, TypeOK

(* The initial state is typed.                                             *)
LEMMA TypeInit == Init => TypeOK
<1> SUFFICES ASSUME Init PROVE TypeOK
  OBVIOUS
<1>1. objs \in [Obj -> Specs \cup {None}]
  BY DEF Init
<1>2. seen \in [Lagging -> BOOLEAN]
  BY DEF Init
<1> QED
  BY <1>1, <1>2, GoneInRecord, MaxBudgetAssumption DEF Init, TypeOK

(* A step further is in the program, or behind it.                         *)
LEMMA ProceedPlace ==
  ASSUME PlaceIsKnown, pc \in {"provision", "createJob"}, Proceed PROVE PlaceIsKnown'
<1>1. at \in 1 .. Len(Provisioning) /\ DOMAIN Provisioning = 1 .. Len(Provisioning)
      /\ Len(Provisioning) \in Nat
  BY ProvisioningOrder DEF PlaceIsKnown
<1> QED
  BY <1>1 DEF Proceed, PlaceIsKnown

(* Every action knows its place.                                           *)
LEMMA PlaceStep == ASSUME TypeOK, PlaceIsKnown, [Next]_vars PROVE PlaceIsKnown'
<1>1. CASE Begin
  <2>1. 1 \in DOMAIN Provisioning
    BY ProvisioningOrder
  <2>2. (pc' \in Entries /\ at' = 1) \/ UNCHANGED << pc, at, snap >>
    BY <1>1, EntryType DEF Begin
  <2> QED
    BY <2>1, <2>2 DEF PlaceIsKnown, Entries
<1>2. CASE Advance
  <2>1. 1 \in DOMAIN Provisioning
    BY ProvisioningOrder
  <2> QED
    BY <1>2, <2>1 DEF Advance, PlaceIsKnown
<1>3. CASE EnsureObject \/ UpsertObject \/ KeepJob \/ CreateJob \/ ProbeHealth
  BY <1>3, ProceedPlace DEF EnsureObject, UpsertObject, KeepJob, CreateJob, ProbeHealth, AtStep
<1>4. CASE DropFailedJob
  BY <1>4 DEF DropFailedJob, AtStep, PlaceIsKnown
<1>5. CASE CleanupStep \/ Refuse
  BY <1>5 DEF CleanupStep, Refuse, PlaceIsKnown
<1>6. CASE Reject \/ Admit \/ Pend \/ Publish \/ Panic \/ ReportFailure \/ Fault \/ Release \/ Crash
  <2>1. pc' \in {"idle", "fail"}
    BY <1>6 DEF Reject, Admit, Pend, Publish, Panic, ReportFailure, Fault, Release, Crash, Done
  <2> QED
    BY <2>1 DEF PlaceIsKnown
<1>7. CASE \/ CreateKB \/ EditSpec \/ DeleteKB \/ Deliver \/ Timer \/ Observe
           \/ NamespaceGone \/ ClaimVolumes \/ Drift \/ UNCHANGED vars
  <2>1. UNCHANGED << pc, at, snap >>
    BY <1>7 DEF CreateKB, EditSpec, DeleteKB, Deliver, Timer, Observe, NamespaceGone,
       ClaimVolumes, Drift, vars
  <2> QED
    BY <2>1 DEF PlaceIsKnown
<1> QED
  BY <1>1, <1>2, <1>3, <1>4, <1>5, <1>6, <1>7 DEF Next, WorkerStep

(* Every action keeps the types, one case each.                            *)
LEMMA TypeStep == TypeOK /\ PlaceIsKnown /\ [Next]_vars => TypeOK'
<1> SUFFICES ASSUME TypeOK, PlaceIsKnown, [Next]_vars PROVE TypeOK'
  OBVIOUS
<1>1. CASE CreateKB
  BY <1>1, FreshInRecord, SpendType, StoreType DEF CreateKB, TypeOK
<1>2. CASE EditSpec
  <2>1. PICK spec \in Specs : Store([kb EXCEPT !.spec = spec])
    BY <1>2 DEF EditSpec
  <2>2. [kb EXCEPT !.spec = spec] \in Record
    BY <2>1 DEF TypeOK, Record
  <2> QED
    BY <1>2, <2>1, <2>2, SpendType, StoreType DEF EditSpec, TypeOK
<1>3. CASE DeleteKB
  <2>1. (IF kb.finalizer THEN [kb EXCEPT !.deleting = TRUE] ELSE Gone) \in Record
    BY GoneInRecord DEF TypeOK, Record
  <2> QED
    BY <1>3, <2>1, StoreType DEF DeleteKB, TypeOK
<1>4. CASE Deliver
  BY <1>4 DEF Deliver, TypeOK
<1>5. CASE Timer
  BY <1>5 DEF Timer, TypeOK
<1>6. CASE Observe
  <2>1. PICK o \in Lagging : seen' = [seen EXCEPT ![o] = Holds(o)]
    BY <1>6 DEF Observe
  <2>2. Holds(o) \in BOOLEAN
    BY DEF Holds
  <2> QED
    BY <1>6, <2>1, <2>2 DEF Observe, TypeOK
<1>7. CASE Crash
  <2>1. \A o \in Lagging : Holds(o) \in BOOLEAN
    BY DEF Holds
  <2>2. seen' \in [Lagging -> BOOLEAN]
    BY <1>7, <2>1 DEF Crash
  <2>3. queued' \in BOOLEAN
    BY <1>7 DEF Crash, TypeOK, Record
  <2> QED
    BY <1>7, <2>2, <2>3, GoneInRecord, SpendType DEF Crash, TypeOK
<1>8. CASE NamespaceGone
  BY <1>8 DEF NamespaceGone, TypeOK, Contents
<1>9. CASE ClaimVolumes
  <2>1. PICK o \in Obj : objs' = [objs EXCEPT !["pvcs"] = objs[o]]
    BY <1>9 DEF ClaimVolumes
  <2>2. amiss' \subseteq Obj \cup {"namespace"}
    BY <1>9, TheyAreObjects DEF ClaimVolumes, TypeOK
  <2> QED
    BY <1>9, <2>1, <2>2 DEF ClaimVolumes, TypeOK
<1>10. CASE Drift
  <2>1. PICK o \in Drifting : Remove(o) /\ amiss' = amiss \cup {o}
    BY <1>10 DEF Drift
  <2>2. ClusterTyped'
    BY <2>1, DriftingAssumption DEF Remove, TypeOK, ClusterTyped
  <2> QED
    BY <1>10, <2>2, SpendType DEF Drift, TypeOK, ClusterTyped
<1>11. CASE Begin
  <2>1. pc' \in Entries \cup {"idle"} /\ at' \in Nat /\ snap' \in Record
    BY <1>11, EntryType DEF Begin, TypeOK
  <2> QED
    BY <1>11, <2>1 DEF Begin, TypeOK
<1>12. CASE Reject
  <2>1. [kb EXCEPT !.phase = "Failed"] \in Record
    BY DEF TypeOK, Record, Phases
  <2> QED
    BY <1>12, <2>1, StoreType, DoneType DEF Reject, TypeOK
<1>13. CASE Admit
  <2>1. [kb EXCEPT !.finalizer = TRUE] \in Record
    BY DEF TypeOK, Record
  <2> QED
    BY <1>13, <2>1, StoreType, DoneType DEF Admit, TypeOK
<1>14. CASE Pend
  <2>1. [kb EXCEPT !.phase = "Pending"] \in Record
    BY DEF TypeOK, Record, Phases
  <2> QED
    BY <1>14, <2>1, StoreType, DoneType DEF Pend, TypeOK
<1>15. CASE Advance
  <2>1. [kb EXCEPT !.phase = "Provisioning"] \in Record
    BY DEF TypeOK, Record, Phases
  <2> QED
    BY <1>15, <2>1, StoreType DEF Advance, TypeOK, Entries
<1>16. ASSUME Proceed PROVE at' \in Nat /\ pc' \in {"provision", "publish"}
  BY <1>16 DEF Proceed, TypeOK
<1>a. AtStep("ensure") \/ AtStep("job") => Target \in Obj \cup {"namespace"}
  BY StepsAreKnown DEF AtStep, Target, PlaceIsKnown
<1>t. PICK t : t = Target
  OBVIOUS
<1>17. CASE EnsureObject
  <2>1. ClusterTyped'
    BY <1>17, <1>a, <1>t, MakeType, PassedOverType DEF EnsureObject
  <2> QED
    BY <1>16, <1>17, <2>1 DEF EnsureObject, TypeOK, Entries, ClusterTyped
<1>18. CASE UpsertObject
  <2>1. ClusterTyped'
    BY <1>18, <1>t, MakeType DEF UpsertObject
  <2> QED
    BY <1>16, <1>18, <2>1 DEF UpsertObject, TypeOK, Entries, ClusterTyped
<1>19. CASE KeepJob
  <2>1. ClusterTyped'
    BY <1>19, <1>a, <1>t, PassedOverType DEF KeepJob
  <2> QED
    BY <1>16, <1>19, <2>1 DEF KeepJob, TypeOK, Entries, ClusterTyped
<1>20. CASE DropFailedJob
  <2>1. ClusterTyped'
    BY <1>20, <1>t, EraseType DEF DropFailedJob
  <2> QED
    BY <1>20, <2>1 DEF DropFailedJob, TypeOK, ClusterTyped
<1>21. CASE CreateJob
  <2>1. ClusterTyped'
    BY <1>21, <1>t, MakeType DEF CreateJob
  <2> QED
    BY <1>16, <1>21, <2>1 DEF CreateJob, TypeOK, Entries, ClusterTyped
<1>22. CASE ProbeHealth
  <2>1. PICK vector \in BOOLEAN, graph \in BOOLEAN :
          snap' = [snap EXCEPT !.vectorStoreReady = vector, !.codeGraphReady = graph]
    BY <1>22, ProbeResultsAssumption DEF ProbeHealth
  <2>2. snap' \in Record
    BY <2>1 DEF TypeOK, Record
  <2> QED
    BY <1>16, <1>22, <2>2 DEF ProbeHealth, TypeOK, Entries
<1>23. CASE Publish
  <2>1. [kb EXCEPT !.phase = "Ready",
                   !.vectorStoreReady = snap.vectorStoreReady,
                   !.codeGraphReady = snap.codeGraphReady] \in Record
    BY DEF TypeOK, Record, Phases
  <2> QED
    BY <1>23, <2>1, StoreType, DoneType DEF Publish, TypeOK
<1>24. CASE Refuse
  BY <1>24 DEF Refuse, TypeOK
<1>25. CASE Panic
  BY <1>25, DoneType DEF Panic, TypeOK
<1>26. CASE ReportFailure
  <2>1. [kb EXCEPT !.phase = "Failed"] \in Record
    BY DEF TypeOK, Record, Phases
  <2> QED
    BY <1>26, <2>1, StoreType, DoneType DEF ReportFailure, TypeOK
<1>27. CASE Fault
  BY <1>27, DoneType, SpendType DEF Fault, TypeOK
<1>28. CASE CleanupStep
  <2>o. PICK o : o = Cleanup[at]
    OBVIOUS
  <2>1. o \in Obj \cup {"namespace"}
    BY <1>28, <2>o, CleanupOrder, TheyAreObjects DEF CleanupStep
  <2>2. ClusterTyped'
    BY <1>28, <2>o, <2>1, EraseType, PassedOverType DEF CleanupStep
  <2> QED
    BY <1>28, <2>2 DEF CleanupStep, TypeOK, ClusterTyped
<1>29. CASE Release
  BY <1>29, GoneInRecord, StoreType, DoneType DEF Release, TypeOK
<1>30. CASE UNCHANGED vars
  BY <1>30 DEF vars, TypeOK
<1> QED
  BY <1>1, <1>2, <1>3, <1>4, <1>5, <1>6, <1>7, <1>8, <1>9, <1>10, <1>11, <1>12,
     <1>13, <1>14, <1>15, <1>17, <1>18, <1>19, <1>20, <1>21, <1>22, <1>23, <1>24,
     <1>25, <1>26, <1>27, <1>28, <1>29, <1>30 DEF Next, WorkerStep

TypedInv == TypeOK /\ PlaceIsKnown

(* Types and places hold each other.                                       *)
LEMMA TypedInit == Init => TypedInv
  BY TypeInit DEF Init, TypedInv, PlaceIsKnown

(* Every step keeps both.                                                  *)
LEMMA TypedStep == TypedInv /\ [Next]_vars => TypedInv'
  BY TypeStep, PlaceStep DEF TypedInv

(* So both hold throughout.                                                *)
LEMMA TypedPlaces == Spec => []TypedInv
  BY TypedInit, TypedStep, PTL DEF Spec

(* Every variable keeps its type, for every budget, set of specs, lag and  *)
(* drift.                                                                  *)
THEOREM TypeCorrect == Spec => []TypeOK
<1>1. TypedInv => TypeOK
  BY DEF TypedInv
<1> QED
  BY <1>1, TypedPlaces, PTL

(***************************************************************************)
(* GuardedByFinalizer.  It is not inductive: a pass decides on the cached  *)
(* view, and the deletions of a cleanup pass have happened step by step    *)
(* before the finalizer goes.  The invariant that is ties the worker's     *)
(* place, the cached view and the KnowledgeBase together.                  *)
(***************************************************************************)
Held(r)    == r.live /\ r.finalizer
Serving(r) == Held(r) /\ ~r.deleting

(* All there is; and what is not there any more, or taken for gone.         *)
Everything == Obj \cup {"namespace"}

Cleared(o) == ~Stands(o) \/ o \in amiss

(* The pass that builds is that of a held KnowledgeBase.                   *)
BuildsHeld == pc \in {"advance", "provision", "createJob"} => Held(kb)

(* Behind a pass of cleanup nothing is left.                               *)
ClearedSoFar ==
  pc = "cleanup" => at >= 1 /\ \A j \in DOMAIN Cleanup : j < at => Cleared(Cleanup[j])

(* The view may be old, but never takes one that is held for lost, nor one *)
(* in service for one to be cleaned up.                                    *)
ViewIsSafe ==
  /\ Serving(view) => Held(kb)
  /\ view.deleting => ~Serving(kb)
  /\ pc = "cleanup" => ~Serving(kb) /\ ~Serving(view)

(* Only what is held can be deleting.                                      *)
DeletingIsHeld == kb.deleting => Held(kb)

(* The finalizer goes to a KnowledgeBase that is not being deleted.        *)
AdmitIsSafe ==
  pc = "admit" =>
    /\ snap.live /\ ~snap.deleting
    /\ view.deleting => kb.deleting

FinalizerInv ==
  /\ GuardedByFinalizer
  /\ BuildsHeld
  /\ ClearedSoFar
  /\ ViewIsSafe
  /\ DeletingIsHeld
  /\ AdmitIsSafe

(* Cleanup deletes things.                                                 *)
LEMMA CleanupsAreThings == \A j \in DOMAIN Cleanup : Cleanup[j] \in Everything
  BY CleanupOrder, TheyAreObjects DEF Everything

(* What is deleted or passed over is cleared, and what was cleared stays   *)
(* so.                                                                     *)
LEMMA WhatClears ==
  ASSUME TypeOK, NEW o \in Everything,
         Erase(o) \/ TakeAsGone(o) \/ (Remove(o) /\ amiss' = amiss \cup {o})
  PROVE  Cleared(o)' /\ \A p \in Everything : Cleared(p) => Cleared(p)'
<1>0. "namespace" \notin Obj
  BY DEF Obj
<1>1. CASE Erase(o) \/ (Remove(o) /\ amiss' = amiss \cup {o})
  <2>1. Remove(o) /\ \A p \in Everything : p # o => (p \in amiss => p \in amiss')
    BY <1>1 DEF Erase
  <2>2. ~Stands(o)' /\ \A p \in Everything : Stands(p)' => Stands(p)
    BY <1>0, <2>1 DEF Remove, Stands, Holds, TypeOK, Everything
  <2> QED
    BY <2>1, <2>2 DEF Cleared
<1>2. CASE TakeAsGone(o)
  BY <1>2 DEF TakeAsGone, Stands, Holds, Cleared
<1> QED
  BY <1>1, <1>2

(* Where nothing but what was cleared is lost sight of, nothing is         *)
(* orphaned.                                                               *)
LEMMA ClearedIsGuarded ==
  ASSUME GuardedByFinalizer, Held(kb) => Held(kb)',
         \A p \in OrgScoped \cup {"namespace"} : Cleared(p) => Cleared(p)'
  PROVE  GuardedByFinalizer'
  BY DEF GuardedByFinalizer, Cleared, Held

(* Where the cluster stays as it is, so does what has been cleared.        *)
LEMMA ClusterKept ==
  ASSUME UNCHANGED cluster
  PROVE  /\ \A o : Holds(o)' = Holds(o)
         /\ \A o : Cleared(o)' = Cleared(o)
         /\ GuardedByFinalizer /\ (Held(kb) => Held(kb)') => GuardedByFinalizer'
<1>1. \A o : Holds(o)' = Holds(o)
  BY DEF Holds
<1>2. \A o : Cleared(o)' = Cleared(o)
  BY <1>1 DEF Cleared, Stands
<1> QED
  BY <1>1, <1>2, ClearedIsGuarded

(* A pass that has ended, or that has only left cleanup and building       *)
(* behind, claims nothing.                                                 *)
LEMMA PassEnded ==
  ASSUME pc' \notin {"advance", "provision", "createJob", "cleanup", "admit"}
  PROVE  BuildsHeld' /\ ClearedSoFar' /\ AdmitIsSafe'
  BY DEF BuildsHeld, ClearedSoFar, AdmitIsSafe

(* Initially nothing exists, is viewed or is under way.                    *)
LEMMA FinalizerInvInit == Init => FinalizerInv
<1> SUFFICES ASSUME Init PROVE FinalizerInv
  OBVIOUS
<1>1. \A o \in OrgScoped \cup {"namespace"} : ~Stands(o)
  BY OrgScopedAreObjects DEF Init, Stands, Holds, OrgScoped
<1> QED
  BY <1>1 DEF Init, FinalizerInv, GuardedByFinalizer, BuildsHeld, ClearedSoFar,
              ViewIsSafe, DeletingIsHeld, AdmitIsSafe, Gone, Blank, Serving, Held

(* Users never take the finalizer away, nor give it.                       *)
LEMMA FinalizerInvUsers ==
  ASSUME TypeOK, FinalizerInv, CreateKB \/ EditSpec \/ DeleteKB
  PROVE  FinalizerInv'
<1> USE DEF FinalizerInv
<1>1. UNCHANGED << control, pc, at, snap, cluster >>
  BY DEF CreateKB, EditSpec, DeleteKB
<1>2. /\ Held(kb) => Held(kb)'
      /\ Serving(kb)' => Serving(kb)
      /\ kb.deleting => kb'.deleting
      /\ kb'.deleting => Held(kb)'
  <2>1. CASE CreateKB
    <3>1. PICK spec \in Specs : kb' = Fresh(spec)
      BY <2>1 DEF CreateKB, Store
    <3> QED
      BY <2>1, <3>1 DEF CreateKB, Fresh, Blank, Held, Serving, DeletingIsHeld
  <2>2. CASE EditSpec
    <3>1. PICK spec \in Specs : kb' = [kb EXCEPT !.spec = spec]
      BY <2>2 DEF EditSpec, Store
    <3> QED
      BY <3>1 DEF TypeOK, Record, Held, Serving, DeletingIsHeld
  <2>3. CASE DeleteKB
    <3>1. CASE kb.finalizer
      BY <2>3, <3>1 DEF DeleteKB, Store, TypeOK, Record, Held, Serving
    <3>2. CASE ~kb.finalizer
      BY <2>3, <3>2 DEF DeleteKB, Store, Gone, Blank, Held, Serving
    <3> QED
      BY <3>1, <3>2
  <2> QED
    BY <2>1, <2>2, <2>3
<1>3. GuardedByFinalizer'
  BY <1>1, <1>2, ClusterKept
<1>4. ClearedSoFar'
  BY <1>1, ClusterKept DEF ClearedSoFar
<1>5. BuildsHeld' /\ ViewIsSafe' /\ DeletingIsHeld' /\ AdmitIsSafe'
  BY <1>1, <1>2 DEF BuildsHeld, ViewIsSafe, DeletingIsHeld, AdmitIsSafe, Held, Serving
<1> QED
  BY <1>3, <1>4, <1>5

(* Informers, timers and the restart after a crash refresh the view from   *)
(* the KnowledgeBase itself.                                               *)
LEMMA FinalizerInvRuntime ==
  ASSUME TypeOK, FinalizerInv, Deliver \/ Timer \/ Observe \/ Crash
  PROVE  FinalizerInv'
<1> USE DEF FinalizerInv
<1>1. UNCHANGED << kb, cluster >>
  BY DEF Deliver, Timer, Observe, Crash
<1>2. GuardedByFinalizer' /\ DeletingIsHeld'
  BY <1>1, ClusterKept DEF DeletingIsHeld, Held
<1>3. CASE Deliver
  <2>1. view' = kb /\ UNCHANGED worker
    BY <1>3 DEF Deliver
  <2>2. BuildsHeld' /\ ClearedSoFar'
    BY <1>1, <2>1, ClusterKept DEF BuildsHeld, ClearedSoFar, Held
  <2>3. ViewIsSafe'
    BY <1>1, <2>1 DEF ViewIsSafe, Serving, Held
  <2>4. AdmitIsSafe'
    BY <1>1, <2>1 DEF AdmitIsSafe
  <2> QED
    BY <1>2, <2>2, <2>3, <2>4
<1>4. CASE Timer \/ Observe
  <2>1. UNCHANGED << view, worker >>
    BY <1>4 DEF Timer, Observe
  <2>2. BuildsHeld' /\ ClearedSoFar'
    BY <1>1, <2>1, ClusterKept DEF BuildsHeld, ClearedSoFar, Held
  <2>3. ViewIsSafe' /\ AdmitIsSafe'
    BY <1>1, <2>1 DEF ViewIsSafe, Serving, Held, AdmitIsSafe
  <2> QED
    BY <1>2, <2>2, <2>3
<1>5. CASE Crash
  <2>1. view' = kb /\ pc' = "idle"
    BY <1>5 DEF Crash
  <2>2. ViewIsSafe'
    BY <1>1, <2>1 DEF ViewIsSafe, Serving, Held
  <2> QED
    BY <1>2, <2>1, <2>2, PassEnded
<1> QED
  BY <1>3, <1>4, <1>5

(* The cluster only takes objects away, or adds volume claims.             *)
LEMMA FinalizerInvCluster ==
  ASSUME TypeOK, FinalizerInv, NamespaceGone \/ ClaimVolumes \/ Drift
  PROVE  FinalizerInv'
<1> USE DEF FinalizerInv
<1>1. UNCHANGED << server, control, worker >>
  BY DEF NamespaceGone, ClaimVolumes, Drift
<1>0. "namespace" \notin Obj /\ OrgScoped \subseteq Obj /\ "pvcs" \notin OrgScoped
  BY OrgScopedAreObjects DEF Obj, OrgScoped
<1>2. ASSUME NamespaceGone PROVE GuardedByFinalizer' /\ ClearedSoFar'
  <2>1. /\ ns' = "absent" /\ \A p \in Contents : objs'[p] = None
        /\ \A p \in Obj \ Contents : objs'[p] = objs[p]
        /\ \A p \in Everything \ Contents : p \in amiss' <=> p \in amiss
        /\ Contents \subseteq Obj
    BY <1>2, <1>0 DEF NamespaceGone, Contents, InNamespace, Everything
  <2>2. \A p \in Everything : Cleared(p) => Cleared(p)'
    BY <1>0, <2>1 DEF Cleared, Stands, Holds, Everything, Contents
  <2> QED
    BY <1>1, <1>0, <2>2, ClearedIsGuarded, CleanupsAreThings DEF ClearedSoFar, Everything
<1>3. ASSUME ClaimVolumes PROVE GuardedByFinalizer' /\ ClearedSoFar'
  <2>1. PICK o \in {"qdrantStatefulSet", "postgresStatefulSet"} :
          /\ Holds(o) /\ objs' = [objs EXCEPT !["pvcs"] = objs[o]] /\ ns' = ns
          /\ amiss' = IF o \in amiss THEN amiss \cup {"pvcs"} ELSE amiss \ {"pvcs"}
    BY <1>3 DEF ClaimVolumes
  <2>2. \A p \in Everything \ {"pvcs"} : Cleared(p) => Cleared(p)'
    BY <1>0, <2>1 DEF Cleared, Stands, Holds, Everything, TypeOK
  <2>3. ClearedSoFar'
    <3> SUFFICES ASSUME pc = "cleanup", NEW j \in DOMAIN Cleanup, j < at, Cleanup[j] = "pvcs"
                 PROVE  Cleared("pvcs")'
      BY <1>1, <2>2, CleanupsAreThings DEF ClearedSoFar
    <3>1. Cleared(o)
      BY <2>1, CleanupOrder DEF ClearedSoFar, TypeOK
    <3>2. o \in amiss
      BY <2>1, <3>1 DEF Cleared, Stands
    <3> QED
      BY <2>1, <3>2 DEF Cleared
  <2> QED
    BY <1>1, <1>0, <2>2, <2>3, ClearedIsGuarded DEF Everything
<1>5. ASSUME Drift PROVE GuardedByFinalizer' /\ ClearedSoFar'
  <2>1. PICK o \in Drifting : Remove(o) /\ amiss' = amiss \cup {o}
    BY <1>5 DEF Drift
  <2>2. \A p \in Everything : Cleared(p) => Cleared(p)'
    BY <2>1, WhatClears, DriftingAssumption DEF Everything
  <2> QED
    BY <1>1, <1>0, <2>2, ClearedIsGuarded, CleanupsAreThings DEF ClearedSoFar, Everything
<1>4. BuildsHeld' /\ ViewIsSafe' /\ DeletingIsHeld' /\ AdmitIsSafe'
  BY <1>1 DEF BuildsHeld, ViewIsSafe, DeletingIsHeld, AdmitIsSafe, Serving, Held
<1> QED
  BY <1>2, <1>3, <1>4, <1>5

(* The worker's own writes to the status change nobody's claim.            *)
LEMMA FinalizerInvStatus ==
  ASSUME TypeOK, FinalizerInv,
         Reject \/ Pend \/ Advance \/ Publish \/ Panic \/ ReportFailure
  PROVE  FinalizerInv'
<1> USE DEF FinalizerInv
<1>1. UNCHANGED << view, cluster >>
  BY DEF Reject, Pend, Advance, Publish, Panic, ReportFailure, Done
<1>2. /\ kb'.live = kb.live /\ kb'.finalizer = kb.finalizer
      /\ kb'.deleting = kb.deleting
  <2>1. CASE Reject \/ ReportFailure
    <3>1. kb' = kb \/ kb' = [kb EXCEPT !.phase = "Failed"]
      BY <2>1 DEF Reject, ReportFailure, Store
    <3> QED
      BY <3>1 DEF TypeOK, Record
  <2>2. CASE Pend
    BY <2>2 DEF Pend, Store, TypeOK, Record
  <2>3. CASE Advance
    BY <2>3 DEF Advance, Store, TypeOK, Record
  <2>4. CASE Publish
    BY <2>4 DEF Publish, Store, TypeOK, Record
  <2>5. CASE Panic
    BY <2>5 DEF Panic
  <2> QED
    BY <2>1, <2>2, <2>3, <2>4, <2>5
<1>3. GuardedByFinalizer' /\ DeletingIsHeld'
  BY <1>1, <1>2, ClusterKept DEF DeletingIsHeld, Held
<1>4. CASE Advance
  <2>1. pc = "advance" /\ pc' = "provision"
    BY <1>4 DEF Advance
  <2> QED
    BY <1>1, <1>2, <1>3, <2>1
    DEF BuildsHeld, ClearedSoFar, AdmitIsSafe, ViewIsSafe, Serving, Held
<1>5. CASE Reject \/ Pend \/ Publish \/ Panic \/ ReportFailure
  <2>1. pc' = "idle"
    BY <1>5 DEF Reject, Pend, Publish, Panic, ReportFailure, Done
  <2>2. ViewIsSafe'
    BY <1>1, <1>2, <2>1 DEF ViewIsSafe, Serving, Held
  <2> QED
    BY <1>3, <2>1, <2>2, PassEnded
<1> QED
  BY <1>4, <1>5

(* A provisioning step builds for a held KnowledgeBase.                    *)
LEMMA FinalizerInvBuilding ==
  ASSUME TypeOK, FinalizerInv,
         \/ EnsureObject \/ UpsertObject \/ KeepJob \/ DropFailedJob \/ CreateJob
         \/ ProbeHealth \/ Refuse
  PROVE  FinalizerInv'
<1> USE DEF FinalizerInv
<1>1. UNCHANGED << kb, view >> /\ pc \in {"provision", "createJob"}
  BY DEF EnsureObject, UpsertObject, KeepJob, DropFailedJob, CreateJob, ProbeHealth,
         Refuse, AtStep
<1>2. pc' \in {"provision", "createJob", "publish", "fail"}
  BY DEF EnsureObject, UpsertObject, KeepJob, DropFailedJob, CreateJob, ProbeHealth,
         Refuse, Proceed
<1>3. Held(kb)
  BY <1>1 DEF BuildsHeld
<1>4. GuardedByFinalizer'
  BY <1>1, <1>3 DEF GuardedByFinalizer, Held
<1> QED
  BY <1>1, <1>2, <1>3, <1>4
  DEF BuildsHeld, ClearedSoFar, ViewIsSafe, DeletingIsHeld, AdmitIsSafe, Serving, Held

(* A pass enters the branch its view calls for.                            *)
LEMMA FinalizerInvBegin ==
  ASSUME TypeOK, FinalizerInv, Begin PROVE FinalizerInv'
<1> USE DEF FinalizerInv
<1>1. UNCHANGED << server, view, cluster >> /\ pc = "idle"
  BY DEF Begin
<1>2. GuardedByFinalizer' /\ DeletingIsHeld'
  BY <1>1, ClusterKept DEF DeletingIsHeld, Held
<1>3. CASE UNCHANGED worker
  BY <1>1, <1>2, <1>3, PassEnded DEF ViewIsSafe, Serving, Held
<1>4. CASE view.live /\ pc' = Entry(view) /\ at' = 1 /\ snap' = view
  <2>1. BuildsHeld'
    BY <1>1, <1>4
    DEF BuildsHeld, ViewIsSafe, Entry, Progress, Admission, Serving, Held, TypeOK, Record
  <2>2. ClearedSoFar'
    BY <1>4 DEF ClearedSoFar, Cleanup
  <2>3. ViewIsSafe'
    BY <1>1, <1>4 DEF ViewIsSafe, Entry, Progress, Admission, Serving, Held
  <2>4. AdmitIsSafe'
    BY <1>1, <1>4 DEF AdmitIsSafe, Entry, Progress
  <2> QED
    BY <1>2, <2>1, <2>2, <2>3, <2>4
<1> QED
  BY <1>3, <1>4 DEF Begin

(* The finalizer is added only to the object the pass has read.            *)
LEMMA FinalizerInvAdmit ==
  ASSUME TypeOK, FinalizerInv, Admit PROVE FinalizerInv'
<1> USE DEF FinalizerInv
<1>1. UNCHANGED << view, cluster >> /\ pc = "admit" /\ pc' = "idle"
  BY DEF Admit, Done
<1>2. /\ Held(kb) => Held(kb)'
      /\ kb'.deleting = kb.deleting
      /\ view.deleting => kb.deleting
  BY <1>1 DEF Admit, Store, TypeOK, Record, AdmitIsSafe, Held
<1>3. GuardedByFinalizer' /\ DeletingIsHeld'
  BY <1>1, <1>2, ClusterKept DEF DeletingIsHeld
<1>4. ViewIsSafe'
  BY <1>1, <1>2 DEF ViewIsSafe, Serving, Held
<1> QED
  BY <1>1, <1>3, <1>4, PassEnded

(* A failed call ends the pass or sends it to its report.                  *)
LEMMA FinalizerInvFault ==
  ASSUME TypeOK, FinalizerInv, Fault PROVE FinalizerInv'
<1> USE DEF FinalizerInv
<1>1. UNCHANGED << kb, view, cluster >> /\ pc' \in {"fail", "idle"}
  BY DEF Fault, Done
<1>2. GuardedByFinalizer' /\ DeletingIsHeld'
  BY <1>1, ClusterKept DEF DeletingIsHeld, Held
<1>3. ViewIsSafe'
  BY <1>1 DEF ViewIsSafe, Serving, Held
<1> QED
  BY <1>1, <1>2, <1>3, PassEnded

(* A cleanup step clears its object and brings nothing back.               *)
LEMMA FinalizerInvCleanup ==
  ASSUME TypeOK, FinalizerInv, CleanupStep
  PROVE  FinalizerInv'
<1> USE DEF FinalizerInv
<1>1. /\ UNCHANGED << kb, view, snap >>
      /\ pc = "cleanup" /\ pc' = "cleanup" /\ at \in DOMAIN Cleanup /\ at' = at + 1
  BY DEF CleanupStep
<1>o. PICK o : o = Cleanup[at]
  OBVIOUS
<1>2. o \in Everything
  BY <1>1, <1>o, CleanupsAreThings
<1>3. Erase(o) \/ TakeAsGone(o)
  BY <1>o DEF CleanupStep
<1>4. Cleared(o)' /\ \A p \in Everything : Cleared(p) => Cleared(p)'
  BY <1>2, <1>3, WhatClears
<1>5. GuardedByFinalizer'
  BY <1>1, <1>4, ClearedIsGuarded, OrgScopedAreObjects DEF Held, Everything
<1>6. ClearedSoFar'
  BY <1>1, <1>o, <1>4, CleanupOrder, CleanupsAreThings DEF ClearedSoFar, TypeOK
<1> QED
  BY <1>1, <1>5, <1>6
  DEF BuildsHeld, ViewIsSafe, DeletingIsHeld, AdmitIsSafe, Serving, Held

(* At the release every step has been taken.                               *)
LEMMA FinalizerInvRelease ==
  ASSUME TypeOK, FinalizerInv, Release PROVE FinalizerInv'
<1> USE DEF FinalizerInv
<1>1. UNCHANGED << view, cluster >> /\ pc = "cleanup" /\ pc' = "idle"
      /\ at \notin DOMAIN Cleanup
  BY DEF Release, Done
<1>2. at > 24
  BY <1>1, CleanupOrder DEF ClearedSoFar, TypeOK
<1>3. \A o \in OrgScoped \cup {"namespace"} : Cleared(o)
  BY <1>1, <1>2, CleanupOrder DEF ClearedSoFar, OrgScoped, TypeOK
<1>4. \A o \in OrgScoped \cup {"namespace"} : Cleared(o)'
  BY <1>1, <1>3, ClusterKept
<1>5. GuardedByFinalizer'
  BY <1>4 DEF GuardedByFinalizer, Cleared
<1>6. kb' = kb \/ kb' = Gone
  BY DEF Release, Store
<1>7. ViewIsSafe' /\ DeletingIsHeld'
  <2>1. CASE kb' = kb
    BY <1>1, <2>1 DEF ViewIsSafe, DeletingIsHeld, Serving, Held
  <2>2. CASE kb' = Gone
    <3>1. ~kb'.live /\ ~kb'.deleting
      BY <2>2 DEF Gone, Blank
    <3> QED
      BY <1>1, <3>1 DEF ViewIsSafe, DeletingIsHeld, Serving, Held
  <2> QED
    BY <1>6, <2>1, <2>2
<1> QED
  BY <1>1, <1>5, <1>7, PassEnded

(* All actions together.                                                   *)
LEMMA FinalizerInvStep == TypeOK /\ FinalizerInv /\ [Next]_vars => FinalizerInv'
<1> SUFFICES ASSUME TypeOK, FinalizerInv, [Next]_vars PROVE FinalizerInv'
  OBVIOUS
<1>1. CASE UNCHANGED vars
  <2>1. GuardedByFinalizer' /\ ClearedSoFar'
    BY <1>1, ClusterKept DEF vars, FinalizerInv, ClearedSoFar, Held
  <2> QED
    BY <1>1, <2>1 DEF vars, FinalizerInv, BuildsHeld, ViewIsSafe, DeletingIsHeld,
                      AdmitIsSafe, Serving, Held
<1>2. CASE Next
  BY <1>2, FinalizerInvUsers, FinalizerInvRuntime, FinalizerInvCluster, FinalizerInvStatus,
     FinalizerInvBuilding, FinalizerInvBegin, FinalizerInvAdmit, FinalizerInvFault,
     FinalizerInvCleanup, FinalizerInvRelease
  DEF Next, WorkerStep
<1> QED
  BY <1>1, <1>2

(* No crash, failed call, stale view, wrong answer about another object or *)
(* re-creation leaves the namespace or an object of the organization       *)
(* without a KnowledgeBase whose finalizer will clear it; only a wrong     *)
(* answer to its own deletion does.                                        *)
THEOREM NothingOrphaned == Spec => []GuardedByFinalizer
<1>1. FinalizerInv => GuardedByFinalizer
  BY DEF FinalizerInv
<1> QED
  BY <1>1, TypeCorrect, FinalizerInvInit, FinalizerInvStep, PTL DEF Spec

===============================================================================
