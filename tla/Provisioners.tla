----------------------------- MODULE Provisioners -----------------------------
(***************************************************************************)
(* The two programs of the controller, as data: the writes of a            *)
(* provisioning pass and the deletions of a cleanup pass, in code order.   *)
(*                                                                         *)
(* A provisioning step is [how, obj]:                                      *)
(*   "ensure"  create the object if it is absent, else leave it alone      *)
(*   "upsert"  create it, or overwrite it from the spec of the pass        *)
(*   "job"     the init job: create it, keep it, or delete and recreate it *)
(*   "probe"   no write: the two health checks of the services             *)
(* What each builder puts into its object is abstracted to the spec of the *)
(* pass that built it.                                                     *)
(***************************************************************************)
EXTENDS Integers, Sequences

Ensure(o) == [how |-> "ensure", obj |-> o]
Upsert(o) == [how |-> "upsert", obj |-> o]
Probe     == [how |-> "probe", obj |-> "status"]

NamespaceSteps        == << Ensure("namespace") >>
ExternalSecretSteps   == << Upsert("externalSecret") >>
QdrantSteps           == << Upsert("qdrantStatefulSet"), Upsert("qdrantService") >>
PostgresSteps         == << Upsert("postgresStatefulSet"), Upsert("postgresService") >>
InitJobSteps          == << [how |-> "job", obj |-> "initJob"] >>
AppConfigSteps        == << Upsert("appConfig") >>
EmbeddingSteps        == << Upsert("embeddingDeployment"), Upsert("embeddingService") >>
QuerySteps            == << Upsert("queryDeployment"), Upsert("queryService") >>
GraphSteps            == << Upsert("graphDeployment"), Upsert("graphService") >>
HTTPRouteSteps        == << Upsert("httpRoute") >>
RepositoryConfigSteps == << Upsert("repositoryConfig") >>
SourceConfigSteps     == << Upsert("sourceConfig") >>
RepoMappingSteps      == << Upsert("repoMapping") >>
ResolveRBACSteps      == << Ensure("resolverServiceAccount"), Upsert("resolveRoleBinding") >>
GeneratorRBACSteps    == << Ensure("generatorServiceAccount"), Upsert("generatorRole"),
                            Upsert("generatorRoleBinding") >>
TriggerTemplateSteps  == << Upsert("triggerTemplate") >>
TriggerSteps          == << Upsert("trigger") >>
HealthSteps           == << Probe >>
MCPServerSteps        == << Upsert("mcpDeployment"), Upsert("mcpService") >>

(* A faulty order: the routing of events before the rights of their tasks. *)
ProvisioningRoutesFirst ==
  NamespaceSteps \o RepoMappingSteps \o TriggerTemplateSteps \o TriggerSteps
    \o ExternalSecretSteps \o QdrantSteps \o PostgresSteps
    \o InitJobSteps \o AppConfigSteps \o EmbeddingSteps \o QuerySteps
    \o GraphSteps \o HTTPRouteSteps \o RepositoryConfigSteps
    \o SourceConfigSteps \o ResolveRBACSteps \o GeneratorRBACSteps
    \o HealthSteps \o MCPServerSteps

(* The order of Reconcile from reconcileNamespace to reconcileMCPServer.   *)
Provisioning ==
  NamespaceSteps \o ExternalSecretSteps \o QdrantSteps \o PostgresSteps
    \o InitJobSteps \o AppConfigSteps \o EmbeddingSteps \o QuerySteps
    \o GraphSteps \o HTTPRouteSteps \o RepositoryConfigSteps
    \o SourceConfigSteps \o RepoMappingSteps \o ResolveRBACSteps
    \o GeneratorRBACSteps \o TriggerTemplateSteps \o TriggerSteps
    \o HealthSteps \o MCPServerSteps

(* Faulty cleanups: one forgets the trigger template, one the volumes, one *)
(* leaves all of the namespace's content to its deletion, one keeps the    *)
(* namespace.                                                              *)
CleanupForgetsTemplate ==
  << "httpRoute", "queryDeployment", "queryService", "initJob",
     "postgresStatefulSet", "qdrantStatefulSet", "externalSecret", "pvcs",
     "repoMapping", "trigger", "resolveRoleBinding", "namespace" >>
CleanupForgetsVolumes ==
  << "httpRoute", "externalSecret", "repoMapping", "trigger",
     "triggerTemplate", "resolveRoleBinding", "namespace" >>
CleanupByCascade == << "repoMapping", "trigger", "triggerTemplate", "namespace" >>
CleanupKeepsNamespace ==
  << "queryService", "repoMapping", "trigger", "triggerTemplate" >>

(* The deletions of cleanupSteps in order.  The service account of the     *)
(* resolver and the RBAC of the generator have no step of their own: they  *)
(* go with the namespace.                                                  *)
Cleanup ==
  << "httpRoute", "queryDeployment", "queryService", "graphDeployment",
     "graphService", "embeddingDeployment", "embeddingService", "initJob",
     "postgresStatefulSet", "postgresService", "qdrantStatefulSet",
     "qdrantService", "externalSecret", "appConfig", "pvcs",
     "repositoryConfig", "sourceConfig", "repoMapping", "trigger",
     "triggerTemplate", "resolveRoleBinding", "mcpDeployment", "mcpService",
     "namespace" >>

(* cleanupResolveRBAC deletes without reading first.                       *)
DeletedUnread == {"resolveRoleBinding"}

(* The objects a KnowledgeBase owns besides its infrastructure namespace   *)
(* kb-<name>.  "pvcs" are the volume claims the StatefulSet controller     *)
(* makes; "repoMapping" are this KnowledgeBase's entries of the ConfigMap  *)
(* its organization shares.                                                *)
Obj == ({Provisioning[i].obj : i \in DOMAIN Provisioning}
          \ {"namespace", "status"}) \cup {"pvcs"}

(* Objects in the organization's namespace: the deletion of the            *)
(* infrastructure namespace does not take them away.                       *)
OrgScoped == {"repoMapping", "triggerTemplate", "trigger"}

InNamespace(o) == o \notin OrgScoped \cup {"namespace"}

===============================================================================
