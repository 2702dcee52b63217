----------------------------- MODULE GameServer -----------------------------
(***************************************************************************)
(* What the controller reads from an Agones GameServer (pkg/gameserver)    *)
(* and the readiness test of pkg/reconcilers/gameserver_reconciler.go.     *)
(*                                                                         *)
(* A GameServer is a record whose field annotations is the Go map          *)
(* gs.Annotations: a function from the keys that are present to values.    *)
(* Keys and values are opaque tokens.                                      *)
(***************************************************************************)

(***************************************************************************)
(* The annotation keys that steer the control flow of the reconciliation,  *)
(* and those that shape the objects it creates.                            *)
(***************************************************************************)
IngressMode   == "octops.io/gameserver-ingress-mode"
IngressReady  == "octops.io/ingress-ready"
RouterBackend == "octops.io/router-backend"

IngressDomain      == "octops.io/gameserver-ingress-domain"
IngressFQDN        == "octops.io/gameserver-ingress-fqdn"
TerminateTLS       == "octops.io/terminate-tls"
TLSSecretName      == "octops.io/tls-secret-name"
IssuerName         == "octops.io/issuer-tls-name"
IngressClassName   == "octops.io/ingress-class-name"
IngressClassLegacy == "octops-kubernetes.io/ingress.class"
GatewayName        == "octops.io/gateway-name"
GatewayNamespace   == "octops.io/gateway-namespace"
GatewaySectionName == "octops.io/gateway-section-name"

RouterBackendIngress == "ingress"
RouterBackendGateway == "gateway"

(***************************************************************************)
(* The states of an Agones GameServer.                                     *)
(***************************************************************************)
GameServerState ==
  { "PortAllocation", "Creating", "Starting", "Scheduled", "RequestReady",
    "Ready", "Allocated", "Reserved", "Shutdown", "Error", "Unhealthy" }

HasAnnotation(g, key) == key \in DOMAIN g.annotations

IsShutdown(g) == g.state = "Shutdown"

MustReconcile(g) == g.state \in {"Scheduled", "RequestReady", "Ready"}

GetRouterBackend(g) ==
  IF HasAnnotation(g, RouterBackend) THEN g.annotations[RouterBackend]
                                     ELSE RouterBackendIngress

(***************************************************************************)
(* Accessors of the options.  An absent string is the empty one, << >>; a  *)
(* port is a token, and no port is the zero value.                         *)
(***************************************************************************)
GetIngressRoutingMode(g) ==
  IF HasAnnotation(g, IngressMode) THEN g.annotations[IngressMode] ELSE "domain"

GetTLSCertIssuer(g) ==
  IF HasAnnotation(g, IssuerName) THEN g.annotations[IssuerName] ELSE << >>

GetIngressClassName(g) ==
  CASE HasAnnotation(g, IngressClassName) -> g.annotations[IngressClassName]
    [] /\ ~HasAnnotation(g, IngressClassName)
       /\ HasAnnotation(g, IngressClassLegacy) -> g.annotations[IngressClassLegacy]
    [] OTHER -> << >>

GetGameServerPort(g) == IF g.ports # << >> THEN g.ports[1] ELSE "0"

GetGameServerContainerPort(g) == IF g.containerPorts # << >> THEN g.containerPorts[1] ELSE "0"

(***************************************************************************)
(* The event handler's early returns: an event that fails this test        *)
(* changes nothing.                                                        *)
(***************************************************************************)
Reconcilable(g) ==
  /\ HasAnnotation(g, IngressMode)
  /\ ~IsShutdown(g)
  /\ MustReconcile(g)

(***************************************************************************)
(* strconv.ParseBool accepts exactly these spellings.                      *)
(***************************************************************************)
ParsesTrue  == {"1", "t", "T", "true", "TRUE", "True"}
ParsesFalse == {"0", "f", "F", "false", "FALSE", "False"}

(***************************************************************************)
(* GameServerReconciler.MustReconcile: is the annotation still to be       *)
(* written?  "error" is the branch that returns ParseBool's error.         *)
(***************************************************************************)
MustAnnotate(g) ==
  IF HasAnnotation(g, IngressReady) /\ g.annotations[IngressReady] # ""
  THEN CASE g.annotations[IngressReady] \in ParsesTrue  -> "no"
         [] g.annotations[IngressReady] \in ParsesFalse -> "yes"
         [] OTHER                                       -> "error"
  ELSE "yes"

(***************************************************************************)
(* deepCopy.Annotations[octops.io/ingress-ready] = "true"                  *)
(***************************************************************************)
WithReady(annotations) ==
  [key \in DOMAIN annotations \cup {IngressReady} |->
     IF key = IngressReady THEN "true" ELSE annotations[key]]

IsReady(g) == MustAnnotate(g) = "no"
=============================================================================
