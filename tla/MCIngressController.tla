------------------------ MODULE MCIngressController ------------------------
(***************************************************************************)
(* Small instances of IngressController for TLC.                           *)
(***************************************************************************)
EXTENDS IngressController, RouteOptions, TLC

CONSTANTS a, b, n1

Listed   == IngressDomain :> << <<"example.com">> >> @@ IngressClassName :> <<"contour">>
Plain    == IngressMode :> "domain" @@ Listed
NoParent == Plain @@ (RouterBackend :> "gateway")
Gateway  == NoParent @@ (GatewayName :> <<"edge">>)
BadReady == Plain @@ (IngressReady :> "soon")

(* No custom annotations, and nothing to replace in a secret's name.       *)
MCPrefixed == << >>
MCDashed(token) == token

(* The options refuse, e.g., a route of NoParent: see ObjectBuilder.       *)
MCBuilds(k, annotations) == ~Invalid(k, [annotations |-> annotations])

(* The states the handler tells apart, in Agones' order.  Scheduled stands *)
(* for RequestReady, which every test of the code treats alike.            *)
ShortLifecycle ==
  { <<"Creating", "Scheduled">>, <<"Scheduled", "Ready">>,
    <<"Ready", "Allocated">>, <<"Ready", "Shutdown">>, <<"Allocated", "Shutdown">> }

(* Without the states before Scheduled, in which every event is skipped.   *)
ServingLifecycle == { <<"Scheduled", "Ready">>, <<"Ready", "Allocated">> }

(* Agones leaves the GameServers in the state they are born in.            *)
NoLifecycle == {}

OnlyPlain == {Plain}
Stripped  == {Plain, << >>}
Refused   == {Plain, NoParent, BadReady, << >>}
=============================================================================
