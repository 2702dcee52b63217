-------------------------- MODULE MCEventRecorder --------------------------
(***************************************************************************)
(* Small instances of EventRecorder for TLC.                               *)
(***************************************************************************)
EXTENDS EventRecorder, MCIngressController

GatewayTLS == Gateway @@ (TerminateTLS :> "true")
Legacy     == GatewayTLS @@ (IngressClassLegacy :> <<"nginx">>)

Edited  == {Legacy, Plain, NoParent}
Mixed   == {Plain, Gateway, NoParent}
LateTLS == {Gateway, GatewayTLS}
=============================================================================
