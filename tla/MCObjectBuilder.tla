-------------------------- MODULE MCObjectBuilder --------------------------
(***************************************************************************)
(* Annotations for ObjectBuilder: each group varies one concern and fixes  *)
(* the others at values that let the object be built.                      *)
(***************************************************************************)
EXTENDS ObjectBuilder, TLC

Note    == "octops-note"
Socket  == "octops-websocket"
NoName  == "octops-"
Meta    == "octops.service-meta"
Unnamed == "octops.service-"

MCCustom  == Note :> "note" @@ Socket :> "websocket" @@ NoName :> ""
               @@ IngressClassLegacy :> ClassAnnotation
               @@ "octops-cert-manager.io/cluster-issuer" :> IssuerAnnotation
MCService == Meta :> "meta" @@ Unnamed :> ""

MCDashed(token) ==
  CASE token = "a.com" -> "a-com" [] token = "b.com" -> "b-com" [] OTHER -> token

GS(annotations) ==
  [name |-> "gs", annotations |-> annotations, ports |-> <<"7437">>, containerPorts |-> <<"8088">>]

Nothing == << >>
Class   == IngressClassName :> <<"contour">>
Parent  == GatewayName :> <<"edge">>
Mode(m) == IngressMode :> m

A == <<"a.com">>
B == <<"b.com">>
Lists == { <<A>>, <<A, B>>, <<A, << >> >>, << >> }
Loose == { <<A, <<" ", "b.com">> >>, << <<"a.com", " ">> >> }

Routing ==
  {Mode("domain") @@ IngressDomain :> list : list \in Lists \cup Loose}
    \cup {Mode("path") @@ IngressFQDN :> list : list \in Lists \cup Loose}
    \cup {Nothing, Mode("path"), Mode("domain") @@ IngressFQDN :> <<A>>, Mode("tcp"),
          IngressDomain :> <<A>>}

Issuer  == IssuerName :> <<"letsencrypt">>
Issuers == {Nothing, Issuer, IssuerName :> << >>}
Secrets == {Nothing, TLSSecretName :> << >>, TLSSecretName :> <<"wildcard">>}
Secured == TerminateTLS :> "true" @@ Issuer

TLSValues ==
  {TerminateTLS :> "true" @@ secret @@ issuer : secret \in Secrets, issuer \in Issuers}
    \cup {TerminateTLS :> value @@ Issuer : value \in {"", "false", "yes"}}
    \cup {Nothing, TerminateTLS :> "yes"}

Classes ==
  {Nothing, Class, IngressClassName :> << >>, IngressClassLegacy :> <<"nginx">>,
   Class @@ IngressClassLegacy :> <<"nginx">>, IngressClassLegacy :> <<NameAction>>}

Gateways ==
  {Nothing, Parent, GatewayName :> << >>,
   Parent @@ GatewayNamespace :> <<"infra">> @@ GatewaySectionName :> << >>,
   Parent @@ GatewaySectionName :> <<"https">>}

Templates ==
  { <<"on">>, <<"/", NameAction>>, <<PortAction>>, <<"/", OtherAction, NameAction>>,
    <<OtherAction>>, <<"/", BadAction>> }

Customs ==
  {Note :> one @@ Socket :> two : one \in Templates, two \in Templates}
    \cup {Note :> <<"on">> @@ NoName :> <<"on">>, Unnamed :> <<"on">>, Meta :> <<BadAction>>,
          Meta :> <<PortAction>>,
          "octops-cert-manager.io/cluster-issuer" :> <<NameAction>>}

Routed   == Mode("domain") @@ IngressDomain :> <<A, B>>
Complete == Routed @@ Class @@ Parent

Portless(g) == [g EXCEPT !.ports = << >>, !.containerPorts = << >>]

(* The first of two values for a key wins (@@).                            *)
MCServers ==
  {GS(r @@ t @@ Class @@ Parent) : r \in Routing, t \in TLSValues}
    \cup {GS(c @@ g @@ x @@ Secured @@ Routed) : c \in Classes, g \in Gateways,
            x \in {Nothing, Note :> <<NameAction>>}}
    \cup {GS(x @@ y @@ Complete) : x \in Customs, y \in {Nothing, Secured, Meta :> <<NameAction>>}}
    \cup {Portless(GS(x @@ Complete)) : x \in {Nothing, Note :> <<PortAction>>}}

Blanks == {GS(Mode("domain") @@ IngressDomain :> list @@ Class @@ Parent) : list \in Lists \cup Loose}
=============================================================================
