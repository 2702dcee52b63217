---------------------------- MODULE RouteOptions ----------------------------
(***************************************************************************)
(* How the annotations of a GameServer become the content of its Service,  *)
(* Ingress or HTTPRoute: the values the options of pkg/reconcilers compute *)
(* and the conditions under which they return an error.  ObjectBuilder     *)
(* runs the options one after the other.                                   *)
(*                                                                         *)
(* Text is a sequence of tokens: a blank, a template action, or a piece of *)
(* text that nothing in the options takes apart.  << >> is the empty       *)
(* string.  The value of a list annotation is the sequence of the texts    *)
(* between its commas.                                                     *)
(***************************************************************************)
EXTENDS GameServer, Naturals, Sequences, FiniteSetsExt

CONSTANTS
  CustomPrefixed,   \* keys with prefix "octops-" |-> what TrimPrefix leaves
  ServicePrefixed,  \* keys with prefix "octops.service-" |-> what TrimPrefix leaves
  Dashed(_)         \* strings.ReplaceAll(token, ".", "-")

Injective(f) == \A x, y \in DOMAIN f : f[x] = f[y] => x = y

ASSUME PrefixAssumption ==
  /\ Injective(CustomPrefixed)
  /\ Injective(ServicePrefixed)

Blank == " "

(* strings.TrimSpace: interior blanks stay.                                *)
TrimSpace(text) ==
  LET ink == {i \in DOMAIN text : text[i] # Blank}
  IN  IF ink = {} THEN << >> ELSE SubSeq(text, Min(ink), Max(ink))

(* strings.Split(value, ","): the empty string has one, empty, item.       *)
Split(value) == IF value = << >> THEN << << >> >> ELSE value

ReplaceDots(text) == [i \in DOMAIN text |-> Dashed(text[i])]

-----------------------------------------------------------------------------
(***************************************************************************)
(* Custom annotations and their templates (text/template).                 *)
(***************************************************************************)
NameAction  == "{{ .Name }}"
PortAction  == "{{ .Port }}"
OtherAction == "{{ .Other }}"   \* parses; Execute stops there with an error
BadAction   == "{{}}"           \* does not parse

Actions == {NameAction, PortAction, OtherAction, BadAction}

(* strings.Contains(v, "{{") and strings.Contains(v, "}}")                 *)
IsTemplate(text) == \E i \in DOMAIN text : text[i] \in Actions

Parses(text) == \A i \in DOMAIN text : text[i] # BadAction

Value(token, g) ==
  CASE token = NameAction -> g.name
    [] token = PortAction -> GetGameServerPort(g)
    [] OTHER              -> token

(* What Execute has written when it returns; its error is dropped.         *)
Execute(text, g) ==
  LET stops == {i \in DOMAIN text : text[i] = OtherAction}
      last  == IF stops = {} THEN Len(text) ELSE Min(stops) - 1
  IN  [i \in 1 .. last |-> Value(text[i], g)]

-----------------------------------------------------------------------------
(***************************************************************************)
(* Routing: hosts and paths.                                               *)
(***************************************************************************)
Modes == {"domain", "path"}

(* The text that HasAnnotation returns, empty for an absent key.           *)
Text(g, key) == IF HasAnnotation(g, key) THEN g.annotations[key] ELSE << >>

ListKey(g) == IF GetIngressRoutingMode(g) = "path" THEN IngressFQDN ELSE IngressDomain

(* The errors of WithIngressRule, and the same ones of WithHTTPRouteRules: *)
(* an absent list and an empty one are both refused.                       *)
RulesRefused(g) ==
  \/ GetIngressRoutingMode(g) \notin Modes
  \/ Text(g, ListKey(g)) = << >>

Items(g) == Split(g.annotations[ListKey(g)])

(* fmt.Sprintf("%s.%s", gs.Name, domain)                                   *)
Subdomain(g, domain) == <<g.name, ".">> \o domain

Path(g) == IF GetIngressRoutingMode(g) = "path" THEN <<"/", g.name>> ELSE <<"/">>

newIngressRule(host, g) ==
  [host |-> TrimSpace(host), path |-> Path(g),
   service |-> g.name, port |-> GetGameServerPort(g)]

IngressRules(g) ==
  [i \in DOMAIN Items(g) |->
     newIngressRule(IF GetIngressRoutingMode(g) = "path"
                    THEN Items(g)[i] ELSE Subdomain(g, Items(g)[i]), g)]

(* Mutant: the items as they are.                                          *)
HostnamesUntrimmed(g) ==
  [i \in DOMAIN Items(g) |->
     IF GetIngressRoutingMode(g) = "path" THEN Items(g)[i] ELSE Subdomain(g, Items(g)[i])]

Hostnames(g) ==
  [i \in DOMAIN Items(g) |->
     IF GetIngressRoutingMode(g) = "path"
     THEN TrimSpace(Items(g)[i]) ELSE Subdomain(g, TrimSpace(Items(g)[i]))]

(* The one rule of an HTTPRoute, for all its hostnames.                    *)
HTTPRouteRule(g) ==
  [path |-> Path(g), service |-> g.name, port |-> GetGameServerPort(g)]

(* Absent or empty, the name is refused and the other fields stay unset.   *)
ParentRefused(g) == Text(g, GatewayName) = << >>

ParentRef(g) ==
  [name |-> Text(g, GatewayName),
   namespace |-> Text(g, GatewayNamespace),
   section |-> Text(g, GatewaySectionName)]

-----------------------------------------------------------------------------
(***************************************************************************)
(* TLS of an Ingress.                                                      *)
(***************************************************************************)
AsksTLS(g) == HasAnnotation(g, TerminateTLS) /\ g.annotations[TerminateTLS] # ""

TLSUnparsable(g) ==
  AsksTLS(g) /\ g.annotations[TerminateTLS] \notin ParsesTrue \cup ParsesFalse

Terminates(g) == AsksTLS(g) /\ g.annotations[TerminateTLS] \in ParsesTrue

SecretGiven(g) == HasAnnotation(g, TLSSecretName)

TLSRefused(g) ==
  \/ TLSUnparsable(g)
  \/ /\ Terminates(g)
     /\ \/ SecretGiven(g) /\ g.annotations[TLSSecretName] = << >>
        \/ ~HasAnnotation(g, ListKey(g))

Secret(g, item) ==
  IF SecretGiven(g) THEN g.annotations[TLSSecretName]
                    ELSE ReplaceDots(item \o <<"-", g.name, "-tls">>)

(* Mutant: the list item itself for a host.                                *)
TLSOfItems(g) ==
  [i \in DOMAIN Items(g) |->
     [host |-> TrimSpace(Items(g)[i]), secret |-> Secret(g, Items(g)[i])]]

(* tlsForPath and tlsForDomain.                                            *)
TLS(g) ==
  [i \in DOMAIN Items(g) |->
     [host |-> IF GetIngressRoutingMode(g) = "path"
               THEN TrimSpace(Items(g)[i]) ELSE Subdomain(g, Items(g)[i]),
      secret |-> Secret(g, Items(g)[i])]]

ClassAnnotation  == "kubernetes.io/ingress.class"
IssuerAnnotation == "cert-manager.io/cluster-issuer"

-----------------------------------------------------------------------------
(***************************************************************************)
(* What is asked of the objects, without options, loops or their order.    *)
(***************************************************************************)

PrefixedOf(kind) == IF kind = "Service" THEN ServicePrefixed ELSE CustomPrefixed

CustomKeys(kind, g) == DOMAIN g.annotations \cap DOMAIN PrefixedOf(kind)

(* The annotations ask for an object of this kind that cannot be built.    *)
Invalid(kind, g) ==
  \/ \E key \in CustomKeys(kind, g) :
       \/ PrefixedOf(kind)[key] = ""
       \/ IsTemplate(g.annotations[key]) /\ ~Parses(g.annotations[key])
  \/ kind # "Service" /\ RulesRefused(g)
  \/ kind = "Ingress" /\ (TLSRefused(g) \/ GetIngressClassName(g) = << >>)
  \/ kind = "HTTPRoute" /\ ParentRefused(g)

(* A template that can be filled in is; anything else is passed on as is.  *)
Filled(text, g) ==
  IF IsTemplate(text) /\ Execute(text, g) # << >> THEN Execute(text, g) ELSE text

(* The annotations an object of this kind shall carry: the custom ones of  *)
(* its GameServer, for an Ingress without the class, which is in its spec, *)
(* and with the issuer in case it terminates TLS.                          *)
Declared(kind, g) ==
  LET prefixed == PrefixedOf(kind)
      issued   == kind = "Ingress" /\ Terminates(g) /\ GetTLSCertIssuer(g) # << >>
      custom   == {prefixed[key] : key \in CustomKeys(kind, g)}
      kept     == IF kind = "Ingress" THEN custom \ {ClassAnnotation} ELSE custom
  IN  [name \in kept \cup (IF issued THEN {IssuerAnnotation} ELSE {}) |->
         IF issued /\ name = IssuerAnnotation
         THEN GetTLSCertIssuer(g)
         ELSE Filled(g.annotations[CHOOSE key \in CustomKeys(kind, g) : prefixed[key] = name], g)]
=============================================================================
