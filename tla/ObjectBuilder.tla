--------------------------- MODULE ObjectBuilder ---------------------------
(***************************************************************************)
(* newService, newIngress and newHTTPRoute (pkg/reconcilers): an object is *)
(* drafted and the options change it one after the other, each of them may *)
(* return an error and end the construction.  Two of the options of every  *)
(* kind range over gs.Annotations, a Go map, whose order is arbitrary and  *)
(* may differ between the two loops.                                       *)
(*                                                                         *)
(* One GameServer, whose annotations do not change while an object of it   *)
(* is built; the three kinds are built in any order, as an edit of the     *)
(* router backend makes the controller build a second route.               *)
(***************************************************************************)
EXTENDS RouteOptions

CONSTANTS
  Servers,   \* the GameServers considered
  None       \* no construction under way, no reference set

VARIABLES
  server,    \* the GameServer
  kind,      \* the kind under construction, or None
  at,        \* the position of the running option
  left,      \* keys with the prefix that the running loop has not visited
  draft,     \* the object under construction
  built,     \* the objects returned, by kind
  refused    \* the kinds for which an error was returned

results == <<built, refused>>
vars    == <<server, kind, at, left, draft, results>>

Kinds == {"Service", "Ingress", "HTTPRoute"}

ASSUME NoneAssumption == None \notin Kinds

(* A name is not blank, and the values of the list keys are lists of text. *)
ASSUME ServersAssumption ==
  \A g \in Servers :
    /\ g.name \in STRING \ {Blank}
    /\ \A key \in DOMAIN g.annotations \cap {IngressDomain, IngressFQDN} :
         g.annotations[key] \in Seq(Seq(STRING))

CopyLoops ==
  {"WithCustomServiceAnnotations", "WithCustomAnnotations", "WithCustomHTTPRouteAnnotations"}

TemplateLoops ==
  {"WithCustomServiceAnnotationsTemplate", "WithCustomAnnotationsTemplate",
   "WithCustomHTTPRouteAnnotationsTemplate"}

(* The opts of the three reconcileNotFound.                                *)
Options(k, g) ==
  CASE k = "Service"   -> << "WithCustomServiceAnnotations",
                             "WithCustomServiceAnnotationsTemplate" >>
    [] k = "Ingress"   -> << "WithCustomAnnotations", "WithCustomAnnotationsTemplate",
                             "WithIngressRule", "WithTLS", "WithIngressClassName" >>
                          \o (IF GetTLSCertIssuer(g) # << >>
                              THEN << "WithTLSCertIssuer" >> ELSE << >>)
    [] k = "HTTPRoute" -> << "WithCustomHTTPRouteAnnotations",
                             "WithCustomHTTPRouteAnnotationsTemplate",
                             "WithHTTPRouteParentRef", "WithHTTPRouteRules" >>

(* Mutant: the Service exposes the port of the container.                  *)
NewObjectContainerPort(k, g) ==
  [annotations |-> << >>,
   ports |-> IF k = "Service"
             THEN << [port |-> GetGameServerContainerPort(g), target |-> GetGameServerContainerPort(g)] >>
             ELSE << >>,
   rules |-> << >>, hostnames |-> << >>, tls |-> << >>, class |-> None, parent |-> None]

(* The object before the options; fields its kind does not have stay unset. *)
NewObject(k, g) ==
  [annotations |-> << >>,
   ports |-> IF k = "Service"
             THEN << [port |-> GetGameServerPort(g), target |-> GetGameServerContainerPort(g)] >>
             ELSE << >>,
   rules |-> << >>, hostnames |-> << >>, tls |-> << >>, class |-> None, parent |-> None]

Running(option) ==
  /\ kind # None
  /\ at <= Len(Options(kind, server))
  /\ Options(kind, server)[at] = option

Put(annotations, name, value) ==
  [n \in DOMAIN annotations \cup {name} |-> IF n = name THEN value ELSE annotations[n]]

(* The running option returns nil and the next one starts.                 *)
Return ==
  /\ at' = at + 1
  /\ left' = IF at = 1 THEN CustomKeys(kind, server) ELSE {}
  /\ UNCHANGED <<server, kind, results>>

Init ==
  /\ server \in Servers
  /\ kind = None
  /\ at = 1
  /\ left = {}
  /\ draft = None
  /\ built = << >>
  /\ refused = {}

(* Mutant: the loop does not look at the prefix.                           *)
BeginAllKeys(k) ==
  /\ kind = None
  /\ k \notin DOMAIN built \cup refused
  /\ kind' = k
  /\ at' = 1
  /\ left' = DOMAIN server.annotations
  /\ draft' = NewObject(k, server)
  /\ UNCHANGED <<server, results>>

Begin(k) ==
  /\ kind = None
  /\ k \notin DOMAIN built \cup refused
  /\ kind' = k
  /\ at' = 1
  /\ left' = CustomKeys(k, server)
  /\ draft' = NewObject(k, server)
  /\ UNCHANGED <<server, results>>

-----------------------------------------------------------------------------
(***************************************************************************)
(* One iteration of a loop over gs.Annotations, for a key with the prefix; *)
(* the loops of the three kinds are copies but for the prefix.             *)
(***************************************************************************)
Suffix(key) == PrefixedOf(kind)[key]

Visit(option, key) ==
  /\ Running(option)
  /\ key \in left
  /\ Suffix(key) # ""
  /\ left' = left \ {key}
  /\ UNCHANGED <<server, kind, at, results>>

CopyAnnotation(option, key) ==
  /\ Visit(option, key)
  /\ draft' = [draft EXCEPT !.annotations = Put(@, Suffix(key), server.annotations[key])]

WithCustomServiceAnnotations(key)   == CopyAnnotation("WithCustomServiceAnnotations", key)
WithCustomAnnotations(key)          == CopyAnnotation("WithCustomAnnotations", key)
WithCustomHTTPRouteAnnotations(key) == CopyAnnotation("WithCustomHTTPRouteAnnotations", key)

(* Mutant: what Execute wrote replaces the value, if it is empty too.      *)
FillTemplateAlways(option, key) ==
  LET text == server.annotations[key]
  IN  /\ Visit(option, key)
      /\ IsTemplate(text) => Parses(text)
      /\ draft' = IF IsTemplate(text)
                  THEN [draft EXCEPT !.annotations = Put(@, Suffix(key), Execute(text, server))]
                  ELSE draft

FillTemplate(option, key) ==
  LET text   == server.annotations[key]
      parsed == Execute(text, server)
  IN  /\ Visit(option, key)
      /\ IsTemplate(text) => Parses(text)
      /\ draft' = IF IsTemplate(text) /\ parsed # << >>
                  THEN [draft EXCEPT !.annotations = Put(@, Suffix(key), parsed)]
                  ELSE draft

WithCustomServiceAnnotationsTemplate(key) ==
  FillTemplate("WithCustomServiceAnnotationsTemplate", key)
WithCustomAnnotationsTemplate(key) ==
  FillTemplate("WithCustomAnnotationsTemplate", key)
WithCustomHTTPRouteAnnotationsTemplate(key) ==
  FillTemplate("WithCustomHTTPRouteAnnotationsTemplate", key)

(* Mutant: "return nil" in the loop over the templates, not "continue".    *)
EndAfterOneKey ==
  /\ \E option \in CopyLoops \cup TemplateLoops : Running(option)
  /\ left = {} \/ (at = 2 /\ left # CustomKeys(kind, server))
  /\ Return
  /\ UNCHANGED draft

EndOfLoop ==
  /\ \E option \in CopyLoops \cup TemplateLoops : Running(option)
  /\ left = {}
  /\ Return
  /\ UNCHANGED draft

-----------------------------------------------------------------------------
(***************************************************************************)
(* The other options.                                                      *)
(***************************************************************************)
WithIngressRule ==
  /\ Running("WithIngressRule")
  /\ ~RulesRefused(server)
  /\ draft' = [draft EXCEPT !.rules = IngressRules(server)]
  /\ Return

(* Mutant: a value that does not parse counts as false.                    *)
WithTLSLenient ==
  /\ Running("WithTLS")
  /\ draft' = IF Terminates(server) /\ ~TLSRefused(server)
              THEN [draft EXCEPT !.tls = TLS(server)] ELSE draft
  /\ Return

WithTLS ==
  /\ Running("WithTLS")
  /\ ~TLSRefused(server)
  /\ draft' = IF Terminates(server) THEN [draft EXCEPT !.tls = TLS(server)] ELSE draft
  /\ Return

WithIngressClassName ==
  /\ Running("WithIngressClassName")
  /\ GetIngressClassName(server) # << >>
  /\ draft' = [draft EXCEPT
       !.annotations = [n \in DOMAIN @ \ {ClassAnnotation} |-> @[n]],
       !.class = GetIngressClassName(server)]
  /\ Return

WithTLSCertIssuer ==
  /\ Running("WithTLSCertIssuer")
  /\ ~TLSUnparsable(server)
  /\ draft' = IF Terminates(server)
              THEN [draft EXCEPT
                      !.annotations = Put(@, IssuerAnnotation, GetTLSCertIssuer(server))]
              ELSE draft
  /\ Return

WithHTTPRouteParentRef ==
  /\ Running("WithHTTPRouteParentRef")
  /\ ~ParentRefused(server)
  /\ draft' = [draft EXCEPT !.parent = ParentRef(server)]
  /\ Return

WithHTTPRouteRules ==
  /\ Running("WithHTTPRouteRules")
  /\ ~RulesRefused(server)
  /\ draft' = [draft EXCEPT !.hostnames = Hostnames(server), !.rules = << HTTPRouteRule(server) >>]
  /\ Return

-----------------------------------------------------------------------------
(***************************************************************************)
(* The ends of a construction.                                             *)
(***************************************************************************)
End ==
  /\ kind' = None
  /\ draft' = None
  /\ at' = 1
  /\ left' = {}
  /\ UNCHANGED server

(* The running option, or its visit of some key, returns an error.         *)
Fails ==
  \/ /\ \E option \in CopyLoops : Running(option)
     /\ \E key \in left : Suffix(key) = ""
  \/ /\ \E option \in TemplateLoops : Running(option)
     /\ \E key \in left :
          LET text == server.annotations[key]
          IN  Suffix(key) = "" \/ (IsTemplate(text) /\ ~Parses(text))
  \/ Running("WithIngressRule") /\ RulesRefused(server)
  \/ Running("WithTLS") /\ TLSRefused(server)
  \/ Running("WithIngressClassName") /\ GetIngressClassName(server) = << >>
  \/ Running("WithTLSCertIssuer") /\ TLSUnparsable(server)
  \/ Running("WithHTTPRouteParentRef") /\ ParentRefused(server)
  \/ Running("WithHTTPRouteRules") /\ RulesRefused(server)

Fail ==
  /\ Fails
  /\ refused' = refused \cup {kind}
  /\ End
  /\ UNCHANGED built

Finish ==
  /\ kind # None
  /\ at > Len(Options(kind, server))
  /\ built' = Put(built, kind, draft)
  /\ End
  /\ UNCHANGED refused

Next ==
  \/ \E k \in Kinds : Begin(k)
  \/ \E key \in left :
       \/ WithCustomServiceAnnotations(key)
       \/ WithCustomServiceAnnotationsTemplate(key)
       \/ WithCustomAnnotations(key)
       \/ WithCustomAnnotationsTemplate(key)
       \/ WithCustomHTTPRouteAnnotations(key)
       \/ WithCustomHTTPRouteAnnotationsTemplate(key)
  \/ EndOfLoop
  \/ WithIngressRule
  \/ WithTLS
  \/ WithIngressClassName
  \/ WithTLSCertIssuer
  \/ WithHTTPRouteParentRef
  \/ WithHTTPRouteRules
  \/ Fail
  \/ Finish

Spec == Init /\ [][Next]_vars

-----------------------------------------------------------------------------
(***************************************************************************)
(* Properties.                                                             *)
(***************************************************************************)
Done(k) == k \in DOMAIN built

(* Positions, keys and objects stay within what the options produce.       *)
TypeOK ==
  /\ server \in Servers
  /\ kind \in Kinds \cup {None}
  /\ kind # None => at \in 1 .. Len(Options(kind, server)) + 1
  /\ kind # None => left \subseteq CustomKeys(kind, server)
  /\ DOMAIN built \cup refused \subseteq Kinds
  /\ kind \notin DOMAIN built \cup refused

(* Whatever order the map is ranged over in, twice, an object carries the  *)
(* annotations that were declared for it: a template filled in, never      *)
(* overwritten by its raw text, the ingress class in the spec and not, as  *)
(* the TODO of WithIngressClassName warns, in an annotation too.           *)
AnnotationsAsDeclared ==
  \A k \in DOMAIN built : built[k].annotations = Declared(k, server)

(* Whether an object is refused depends on the annotations alone: not on   *)
(* the order of the map, nor on which of several errors is met first.      *)
RefusedIffInvalid ==
  /\ \A k \in refused : Invalid(k, server)
  /\ \A k \in DOMAIN built : ~Invalid(k, server)

(* White space at the ends of the items of the list, in domain mode, is    *)
(* where the options treat the same list differently.                      *)
Tidy(g) ==
  GetIngressRoutingMode(g) = "path" \/ \A item \in Range(Items(g)) : TrimSpace(item) = item

(* An Ingress that terminates TLS names exactly the hosts of its rules     *)
(* there: WithTLS and WithIngressRule split and compose the list apart.    *)
TLSCoversHosts ==
  Done("Ingress") /\ Terminates(server) /\ Tidy(server) =>
    {tls.host : tls \in Range(built["Ingress"].tls)}
      = {rule.host : rule \in Range(built["Ingress"].rules)}

(* The two router backends publish a GameServer at the same addresses.     *)
SameRoutes ==
  Done("Ingress") /\ Done("HTTPRoute") /\ Tidy(server) =>
    Range(built["Ingress"].rules)
      = {[host |-> host, path |-> rule.path, service |-> rule.service, port |-> rule.port] :
           host \in Range(built["HTTPRoute"].hostnames), rule \in Range(built["HTTPRoute"].rules)}

(* A route leads to a port that the Service of the GameServer exposes.     *)
RoutesReachService ==
  \A k \in {"Ingress", "HTTPRoute"} :
    Done("Service") /\ Done(k) =>
      \A rule \in Range(built[k].rules) :
        \E exposed \in Range(built["Service"].ports) : rule.port = exposed.port

-----------------------------------------------------------------------------
(***************************************************************************)
(* The inductive invariant behind the safety properties: what the options  *)
(* that have run have made of the draft, however they ranged over the map. *)
(***************************************************************************)

(* The keys the first loop has visited, and those the second one has.      *)
Copied    == CustomKeys(kind, server) \ (IF at = 1 THEN left ELSE {})
Templated == IF at = 1 THEN {} ELSE CustomKeys(kind, server) \ left

Issued == kind = "Ingress" /\ at > 6 /\ Terminates(server)

(* The names under which the draft has annotations.                        *)
Named ==
  ({Suffix(key) : key \in Copied}
     \ (IF kind = "Ingress" /\ at > 5 THEN {ClassAnnotation} ELSE {}))
    \cup (IF Issued THEN {IssuerAnnotation} ELSE {})

AnnotationsSoFar ==
  /\ draft.annotations = [name \in Named |-> draft.annotations[name]]
  /\ \A key \in Copied :
       Suffix(key) \in Named /\ ~(Issued /\ Suffix(key) = IssuerAnnotation) =>
         draft.annotations[Suffix(key)] =
           IF key \in Templated THEN Filled(server.annotations[key], server)
                                ELSE server.annotations[key]
  /\ Issued => draft.annotations[IssuerAnnotation] = GetTLSCertIssuer(server)

NoErrorSoFar ==
  /\ \A key \in Copied : Suffix(key) # ""
  /\ \A key \in Templated : IsTemplate(server.annotations[key]) => Parses(server.annotations[key])
  /\ kind = "Ingress" =>
       /\ at > 3 => ~RulesRefused(server)
       /\ at > 4 => ~TLSRefused(server)
       /\ at > 5 => GetIngressClassName(server) # << >>
  /\ kind = "HTTPRoute" =>
       /\ at > 3 => ~ParentRefused(server)
       /\ at > 4 => ~RulesRefused(server)

FieldsSoFar ==
  /\ DOMAIN draft = DOMAIN NewObject(kind, server)
  /\ draft.ports = NewObject(kind, server).ports
  /\ kind = "Ingress" =>
       /\ at > 3 => draft.rules = IngressRules(server)
       /\ at > 4 /\ Terminates(server) => draft.tls = TLS(server)
  /\ kind = "HTTPRoute" /\ at > 4 =>
       draft.hostnames = Hostnames(server) /\ draft.rules = << HTTPRouteRule(server) >>

(* What the objects returned say of ports, hosts and routes.               *)
FieldsBuilt ==
  /\ Done("Service") => built["Service"].ports = NewObject("Service", server).ports
  /\ Done("Ingress") =>
       /\ built["Ingress"].rules = IngressRules(server)
       /\ Terminates(server) => built["Ingress"].tls = TLS(server)
  /\ Done("HTTPRoute") =>
       /\ built["HTTPRoute"].hostnames = Hostnames(server)
       /\ built["HTTPRoute"].rules = << HTTPRouteRule(server) >>

(* A draft is determined by the position and the keys left: two orders of  *)
(* the same loop meet again in the same object, and in the same error.     *)
BuilderInv ==
  /\ TypeOK
  /\ at > 2 => left = {}
  /\ kind # None => AnnotationsSoFar /\ NoErrorSoFar /\ FieldsSoFar
  /\ AnnotationsAsDeclared
  /\ RefusedIffInvalid
  /\ FieldsBuilt

-----------------------------------------------------------------------------
(* README: "one can specify multiple domains. That will make the same game *)
(* server to be accessible through all of them."                           *)
AccessibleThroughAll ==
  Done("Ingress") =>
    {IF GetIngressRoutingMode(server) = "path"
     THEN TrimSpace(item) ELSE Subdomain(server, TrimSpace(item)) : item \in Range(Items(server))}
      = {rule.host : rule \in Range(built["Ingress"].rules)}
=============================================================================
