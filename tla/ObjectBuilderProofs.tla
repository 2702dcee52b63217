------------------------ MODULE ObjectBuilderProofs ------------------------
(***************************************************************************)
(* The safety of ObjectBuilder for any GameServers and any prefixes: the   *)
(* order in which the loops range over the annotations, and the option     *)
(* that meets an error first, are of no consequence.                       *)
(***************************************************************************)
EXTENDS ObjectBuilder, WellFoundedInduction, SequenceTheorems, TLAPS

-----------------------------------------------------------------------------
(***************************************************************************)
(* Options and their positions.                                            *)
(***************************************************************************)

(* The options of the three kinds, one at a time.                          *)
LEMMA OptionsOf ==
  ASSUME NEW g
  PROVE  /\ Options("Service", g) = << "WithCustomServiceAnnotations",
                                       "WithCustomServiceAnnotationsTemplate" >>
         /\ Options("HTTPRoute", g) = << "WithCustomHTTPRouteAnnotations",
                                         "WithCustomHTTPRouteAnnotationsTemplate",
                                         "WithHTTPRouteParentRef", "WithHTTPRouteRules" >>
         /\ Options("Ingress", g)[1] = "WithCustomAnnotations"
         /\ Options("Ingress", g)[2] = "WithCustomAnnotationsTemplate"
         /\ Options("Ingress", g)[3] = "WithIngressRule"
         /\ Options("Ingress", g)[4] = "WithTLS"
         /\ Options("Ingress", g)[5] = "WithIngressClassName"
         /\ GetTLSCertIssuer(g) # << >> => Options("Ingress", g)[6] = "WithTLSCertIssuer"
<1>. DEFINE five == << "WithCustomAnnotations", "WithCustomAnnotationsTemplate",
                       "WithIngressRule", "WithTLS", "WithIngressClassName" >>
            one  == << "WithTLSCertIssuer" >>
<1>1. Options("Service", g) = << "WithCustomServiceAnnotations",
                                 "WithCustomServiceAnnotationsTemplate" >>
  BY DEF Options
<1>2. Options("HTTPRoute", g) = << "WithCustomHTTPRouteAnnotations",
                                   "WithCustomHTTPRouteAnnotationsTemplate",
                                   "WithHTTPRouteParentRef", "WithHTTPRouteRules" >>
  BY DEF Options
<1>3. Options("Ingress", g) = IF GetTLSCertIssuer(g) # << >> THEN five \o one ELSE five \o << >>
  BY DEF Options
<1>4. five \o << >> = five
  OBVIOUS
<1>5. /\ (five \o one)[1] = "WithCustomAnnotations"
      /\ (five \o one)[2] = "WithCustomAnnotationsTemplate"
      /\ (five \o one)[3] = "WithIngressRule"
      /\ (five \o one)[4] = "WithTLS"
      /\ (five \o one)[5] = "WithIngressClassName"
      /\ (five \o one)[6] = "WithTLSCertIssuer"
  OBVIOUS
<1>6. /\ five[1] = "WithCustomAnnotations"
      /\ five[2] = "WithCustomAnnotationsTemplate"
      /\ five[3] = "WithIngressRule"
      /\ five[4] = "WithTLS"
      /\ five[5] = "WithIngressClassName"
  OBVIOUS
<1>. HIDE DEF five, one
<1>. QED BY <1>1, <1>2, <1>3, <1>4, <1>5, <1>6

(* How many there are.                                                     *)
LEMMA OptionsLen ==
  ASSUME NEW g
  PROVE  /\ Len(Options("Service", g)) = 2
         /\ Len(Options("HTTPRoute", g)) = 4
         /\ Len(Options("Ingress", g)) = IF GetTLSCertIssuer(g) # << >> THEN 6 ELSE 5
<1>. DEFINE five == << "WithCustomAnnotations", "WithCustomAnnotationsTemplate",
                       "WithIngressRule", "WithTLS", "WithIngressClassName" >>
<1>1. Options("Ingress", g) = IF GetTLSCertIssuer(g) # << >>
                              THEN five \o << "WithTLSCertIssuer" >> ELSE five \o << >>
  BY DEF Options
<1>2. Len(five \o << "WithTLSCertIssuer" >>) = 6 /\ Len(five \o << >>) = 5
  OBVIOUS
<1>3. Len(Options("Service", g)) = 2 /\ Len(Options("HTTPRoute", g)) = 4
  BY OptionsOf
<1>. HIDE DEF five
<1>. QED BY <1>1, <1>2, <1>3

(* Each option has its place.                                              *)
LEMMA RunningAt ==
  ASSUME kind \in Kinds, at \in Nat \ {0}
  PROVE  /\ (\E option \in CopyLoops : Running(option)) => at = 1
         /\ (\E option \in TemplateLoops : Running(option)) => at = 2
         /\ Running("WithIngressRule") => kind = "Ingress" /\ at = 3
         /\ Running("WithTLS") => kind = "Ingress" /\ at = 4
         /\ Running("WithIngressClassName") => kind = "Ingress" /\ at = 5
         /\ Running("WithTLSCertIssuer") =>
              kind = "Ingress" /\ at = 6 /\ GetTLSCertIssuer(server) # << >>
         /\ Running("WithHTTPRouteParentRef") => kind = "HTTPRoute" /\ at = 3
         /\ Running("WithHTTPRouteRules") => kind = "HTTPRoute" /\ at = 4
<1>1. CASE kind = "Service"
  <2>1. kind = "Service" /\ Len(Options(kind, server)) = 2
    BY <1>1, OptionsLen
  <2>2. at <= 2 => at = 1 \/ at = 2
    OBVIOUS
  <2>. QED BY <1>1, <2>1, <2>2, OptionsOf DEF Running, CopyLoops, TemplateLoops
<1>2. CASE kind = "Ingress"
  <2>1. Len(Options(kind, server)) = IF GetTLSCertIssuer(server) # << >> THEN 6 ELSE 5
    BY <1>2, OptionsLen
  <2>2. at <= 6 => at = 1 \/ at = 2 \/ at = 3 \/ at = 4 \/ at = 5 \/ at = 6
    OBVIOUS
  <2>. QED BY <1>2, <2>1, <2>2, OptionsOf DEF Running, CopyLoops, TemplateLoops
<1>3. CASE kind = "HTTPRoute"
  <2>1. Len(Options(kind, server)) = 4
    BY <1>3, OptionsLen
  <2>2. at <= 4 => at = 1 \/ at = 2 \/ at = 3 \/ at = 4
    OBVIOUS
  <2>. QED BY <1>3, <2>1, <2>2, OptionsOf DEF Running, CopyLoops, TemplateLoops
<1>. QED BY <1>1, <1>2, <1>3 DEF Kinds

-----------------------------------------------------------------------------
(***************************************************************************)
(* Annotations.                                                            *)
(***************************************************************************)

(* Two keys of the map never become one annotation of the object.          *)
LEMMA SuffixInjective ==
  ASSUME NEW k, NEW g, NEW x \in CustomKeys(k, g), NEW y \in CustomKeys(k, g),
         PrefixedOf(k)[x] = PrefixedOf(k)[y]
  PROVE  x = y
  BY PrefixAssumption DEF CustomKeys, PrefixedOf, Injective

(* An assignment to a map.                                                 *)
LEMMA PutIs ==
  ASSUME NEW a, NEW name, NEW value
  PROVE  /\ DOMAIN Put(a, name, value) = DOMAIN a \cup {name}
         /\ Put(a, name, value)[name] = value
         /\ \A n \in DOMAIN a : n # name => Put(a, name, value)[n] = a[n]
         /\ Put(a, name, value) =
              [n \in DOMAIN a \cup {name} |-> Put(a, name, value)[n]]
  BY DEF Put

(* Where a construction is, as the invariant has it.                       *)
LEMMA Position ==
  ASSUME BuilderInv, kind # None
  PROVE  /\ server \in Servers /\ kind \in Kinds
         /\ at \in Nat \ {0} /\ at <= Len(Options(kind, server)) + 1
         /\ left \subseteq CustomKeys(kind, server)
         /\ AnnotationsSoFar /\ NoErrorSoFar /\ FieldsSoFar
<1>1. kind \in Kinds /\ at \in 1 .. Len(Options(kind, server)) + 1
  BY DEF BuilderInv, TypeOK
<1>2. Len(Options(kind, server)) \in Nat
  BY <1>1, OptionsLen DEF Kinds
<1>. QED BY <1>1, <1>2 DEF BuilderInv, TypeOK

(* What has been returned is not touched while another kind is built.      *)
LEMMA ResultsStay ==
  ASSUME BuilderInv, UNCHANGED <<server, results>>
  PROVE  AnnotationsAsDeclared' /\ RefusedIffInvalid' /\ FieldsBuilt'
<1>1. UNCHANGED <<server, built, refused>>
  BY DEF results
<1>. QED BY <1>1 DEF BuilderInv, AnnotationsAsDeclared, RefusedIffInvalid, FieldsBuilt, Done

(* A new draft is empty, and all keys are to be visited.                   *)
LEMMA BeginKeepsBuilderInv ==
  ASSUME BuilderInv, NEW k \in Kinds, Begin(k)
  PROVE  BuilderInv'
<1>1. /\ kind' = k /\ at' = 1 /\ left' = CustomKeys(k, server)
      /\ draft' = NewObject(k, server) /\ UNCHANGED <<server, built, refused>>
      /\ k \notin DOMAIN built \cup refused
  BY DEF Begin, results
<1>2. TypeOK'
  <2>1. 1 \in 1 .. Len(Options(k, server)) + 1
    BY OptionsLen DEF Kinds
  <2>. QED BY <1>1, <2>1 DEF BuilderInv, TypeOK
<1>3. Copied' = {} /\ Templated' = {} /\ Issued' = FALSE /\ Named' = {}
  BY <1>1 DEF Copied, Templated, Issued, Named
<1>4. AnnotationsSoFar'
  <2>1. draft'.annotations = << >>
    BY <1>1 DEF NewObject
  <2>. QED BY <1>3, <2>1 DEF AnnotationsSoFar
<1>5. NoErrorSoFar'
  BY <1>1, <1>3 DEF NoErrorSoFar
<1>6. FieldsSoFar'
  BY <1>1 DEF FieldsSoFar
<1>7. AnnotationsAsDeclared' /\ RefusedIffInvalid' /\ FieldsBuilt'
  BY <1>1, ResultsStay DEF results
<1>. QED BY <1>1, <1>2, <1>4, <1>5, <1>6, <1>7 DEF BuilderInv

(* A visit leaves one key less, whichever it is.                           *)
LEMMA VisitIs ==
  ASSUME BuilderInv, NEW option, NEW key, Visit(option, key)
  PROVE  /\ kind # None /\ key \in left /\ key \in CustomKeys(kind, server) /\ Suffix(key) # ""
         /\ left' = left \ {key} /\ UNCHANGED <<server, kind, at, built, refused>>
         /\ TypeOK'
         /\ AnnotationsAsDeclared' /\ RefusedIffInvalid' /\ FieldsBuilt'
<1>1. /\ kind # None /\ key \in left /\ Suffix(key) # ""
      /\ left' = left \ {key} /\ UNCHANGED <<server, kind, at, built, refused>>
  BY DEF Visit, Running, results
<1>2. TypeOK' /\ key \in CustomKeys(kind, server)
  BY <1>1 DEF BuilderInv, TypeOK
<1>. QED BY <1>1, <1>2, ResultsStay DEF results

(* A draft whose annotations change has its other fields still.            *)
LEMMA FieldsStay ==
  ASSUME FieldsSoFar, NEW a, UNCHANGED <<server, kind, at>>,
         draft' = draft \/ draft' = [draft EXCEPT !.annotations = a]
  PROVE  /\ FieldsSoFar'
         /\ draft' = [draft EXCEPT !.annotations = a] => draft'.annotations = a
<1>1. DOMAIN draft = {"annotations", "ports", "rules", "hostnames", "tls", "class", "parent"}
  BY DEF FieldsSoFar, NewObject
<1>2. CASE draft' = draft
  BY <1>1, <1>2 DEF FieldsSoFar
<1>3. CASE draft' = [draft EXCEPT !.annotations = a]
  <2>1. /\ DOMAIN draft' = DOMAIN draft /\ draft'.annotations = a
        /\ draft'.ports = draft.ports /\ draft'.rules = draft.rules
        /\ draft'.hostnames = draft.hostnames /\ draft'.tls = draft.tls
    BY <1>1, <1>3
  <2>. QED BY <2>1 DEF FieldsSoFar
<1>. QED BY <1>2, <1>3

(* The first loop copies the text of a key under its own name.             *)
LEMMA CopyKeepsBuilderInv ==
  ASSUME BuilderInv, NEW option \in CopyLoops, NEW key, CopyAnnotation(option, key)
  PROVE  BuilderInv'
<1>. DEFINE text == server.annotations[key]
<1>1. /\ Visit(option, key)
      /\ draft' = [draft EXCEPT !.annotations = Put(draft.annotations, Suffix(key), text)]
  BY DEF CopyAnnotation
<1>2. /\ kind # None /\ key \in left /\ key \in CustomKeys(kind, server) /\ Suffix(key) # ""
      /\ left' = left \ {key} /\ UNCHANGED <<server, kind, at, built, refused>>
      /\ TypeOK'
      /\ AnnotationsAsDeclared' /\ RefusedIffInvalid' /\ FieldsBuilt'
  BY <1>1, VisitIs
<1>3. /\ kind \in Kinds /\ at \in Nat \ {0} /\ left \subseteq CustomKeys(kind, server)
      /\ AnnotationsSoFar /\ NoErrorSoFar /\ FieldsSoFar
  BY <1>2, Position
<1>4. at = 1 /\ at' = 1
  BY <1>1, <1>2, <1>3, RunningAt DEF Visit
<1>5. /\ Copied = CustomKeys(kind, server) \ left /\ Copied' = Copied \cup {key} /\ key \notin Copied
      /\ Templated = {} /\ Templated' = {} /\ ~Issued /\ ~Issued'
  <2>1. /\ Copied = CustomKeys(kind, server) \ left
        /\ Copied' = CustomKeys(kind, server) \ (left \ {key})
    BY <1>2, <1>4 DEF Copied
  <2>2. Templated = {} /\ Templated' = {} /\ ~Issued /\ ~Issued'
    BY <1>4 DEF Templated, Issued
  <2>. QED BY <1>2, <2>1, <2>2
<1>6. \A x : Suffix(x)' = Suffix(x)
  BY <1>2 DEF Suffix
<1>7. Named = {Suffix(x) : x \in Copied} /\ Named' = Named \cup {Suffix(key)}
  <2>1. Named = {Suffix(x) : x \in Copied} /\ Named' = {Suffix(x) : x \in Copied'}
    BY <1>4, <1>5, <1>6 DEF Named
  <2>. QED BY <1>5, <2>1
<1>8. FieldsSoFar' /\ draft'.annotations = Put(draft.annotations, Suffix(key), text)
  BY <1>1, <1>2, <1>3, FieldsStay
<1>9. \A x \in Copied : Suffix(x) # Suffix(key)
  BY <1>2, <1>5, SuffixInjective DEF Suffix
<1>10. DOMAIN draft.annotations = Named
  BY <1>3 DEF AnnotationsSoFar
<1>11. AnnotationsSoFar'
  <2>1. /\ draft'.annotations = [n \in Named' |-> draft'.annotations[n]]
        /\ draft'.annotations[Suffix(key)] = text
        /\ \A n \in Named : n # Suffix(key) => draft'.annotations[n] = draft.annotations[n]
    <3>. DEFINE new == Put(draft.annotations, Suffix(key), text)
    <3>1. /\ new = [n \in Named \cup {Suffix(key)} |-> new[n]] /\ new[Suffix(key)] = text
          /\ \A n \in Named : n # Suffix(key) => new[n] = draft.annotations[n]
      BY <1>10, Zenon DEF Put
    <3>. HIDE DEF new
    <3>2. draft'.annotations = new
      BY <1>8 DEF new
    <3>. QED BY <1>7, <3>1, <3>2
  <2>2. \A x \in Copied : draft.annotations[Suffix(x)] = server.annotations[x]
    BY <1>3, <1>5, <1>7 DEF AnnotationsSoFar
  <2>3. \A x \in Copied' : draft'.annotations[Suffix(x)] = server.annotations[x]
    BY <1>5, <1>7, <1>9, <2>1, <2>2
  <2>. QED BY <1>2, <1>5, <1>6, <2>1, <2>3 DEF AnnotationsSoFar
<1>12. NoErrorSoFar'
  BY <1>2, <1>3, <1>4, <1>5, <1>6 DEF NoErrorSoFar
<1>. QED BY <1>2, <1>4, <1>8, <1>11, <1>12 DEF BuilderInv

(* The second loop replaces the text of a key by what it is filled to, and *)
(* no other.                                                               *)
LEMMA FillKeepsBuilderInv ==
  ASSUME BuilderInv, NEW option \in TemplateLoops, NEW key, FillTemplate(option, key)
  PROVE  BuilderInv'
<1>. DEFINE text == server.annotations[key]
            parsed == Execute(text, server)
            fill == IsTemplate(text) /\ parsed # << >>
<1>1. /\ Visit(option, key)
      /\ IsTemplate(text) => Parses(text)
      /\ draft' = IF fill THEN [draft EXCEPT !.annotations = Put(draft.annotations, Suffix(key), parsed)]
                  ELSE draft
  BY DEF FillTemplate
<1>2. /\ kind # None /\ key \in left /\ key \in CustomKeys(kind, server) /\ Suffix(key) # ""
      /\ left' = left \ {key} /\ UNCHANGED <<server, kind, at, built, refused>>
      /\ TypeOK'
      /\ AnnotationsAsDeclared' /\ RefusedIffInvalid' /\ FieldsBuilt'
  BY <1>1, VisitIs
<1>3. /\ kind \in Kinds /\ at \in Nat \ {0} /\ left \subseteq CustomKeys(kind, server)
      /\ AnnotationsSoFar /\ NoErrorSoFar /\ FieldsSoFar
  BY <1>2, Position
<1>4. at = 2 /\ at' = 2
  BY <1>1, <1>2, <1>3, RunningAt DEF Visit
<1>5. at # 1 /\ at' # 1
  BY <1>4
<1>6. /\ Copied = CustomKeys(kind, server) /\ Copied' = Copied
      /\ Templated = CustomKeys(kind, server) \ left
      /\ Templated' = Templated \cup {key} /\ key \notin Templated
      /\ ~Issued /\ ~Issued'
  <2>1. /\ Copied = CustomKeys(kind, server) \ {} /\ Copied' = CustomKeys(kind, server) \ {}
    BY <1>2, <1>5, Zenon DEF Copied
  <2>2. /\ Templated = CustomKeys(kind, server) \ left
        /\ Templated' = CustomKeys(kind, server) \ (left \ {key})
    BY <1>2, <1>5, Zenon DEF Templated
  <2>3. ~Issued /\ ~Issued'
    BY <1>4 DEF Issued
  <2>. QED BY <1>2, <2>1, <2>3, <2>2
<1>7. \A x : Suffix(x)' = Suffix(x)
  BY <1>2 DEF Suffix
<1>8. Named = {Suffix(x) : x \in Copied} /\ Named' = Named
  <2>1. Named = {Suffix(x) : x \in Copied} /\ Named' = {Suffix(x) : x \in Copied'}
    BY <1>4, <1>6, <1>7 DEF Named
  <2>. QED BY <1>6, <2>1
<1>9. /\ FieldsSoFar'
      /\ draft'.annotations = IF fill THEN Put(draft.annotations, Suffix(key), parsed)
                              ELSE draft.annotations
  BY <1>1, <1>2, <1>3, FieldsStay
<1>10. \A x \in Copied : x # key => Suffix(x) # Suffix(key)
  BY <1>2, <1>6, SuffixInjective DEF Suffix
<1>11. DOMAIN draft.annotations = Named /\ Suffix(key) \in Named
  BY <1>2, <1>3, <1>6, <1>8 DEF AnnotationsSoFar
<1>12. draft.annotations[Suffix(key)] = text
  BY <1>2, <1>3, <1>6, <1>11 DEF AnnotationsSoFar
<1>13. AnnotationsSoFar'
  <2>1. /\ draft'.annotations = [n \in Named |-> draft'.annotations[n]]
        /\ draft'.annotations[Suffix(key)] = Filled(text, server)
        /\ \A n \in Named : n # Suffix(key) => draft'.annotations[n] = draft.annotations[n]
    <3>1. CASE fill
      <4>1. draft'.annotations = Put(draft.annotations, Suffix(key), parsed)
        BY <1>9, <3>1
      <4>2. Filled(text, server) = parsed /\ Named \cup {Suffix(key)} = Named
        BY <1>11, <3>1 DEF Filled
      <4>. DEFINE new == Put(draft.annotations, Suffix(key), parsed)
      <4>3. /\ new = [n \in Named \cup {Suffix(key)} |-> new[n]] /\ new[Suffix(key)] = parsed
            /\ \A n \in Named : n # Suffix(key) => new[n] = draft.annotations[n]
        BY <1>11, Zenon DEF Put
      <4>. HIDE DEF new
      <4>4. draft'.annotations = new
        BY <4>1 DEF new
      <4>. QED BY <4>2, <4>3, <4>4
    <3>2. CASE ~fill
      <4>1. draft'.annotations = draft.annotations
        BY <1>9, <3>2
      <4>2. Filled(text, server) = text
        BY <3>2 DEF Filled
      <4>. QED BY <1>3, <1>12, <4>1, <4>2 DEF AnnotationsSoFar
    <3>. QED BY <3>1, <3>2
  <2>2. \A x \in Copied :
          draft.annotations[Suffix(x)] =
            IF x \in Templated THEN Filled(server.annotations[x], server) ELSE server.annotations[x]
    BY <1>3, <1>6, <1>8 DEF AnnotationsSoFar
  <2>3. \A x \in Copied :
          draft'.annotations[Suffix(x)] =
            IF x \in Templated' THEN Filled(server.annotations[x], server) ELSE server.annotations[x]
    <3>. TAKE x \in Copied
    <3>1. CASE x = key
      BY <1>6, <2>1, <3>1
    <3>2. CASE x # key
      <4>1. draft'.annotations[Suffix(x)] = draft.annotations[Suffix(x)]
        BY <1>8, <1>10, <2>1, <3>2
      <4>2. x \in Templated' <=> x \in Templated
        BY <1>6, <3>2
      <4>. QED BY <2>2, <4>1, <4>2
    <3>. QED BY <3>1, <3>2
  <2>. QED BY <1>2, <1>6, <1>7, <1>8, <2>1, <2>3 DEF AnnotationsSoFar
<1>14. NoErrorSoFar'
  BY <1>1, <1>2, <1>3, <1>4, <1>6, <1>7 DEF NoErrorSoFar
<1>. QED BY <1>2, <1>4, <1>9, <1>13, <1>14 DEF BuilderInv

-----------------------------------------------------------------------------
(***************************************************************************)
(* From one option to the next.                                            *)
(***************************************************************************)

(* An option that returns nil moves the construction by one position.      *)
LEMMA ReturnIs ==
  ASSUME BuilderInv, kind # None, at <= Len(Options(kind, server)), Return
  PROVE  /\ at' = at + 1 /\ left' = (IF at = 1 THEN CustomKeys(kind, server) ELSE {})
         /\ UNCHANGED <<server, kind, built, refused>>
         /\ TypeOK' /\ (at' > 2 => left' = {})
         /\ AnnotationsAsDeclared' /\ RefusedIffInvalid' /\ FieldsBuilt'
<1>1. /\ at' = at + 1 /\ left' = (IF at = 1 THEN CustomKeys(kind, server) ELSE {})
      /\ UNCHANGED <<server, kind, built, refused>>
  BY DEF Return, results
<1>2. /\ kind \in Kinds /\ at \in Nat \ {0}
  BY Position
<1>3. Len(Options(kind, server)) \in Nat
  BY <1>2, OptionsLen DEF Kinds
<1>4. at' \in 1 .. Len(Options(kind, server)) + 1
  BY <1>1, <1>2, <1>3
<1>5. TypeOK'
  BY <1>1, <1>4 DEF BuilderInv, TypeOK
<1>6. at' > 2 => left' = {}
  BY <1>1, <1>2
<1>. QED BY <1>1, <1>5, <1>6, ResultsStay DEF results

(* The last of the two loops over, all keys are visited, and stay so.      *)
LEMMA AllVisited ==
  ASSUME kind # None, at \in Nat, at > 1, left = {},
         at' = at + 1, left' = {}, UNCHANGED <<server, kind>>
  PROVE  /\ Copied = CustomKeys(kind, server) /\ Copied' = CustomKeys(kind, server)
         /\ Templated = CustomKeys(kind, server) /\ Templated' = CustomKeys(kind, server)
         /\ \A x : Suffix(x)' = Suffix(x)
<1>1. at # 1 /\ at' # 1
  OBVIOUS
<1>2. Copied = CustomKeys(kind, server) \ {} /\ Copied' = CustomKeys(kind, server) \ {}
  BY <1>1, Zenon DEF Copied
<1>3. Templated = CustomKeys(kind, server) \ {} /\ Templated' = CustomKeys(kind, server) \ {}
  BY <1>1, Zenon DEF Templated
<1>4. \A x : Suffix(x)' = Suffix(x)
  BY DEF Suffix
<1>5. CustomKeys(kind, server) \ {} = CustomKeys(kind, server)
  OBVIOUS
<1>. QED BY <1>2, <1>3, <1>4, <1>5

(* An option that leaves the annotations alone leaves them as they are to  *)
(* be.                                                                     *)
LEMMA AnnotationsStay ==
  ASSUME AnnotationsSoFar, draft'.annotations = draft.annotations, UNCHANGED server,
         Copied' = Copied, Templated' = Templated, Named' = Named, Issued' <=> Issued,
         \A x : Suffix(x)' = Suffix(x)
  PROVE  AnnotationsSoFar'
  BY DEF AnnotationsSoFar

(* Both loops end with every key visited.                                  *)
LEMMA EndOfLoopKeepsBuilderInv ==
  ASSUME BuilderInv, EndOfLoop
  PROVE  BuilderInv'
<1>1. /\ kind # None /\ at <= Len(Options(kind, server)) /\ left = {} /\ Return /\ draft' = draft
      /\ (\E option \in CopyLoops : Running(option)) \/ (\E option \in TemplateLoops : Running(option))
  BY DEF EndOfLoop, Running
<1>2. /\ kind \in Kinds /\ at \in Nat \ {0}
      /\ AnnotationsSoFar /\ NoErrorSoFar /\ FieldsSoFar
  BY <1>1, Position
<1>3. at = 1 \/ at = 2
  BY <1>1, <1>2, RunningAt
<1>4. /\ at' = at + 1 /\ left' = (IF at = 1 THEN CustomKeys(kind, server) ELSE {})
      /\ UNCHANGED <<server, kind, built, refused>>
      /\ TypeOK' /\ (at' > 2 => left' = {})
      /\ AnnotationsAsDeclared' /\ RefusedIffInvalid' /\ FieldsBuilt'
  BY <1>1, ReturnIs
<1>5. \A x : Suffix(x)' = Suffix(x)
  BY <1>4 DEF Suffix
<1>6. Copied' = Copied /\ Templated' = Templated
  <2>1. CASE at = 1
    <3>1. at' = 2 /\ at' # 1
      BY <1>4, <2>1
    <3>2. Copied = CustomKeys(kind, server) \ {} /\ Templated = {}
      BY <1>1, <2>1 DEF Copied, Templated
    <3>3. /\ Copied' = CustomKeys(kind, server) \ {}
          /\ Templated' = CustomKeys(kind, server) \ CustomKeys(kind, server)
      BY <1>4, <2>1, <3>1, Zenon DEF Copied, Templated
    <3>. QED BY <3>2, <3>3
  <2>2. CASE at = 2
    <3>1. at > 1 /\ left' = {}
      BY <1>4, <2>2
    <3>. QED BY <1>1, <1>2, <1>4, <3>1, AllVisited
  <2>. QED BY <1>3, <2>1, <2>2
<1>7. ~Issued /\ ~Issued'
  BY <1>3, <1>4 DEF Issued
<1>8. Named' = Named
  <2>1. Named = {Suffix(x) : x \in Copied} /\ Named' = {Suffix(x) : x \in Copied'}
    BY <1>3, <1>4, <1>5, <1>7 DEF Named
  <2>. QED BY <1>6, <2>1
<1>9. AnnotationsSoFar'
  BY <1>1, <1>2, <1>4, <1>5, <1>6, <1>7, <1>8, AnnotationsStay
<1>10. NoErrorSoFar'
  <2>1. ~(at' > 3) /\ ~(at' > 4) /\ ~(at' > 5)
    BY <1>3, <1>4
  <2>2. /\ \A key \in Copied : Suffix(key) # ""
        /\ \A key \in Templated :
             IsTemplate(server.annotations[key]) => Parses(server.annotations[key])
    BY <1>2 DEF NoErrorSoFar
  <2>. QED BY <1>4, <1>5, <1>6, <2>1, <2>2 DEF NoErrorSoFar
<1>11. FieldsSoFar'
  BY <1>1, <1>2, <1>3, <1>4 DEF FieldsSoFar
<1>. QED BY <1>4, <1>9, <1>10, <1>11 DEF BuilderInv

-----------------------------------------------------------------------------
(***************************************************************************)
(* The options after the loops.                                            *)
(***************************************************************************)
Fields == {"annotations", "ports", "rules", "hostnames", "tls", "class", "parent"}

(* What is common to them: every key has been visited, without an error.   *)
LEMMA LateStep ==
  ASSUME BuilderInv, kind # None, at > 2, at <= Len(Options(kind, server)), Return
  PROVE  /\ at' = at + 1 /\ left' = {} /\ UNCHANGED <<server, kind, built, refused>>
         /\ TypeOK' /\ AnnotationsAsDeclared' /\ RefusedIffInvalid' /\ FieldsBuilt'
         /\ Copied' = Copied /\ Templated' = Templated /\ Copied = CustomKeys(kind, server)
         /\ \A x : Suffix(x)' = Suffix(x)
         /\ \A key \in Copied' : Suffix(key)' # ""
         /\ \A key \in Templated' :
              IsTemplate(server.annotations[key]) => Parses(server.annotations[key])
         /\ DOMAIN draft = Fields /\ DOMAIN NewObject(kind, server) = Fields
<1>1. /\ kind \in Kinds /\ at \in Nat \ {0}
      /\ AnnotationsSoFar /\ NoErrorSoFar /\ FieldsSoFar /\ left = {}
  BY Position DEF BuilderInv
<1>2. /\ at' = at + 1 /\ left' = (IF at = 1 THEN CustomKeys(kind, server) ELSE {})
      /\ UNCHANGED <<server, kind, built, refused>>
      /\ TypeOK' /\ AnnotationsAsDeclared' /\ RefusedIffInvalid' /\ FieldsBuilt'
  BY ReturnIs
<1>3. left' = {} /\ at > 1
  BY <1>1, <1>2
<1>4. /\ Copied = CustomKeys(kind, server) /\ Copied' = CustomKeys(kind, server)
      /\ Templated = CustomKeys(kind, server) /\ Templated' = CustomKeys(kind, server)
      /\ \A x : Suffix(x)' = Suffix(x)
  BY <1>1, <1>2, <1>3, AllVisited
<1>5. /\ \A key \in Copied : Suffix(key) # ""
      /\ \A key \in Templated :
           IsTemplate(server.annotations[key]) => Parses(server.annotations[key])
  BY <1>1 DEF NoErrorSoFar
<1>6. DOMAIN draft = Fields /\ DOMAIN NewObject(kind, server) = Fields
  BY <1>1 DEF FieldsSoFar, NewObject, Fields
<1>. QED BY <1>2, <1>3, <1>4, <1>5, <1>6

(* The options that do not touch the annotations keep them.                *)
LEMMA LateAnnotationsStay ==
  ASSUME BuilderInv, kind # None, at > 2, at <= Len(Options(kind, server)), Return,
         draft'.annotations = draft.annotations,
         kind # "Ingress" \/ at < 5 \/ (at = 6 /\ ~Terminates(server))
  PROVE  AnnotationsSoFar'
<1>1. /\ at' = at + 1 /\ UNCHANGED <<server, kind>>
      /\ Copied' = Copied /\ Templated' = Templated
      /\ \A x : Suffix(x)' = Suffix(x)
  BY LateStep
<1>2. AnnotationsSoFar /\ at \in Nat
  BY Position
<1>3. Issued' <=> Issued
  BY <1>1, <1>2 DEF Issued
<1>4. (kind' = "Ingress" /\ at' > 5) <=> (kind = "Ingress" /\ at > 5)
  BY <1>1, <1>2
<1>5. Named' = Named
  BY <1>1, <1>3, <1>4 DEF Named
<1>. QED BY <1>1, <1>2, <1>3, <1>5, AnnotationsStay

(* WithIngressRule.                                                        *)
LEMMA RuleKeepsBuilderInv ==
  ASSUME BuilderInv, WithIngressRule
  PROVE  BuilderInv'
<1>1. /\ kind # None /\ at <= Len(Options(kind, server)) /\ Running("WithIngressRule")
      /\ ~RulesRefused(server) /\ Return
      /\ draft' = [draft EXCEPT !.rules = IngressRules(server)]
  BY DEF WithIngressRule, Running
<1>2. /\ kind \in Kinds /\ at \in Nat \ {0}
      /\ AnnotationsSoFar /\ NoErrorSoFar /\ FieldsSoFar
  BY <1>1, Position
<1>3. kind = "Ingress" /\ at = 3 /\ at > 2
  BY <1>1, <1>2, RunningAt
<1>4. /\ at' = at + 1 /\ left' = {} /\ UNCHANGED <<server, kind, built, refused>>
      /\ DOMAIN draft = Fields /\ DOMAIN NewObject(kind, server) = Fields
  BY <1>1, <1>3, LateStep
<1>5. TypeOK' /\ AnnotationsAsDeclared' /\ RefusedIffInvalid' /\ FieldsBuilt'
  BY <1>1, <1>3, LateStep
<1>6. /\ \A key \in Copied' : Suffix(key)' # ""
      /\ \A key \in Templated' :
           IsTemplate(server.annotations[key]) => Parses(server.annotations[key])
  BY <1>1, <1>3, LateStep
<1>7. /\ DOMAIN draft' = Fields /\ draft'.annotations = draft.annotations
      /\ draft'.ports = draft.ports /\ draft'.rules = IngressRules(server)
  BY <1>1, <1>4 DEF Fields
<1>8. AnnotationsSoFar'
  BY <1>1, <1>3, <1>7, LateAnnotationsStay
<1>9. at' = 4 /\ kind' = "Ingress" /\ ~(at' > 4) /\ ~(at' > 5)
  BY <1>3, <1>4
<1>10. NoErrorSoFar'
  BY <1>1, <1>4, <1>6, <1>9, Zenon DEF NoErrorSoFar
<1>11. FieldsSoFar'
  BY <1>2, <1>4, <1>7, <1>9 DEF FieldsSoFar
<1>. QED BY <1>4, <1>5, <1>8, <1>10, <1>11 DEF BuilderInv

(* WithTLS: nothing is to be terminated, or every item has its host.       *)
LEMMA TLSKeepsBuilderInv ==
  ASSUME BuilderInv, WithTLS
  PROVE  BuilderInv'
<1>1. /\ kind # None /\ at <= Len(Options(kind, server)) /\ Running("WithTLS")
      /\ ~TLSRefused(server) /\ Return
      /\ draft' = IF Terminates(server) THEN [draft EXCEPT !.tls = TLS(server)] ELSE draft
  BY DEF WithTLS, Running
<1>2. /\ kind \in Kinds /\ at \in Nat \ {0}
      /\ AnnotationsSoFar /\ NoErrorSoFar /\ FieldsSoFar
  BY <1>1, Position
<1>3. kind = "Ingress" /\ at = 4 /\ at > 2
  BY <1>1, <1>2, RunningAt
<1>4. /\ at' = at + 1 /\ left' = {} /\ UNCHANGED <<server, kind, built, refused>>
      /\ DOMAIN draft = Fields /\ DOMAIN NewObject(kind, server) = Fields
  BY <1>1, <1>3, LateStep
<1>5. TypeOK' /\ AnnotationsAsDeclared' /\ RefusedIffInvalid' /\ FieldsBuilt'
  BY <1>1, <1>3, LateStep
<1>6. /\ \A key \in Copied' : Suffix(key)' # ""
      /\ \A key \in Templated' :
           IsTemplate(server.annotations[key]) => Parses(server.annotations[key])
  BY <1>1, <1>3, LateStep
<1>7. /\ DOMAIN draft' = Fields /\ draft'.annotations = draft.annotations
      /\ draft'.ports = draft.ports /\ draft'.rules = draft.rules
      /\ Terminates(server) => draft'.tls = TLS(server)
  BY <1>1, <1>4 DEF Fields
<1>8. AnnotationsSoFar'
  BY <1>1, <1>3, <1>7, LateAnnotationsStay
<1>9. at' = 5 /\ kind' = "Ingress" /\ ~(at' > 5) /\ at > 3
  BY <1>3, <1>4
<1>10. ~RulesRefused(server) /\ draft.rules = IngressRules(server)
  BY <1>2, <1>3, <1>9, Zenon DEF NoErrorSoFar, FieldsSoFar
<1>11. NoErrorSoFar'
  BY <1>1, <1>4, <1>6, <1>9, <1>10, Zenon DEF NoErrorSoFar
<1>12. FieldsSoFar'
  BY <1>2, <1>4, <1>7, <1>9, <1>10 DEF FieldsSoFar
<1>. QED BY <1>4, <1>5, <1>8, <1>11, <1>12 DEF BuilderInv

(* WithHTTPRouteParentRef.                                                 *)
LEMMA ParentKeepsBuilderInv ==
  ASSUME BuilderInv, WithHTTPRouteParentRef
  PROVE  BuilderInv'
<1>1. /\ kind # None /\ at <= Len(Options(kind, server)) /\ Running("WithHTTPRouteParentRef")
      /\ ~ParentRefused(server) /\ Return
      /\ draft' = [draft EXCEPT !.parent = ParentRef(server)]
  BY DEF WithHTTPRouteParentRef, Running
<1>2. /\ kind \in Kinds /\ at \in Nat \ {0}
      /\ AnnotationsSoFar /\ NoErrorSoFar /\ FieldsSoFar
  BY <1>1, Position
<1>3. kind = "HTTPRoute" /\ at = 3 /\ at > 2
  BY <1>1, <1>2, RunningAt
<1>4. /\ at' = at + 1 /\ left' = {} /\ UNCHANGED <<server, kind, built, refused>>
      /\ DOMAIN draft = Fields /\ DOMAIN NewObject(kind, server) = Fields
  BY <1>1, <1>3, LateStep
<1>5. TypeOK' /\ AnnotationsAsDeclared' /\ RefusedIffInvalid' /\ FieldsBuilt'
  BY <1>1, <1>3, LateStep
<1>6. /\ \A key \in Copied' : Suffix(key)' # ""
      /\ \A key \in Templated' :
           IsTemplate(server.annotations[key]) => Parses(server.annotations[key])
  BY <1>1, <1>3, LateStep
<1>7. DOMAIN draft' = Fields /\ draft'.annotations = draft.annotations /\ draft'.ports = draft.ports
  BY <1>1, <1>4 DEF Fields
<1>8. AnnotationsSoFar'
  BY <1>1, <1>3, <1>7, LateAnnotationsStay
<1>9. at' = 4 /\ kind' = "HTTPRoute" /\ ~(at' > 4)
  BY <1>3, <1>4
<1>10. NoErrorSoFar'
  BY <1>1, <1>4, <1>6, <1>9, Zenon DEF NoErrorSoFar
<1>11. FieldsSoFar'
  BY <1>2, <1>4, <1>7, <1>9 DEF FieldsSoFar
<1>. QED BY <1>4, <1>5, <1>8, <1>10, <1>11 DEF BuilderInv

(* WithHTTPRouteRules.                                                     *)
LEMMA HTTPRulesKeepBuilderInv ==
  ASSUME BuilderInv, WithHTTPRouteRules
  PROVE  BuilderInv'
<1>1. /\ kind # None /\ at <= Len(Options(kind, server)) /\ Running("WithHTTPRouteRules")
      /\ ~RulesRefused(server) /\ Return
      /\ draft' = [draft EXCEPT !.hostnames = Hostnames(server), !.rules = << HTTPRouteRule(server) >>]
  BY DEF WithHTTPRouteRules, Running
<1>2. /\ kind \in Kinds /\ at \in Nat \ {0}
      /\ AnnotationsSoFar /\ NoErrorSoFar /\ FieldsSoFar
  BY <1>1, Position
<1>3. kind = "HTTPRoute" /\ at = 4 /\ at > 2
  BY <1>1, <1>2, RunningAt
<1>4. /\ at' = at + 1 /\ left' = {} /\ UNCHANGED <<server, kind, built, refused>>
      /\ DOMAIN draft = Fields /\ DOMAIN NewObject(kind, server) = Fields
  BY <1>1, <1>3, LateStep
<1>5. TypeOK' /\ AnnotationsAsDeclared' /\ RefusedIffInvalid' /\ FieldsBuilt'
  BY <1>1, <1>3, LateStep
<1>6. /\ \A key \in Copied' : Suffix(key)' # ""
      /\ \A key \in Templated' :
           IsTemplate(server.annotations[key]) => Parses(server.annotations[key])
  BY <1>1, <1>3, LateStep
<1>7. /\ DOMAIN draft' = Fields /\ draft'.annotations = draft.annotations
      /\ draft'.ports = draft.ports
      /\ draft'.hostnames = Hostnames(server) /\ draft'.rules = << HTTPRouteRule(server) >>
  BY <1>1, <1>4 DEF Fields
<1>8. AnnotationsSoFar'
  BY <1>1, <1>3, <1>7, LateAnnotationsStay
<1>9. at' = 5 /\ kind' = "HTTPRoute" /\ at > 3
  BY <1>3, <1>4
<1>10. ~ParentRefused(server)
  BY <1>2, <1>3, <1>9, Zenon DEF NoErrorSoFar
<1>11. NoErrorSoFar'
  BY <1>1, <1>4, <1>6, <1>9, <1>10, Zenon DEF NoErrorSoFar
<1>12. FieldsSoFar'
  BY <1>2, <1>4, <1>7, <1>9 DEF FieldsSoFar
<1>. QED BY <1>4, <1>5, <1>8, <1>11, <1>12 DEF BuilderInv

(* WithIngressClassName: the class leaves the annotations.                 *)
LEMMA ClassKeepsBuilderInv ==
  ASSUME BuilderInv, WithIngressClassName
  PROVE  BuilderInv'
<1>. DEFINE a == draft.annotations
            kept == [n \in DOMAIN a \ {ClassAnnotation} |-> a[n]]
<1>1. /\ kind # None /\ at <= Len(Options(kind, server)) /\ Running("WithIngressClassName")
      /\ GetIngressClassName(server) # << >> /\ Return
      /\ draft' = [draft EXCEPT !.annotations = kept, !.class = GetIngressClassName(server)]
  BY DEF WithIngressClassName, Running
<1>2. /\ kind \in Kinds /\ at \in Nat \ {0}
      /\ AnnotationsSoFar /\ NoErrorSoFar /\ FieldsSoFar
  BY <1>1, Position
<1>3. kind = "Ingress" /\ at = 5 /\ at > 2
  BY <1>1, <1>2, RunningAt
<1>4. /\ at' = at + 1 /\ left' = {} /\ UNCHANGED <<server, kind, built, refused>>
      /\ DOMAIN draft = Fields /\ DOMAIN NewObject(kind, server) = Fields
  BY <1>1, <1>3, LateStep
<1>5. TypeOK' /\ AnnotationsAsDeclared' /\ RefusedIffInvalid' /\ FieldsBuilt'
  BY <1>1, <1>3, LateStep
<1>6. /\ \A key \in Copied' : Suffix(key)' # ""
      /\ \A key \in Templated' :
           IsTemplate(server.annotations[key]) => Parses(server.annotations[key])
  BY <1>1, <1>3, LateStep
<1>7. /\ DOMAIN draft' = Fields /\ draft'.annotations = kept
      /\ draft'.ports = draft.ports /\ draft'.rules = draft.rules /\ draft'.tls = draft.tls
  BY <1>1, <1>4 DEF Fields
<1>8. at' = 6 /\ kind' = "Ingress" /\ at > 3 /\ at > 4
  BY <1>3, <1>4
<1>9. ~(at > 5) /\ at' > 5 /\ ~(at > 6) /\ ~(at' > 6)
  BY <1>3, <1>8
<1>10. AnnotationsSoFar'
  <2>1. /\ Copied' = Copied /\ Templated' = Templated /\ \A x : Suffix(x)' = Suffix(x)
    BY <1>1, <1>3, LateStep
  <2>2. ~Issued /\ ~Issued'
    BY <1>9 DEF Issued
  <2>3. Named = {Suffix(x) : x \in Copied}
    BY <1>9, <2>2 DEF Named
  <2>4. Named' = {Suffix(x) : x \in Copied} \ {ClassAnnotation}
    BY <1>8, <1>9, <2>1, <2>2 DEF Named
  <2>5. DOMAIN a = Named
    BY <1>2 DEF AnnotationsSoFar
  <2>6. /\ draft'.annotations = [n \in Named' |-> draft'.annotations[n]]
        /\ \A n \in Named' : draft'.annotations[n] = a[n]
    BY <1>7, <2>3, <2>4, <2>5
  <2>7. \A x \in Copied : a[Suffix(x)] =
          IF x \in Templated THEN Filled(server.annotations[x], server) ELSE server.annotations[x]
    BY <1>2, <2>2, <2>3 DEF AnnotationsSoFar
  <2>. QED BY <1>4, <2>1, <2>2, <2>6, <2>7 DEF AnnotationsSoFar
<1>11. ~RulesRefused(server) /\ ~TLSRefused(server)
  BY <1>2, <1>3, <1>8, Zenon DEF NoErrorSoFar
<1>12. NoErrorSoFar'
  BY <1>1, <1>4, <1>6, <1>8, <1>11, Zenon DEF NoErrorSoFar
<1>13. draft.rules = IngressRules(server) /\ (Terminates(server) => draft.tls = TLS(server))
  BY <1>2, <1>3, <1>8, Zenon DEF FieldsSoFar
<1>14. FieldsSoFar'
  BY <1>2, <1>4, <1>7, <1>8, <1>13 DEF FieldsSoFar
<1>. QED BY <1>4, <1>5, <1>10, <1>12, <1>14 DEF BuilderInv

(* WithTLSCertIssuer: the issuer takes its place among the annotations, or *)
(* that of a custom annotation of the same name.                           *)
LEMMA IssuerKeepsBuilderInv ==
  ASSUME BuilderInv, WithTLSCertIssuer
  PROVE  BuilderInv'
<1>. DEFINE a == draft.annotations
            new == Put(a, IssuerAnnotation, GetTLSCertIssuer(server))
<1>1. /\ kind # None /\ at <= Len(Options(kind, server)) /\ Running("WithTLSCertIssuer")
      /\ Return
      /\ draft' = IF Terminates(server) THEN [draft EXCEPT !.annotations = new] ELSE draft
  BY DEF WithTLSCertIssuer, Running
<1>2. /\ kind \in Kinds /\ at \in Nat \ {0}
      /\ AnnotationsSoFar /\ NoErrorSoFar /\ FieldsSoFar
  BY <1>1, Position
<1>3. kind = "Ingress" /\ at = 6 /\ at > 2
  BY <1>1, <1>2, RunningAt
<1>4. /\ at' = at + 1 /\ left' = {} /\ UNCHANGED <<server, kind, built, refused>>
      /\ DOMAIN draft = Fields /\ DOMAIN NewObject(kind, server) = Fields
  BY <1>1, <1>3, LateStep
<1>5. TypeOK' /\ AnnotationsAsDeclared' /\ RefusedIffInvalid' /\ FieldsBuilt'
  BY <1>1, <1>3, LateStep
<1>6. /\ \A key \in Copied' : Suffix(key)' # ""
      /\ \A key \in Templated' :
           IsTemplate(server.annotations[key]) => Parses(server.annotations[key])
  BY <1>1, <1>3, LateStep
<1>. HIDE DEF new
<1>7. /\ DOMAIN draft' = Fields
      /\ draft'.annotations = IF Terminates(server) THEN new ELSE a
      /\ draft'.ports = draft.ports /\ draft'.rules = draft.rules /\ draft'.tls = draft.tls
  BY <1>1, <1>4 DEF Fields
<1>8. at' = 7 /\ kind' = "Ingress" /\ at > 3 /\ at > 4 /\ at > 5
  BY <1>3, <1>4
<1>9. at' > 5 /\ ~(at > 6) /\ at' > 6
  BY <1>3, <1>8
<1>10. AnnotationsSoFar'
  <2>1. CASE ~Terminates(server)
    BY <1>1, <1>3, <1>7, <2>1, LateAnnotationsStay
  <2>2. CASE Terminates(server)
    <3>1. /\ Copied' = Copied /\ Templated' = Templated /\ \A x : Suffix(x)' = Suffix(x)
      BY <1>1, <1>3, LateStep
    <3>2. ~Issued /\ Issued'
      BY <1>4, <1>8, <1>9, <2>2 DEF Issued
    <3>3. Named = {Suffix(x) : x \in Copied} \ {ClassAnnotation}
      BY <1>3, <1>8, <3>2 DEF Named
    <3>4. Named' = Named \cup {IssuerAnnotation}
      <4>1. Named' = ({Suffix(x) : x \in Copied} \ {ClassAnnotation}) \cup {IssuerAnnotation}
        BY <1>8, <1>9, <3>1, <3>2 DEF Named
      <4>. QED BY <3>3, <4>1
    <3>5. DOMAIN a = Named
      BY <1>2 DEF AnnotationsSoFar
    <3>6. /\ new = [n \in Named \cup {IssuerAnnotation} |-> new[n]]
          /\ new[IssuerAnnotation] = GetTLSCertIssuer(server)
          /\ \A n \in Named : n # IssuerAnnotation => new[n] = a[n]
      BY <3>5, Zenon DEF Put, new
    <3>7. draft'.annotations = new
      BY <1>7, <2>2
    <3>8. \A x \in Copied : Suffix(x) \in Named => a[Suffix(x)] =
            IF x \in Templated THEN Filled(server.annotations[x], server) ELSE server.annotations[x]
      BY <1>2, <3>2 DEF AnnotationsSoFar
    <3>9. draft'.annotations = [n \in Named' |-> draft'.annotations[n]]
      BY <3>4, <3>6, <3>7
    <3>10. ASSUME NEW x \in Copied, Suffix(x) \in Named', Suffix(x) # IssuerAnnotation
           PROVE  draft'.annotations[Suffix(x)] =
                    IF x \in Templated THEN Filled(server.annotations[x], server)
                                       ELSE server.annotations[x]
      BY <3>4, <3>6, <3>7, <3>8, <3>10
    <3>. QED BY <1>4, <3>1, <3>2, <3>6, <3>7, <3>9, <3>10 DEF AnnotationsSoFar
  <2>. QED BY <2>1, <2>2
<1>11. ~RulesRefused(server) /\ ~TLSRefused(server) /\ GetIngressClassName(server) # << >>
  BY <1>2, <1>3, <1>8, Zenon DEF NoErrorSoFar
<1>12. NoErrorSoFar'
  BY <1>1, <1>4, <1>6, <1>8, <1>11, Zenon DEF NoErrorSoFar
<1>13. draft.rules = IngressRules(server) /\ (Terminates(server) => draft.tls = TLS(server))
  BY <1>2, <1>3, <1>8, Zenon DEF FieldsSoFar
<1>14. FieldsSoFar'
  BY <1>2, <1>4, <1>7, <1>8, <1>13 DEF FieldsSoFar
<1>. QED BY <1>4, <1>5, <1>10, <1>12, <1>14 DEF BuilderInv

-----------------------------------------------------------------------------
(***************************************************************************)
(* The ends of a construction.                                             *)
(***************************************************************************)

(* Every error is one that the annotations alone call for.                 *)
LEMMA FailsInvalid ==
  ASSUME BuilderInv, kind # None, Fails
  PROVE  Invalid(kind, server)
<1>1. /\ kind \in Kinds /\ at \in Nat \ {0} /\ left \subseteq CustomKeys(kind, server)
  BY Position
<1>2. /\ Running("WithIngressRule") => kind = "Ingress"
      /\ Running("WithTLS") => kind = "Ingress"
      /\ Running("WithIngressClassName") => kind = "Ingress"
      /\ Running("WithTLSCertIssuer") => kind = "Ingress"
      /\ Running("WithHTTPRouteParentRef") => kind = "HTTPRoute"
      /\ Running("WithHTTPRouteRules") => kind = "HTTPRoute"
  BY <1>1, RunningAt
<1>3. CASE \E key \in left :
        Suffix(key) = "" \/ (IsTemplate(server.annotations[key]) /\ ~Parses(server.annotations[key]))
  BY <1>1, <1>3 DEF Invalid, Suffix
<1>4. CASE \/ Running("WithIngressRule") /\ RulesRefused(server)
           \/ Running("WithHTTPRouteRules") /\ RulesRefused(server)
  BY <1>2, <1>4 DEF Invalid
<1>5. CASE \/ Running("WithTLS") /\ TLSRefused(server)
           \/ Running("WithTLSCertIssuer") /\ TLSUnparsable(server)
           \/ Running("WithIngressClassName") /\ GetIngressClassName(server) = << >>
  BY <1>2, <1>5 DEF Invalid, TLSRefused
<1>6. CASE Running("WithHTTPRouteParentRef") /\ ParentRefused(server)
  BY <1>2, <1>6 DEF Invalid
<1>. QED BY <1>3, <1>4, <1>5, <1>6, Zenon DEF Fails

(* The option that fails does not matter, only that one does.              *)
LEMMA FailKeepsBuilderInv ==
  ASSUME BuilderInv, Fail
  PROVE  BuilderInv'
<1>1. /\ Fails /\ refused' = refused \cup {kind} /\ UNCHANGED <<server, built>>
      /\ kind' = None /\ at' = 1
  BY DEF Fail, End
<1>2. kind # None
  BY <1>1 DEF Fails, Running
<1>3. kind \in Kinds /\ Invalid(kind, server)
  BY <1>1, <1>2, Position, FailsInvalid
<1>4. TypeOK'
  BY <1>1, <1>3, NoneAssumption DEF BuilderInv, TypeOK
<1>5. AnnotationsAsDeclared' /\ FieldsBuilt'
  BY <1>1 DEF BuilderInv, AnnotationsAsDeclared, FieldsBuilt, Done
<1>6. RefusedIffInvalid'
  BY <1>1, <1>3 DEF BuilderInv, RefusedIffInvalid
<1>. QED BY <1>1, <1>4, <1>5, <1>6 DEF BuilderInv

(* An object whose options have all returned nil.                          *)
LEMMA FinishedDraft ==
  ASSUME BuilderInv, kind # None, at > Len(Options(kind, server))
  PROVE  /\ kind = "Service" => at = 3
         /\ kind = "HTTPRoute" => at = 5
         /\ kind = "Ingress" => at = IF GetTLSCertIssuer(server) # << >> THEN 7 ELSE 6
         /\ Copied = CustomKeys(kind, server) /\ Templated = CustomKeys(kind, server)
<1>1. /\ kind \in Kinds /\ at \in Nat \ {0} /\ at <= Len(Options(kind, server)) + 1
  BY Position
<1>2. /\ kind = "Service" => at = 3
      /\ kind = "HTTPRoute" => at = 5
      /\ kind = "Ingress" => at = IF GetTLSCertIssuer(server) # << >> THEN 7 ELSE 6
  <2>1. CASE kind = "Service"
    <3>1. Len(Options(kind, server)) = 2
      BY <2>1, OptionsLen
    <3>2. at = 3
      BY <1>1, <3>1
    <3>. QED BY <2>1, <3>2
  <2>2. CASE kind = "HTTPRoute"
    <3>1. Len(Options(kind, server)) = 4
      BY <2>2, OptionsLen
    <3>2. at = 5
      BY <1>1, <3>1
    <3>. QED BY <2>2, <3>2
  <2>3. CASE kind = "Ingress"
    <3>1. Len(Options(kind, server)) = IF GetTLSCertIssuer(server) # << >> THEN 6 ELSE 5
      BY <2>3, OptionsLen
    <3>2. at = IF GetTLSCertIssuer(server) # << >> THEN 7 ELSE 6
      BY <1>1, <3>1
    <3>. QED BY <2>3, <3>2
  <2>. QED BY <1>1, <2>1, <2>2, <2>3 DEF Kinds
<1>3. at > 2
  BY <1>1, <1>2 DEF Kinds
<1>4. at # 1 /\ left = {}
  BY <1>1, <1>3 DEF BuilderInv
<1>5. Copied = CustomKeys(kind, server) \ {} /\ Templated = CustomKeys(kind, server) \ {}
  BY <1>4, Zenon DEF Copied, Templated
<1>. QED BY <1>2, <1>5

(* Its annotations are the declared ones.                                  *)
LEMMA FinishedAnnotations ==
  ASSUME BuilderInv, kind # None, at > Len(Options(kind, server))
  PROVE  draft.annotations = Declared(kind, server)
<1>. DEFINE custom == {PrefixedOf(kind)[key] : key \in CustomKeys(kind, server)}
            kept   == IF kind = "Ingress" THEN custom \ {ClassAnnotation} ELSE custom
            issued == kind = "Ingress" /\ Terminates(server) /\ GetTLSCertIssuer(server) # << >>
            names  == kept \cup (IF issued THEN {IssuerAnnotation} ELSE {})
            text(name) == server.annotations[CHOOSE key \in CustomKeys(kind, server) :
                                               PrefixedOf(kind)[key] = name]
<1>1. /\ kind = "Ingress" => at = IF GetTLSCertIssuer(server) # << >> THEN 7 ELSE 6
      /\ Copied = CustomKeys(kind, server) /\ Templated = CustomKeys(kind, server)
  BY FinishedDraft
<1>2. AnnotationsSoFar
  BY Position
<1>3. Issued <=> issued
  BY <1>1 DEF Issued
<1>4. kind = "Ingress" => at > 5
  BY <1>1
<1>5. Named = names
  <2>1. {Suffix(key) : key \in Copied} = custom
    BY <1>1 DEF Suffix
  <2>. QED BY <1>3, <1>4, <2>1 DEF Named
<1>6. ASSUME NEW name \in names
      PROVE  draft.annotations[name] = IF issued /\ name = IssuerAnnotation
                                       THEN GetTLSCertIssuer(server) ELSE Filled(text(name), server)
  <2>1. CASE issued /\ name = IssuerAnnotation
    BY <1>2, <1>3, <2>1 DEF AnnotationsSoFar
  <2>2. CASE ~(issued /\ name = IssuerAnnotation)
    <3>1. name \in custom
      BY <2>2
    <3>2. PICK key \in CustomKeys(kind, server) : PrefixedOf(kind)[key] = name
      BY <3>1
    <3>3. text(name) = server.annotations[key]
      <4>. DEFINE chosen == CHOOSE x \in CustomKeys(kind, server) : PrefixedOf(kind)[x] = name
      <4>1. chosen \in CustomKeys(kind, server) /\ PrefixedOf(kind)[chosen] = name
        BY <3>2
      <4>. HIDE DEF chosen
      <4>2. chosen = key
        BY <3>2, <4>1, SuffixInjective
      <4>. QED BY <4>2 DEF chosen
    <3>4. draft.annotations[name] = Filled(server.annotations[key], server)
      BY <1>1, <1>2, <1>3, <1>5, <2>2, <3>2 DEF AnnotationsSoFar, Suffix
    <3>. QED BY <2>2, <3>3, <3>4
  <2>. QED BY <2>1, <2>2
<1>7. draft.annotations = [name \in names |-> draft.annotations[name]]
  BY <1>2, <1>5 DEF AnnotationsSoFar
<1>8. Declared(kind, server) =
        [name \in names |-> IF issued /\ name = IssuerAnnotation
                            THEN GetTLSCertIssuer(server) ELSE Filled(text(name), server)]
  BY DEF Declared
<1>. HIDE DEF names, issued, text
<1>. QED BY <1>6, <1>7, <1>8

(* It is one that can be built, with the fields the annotations ask for.   *)
LEMMA FinishedFields ==
  ASSUME BuilderInv, kind # None, at > Len(Options(kind, server))
  PROVE  /\ ~Invalid(kind, server)
         /\ draft.ports = NewObject(kind, server).ports
         /\ kind = "Ingress" =>
              /\ draft.rules = IngressRules(server)
              /\ Terminates(server) => draft.tls = TLS(server)
         /\ kind = "HTTPRoute" =>
              draft.hostnames = Hostnames(server) /\ draft.rules = << HTTPRouteRule(server) >>
<1>1. /\ kind \in Kinds /\ NoErrorSoFar /\ FieldsSoFar
  BY Position
<1>2. /\ kind = "HTTPRoute" => at = 5
      /\ kind = "Ingress" => at = IF GetTLSCertIssuer(server) # << >> THEN 7 ELSE 6
      /\ Copied = CustomKeys(kind, server) /\ Templated = CustomKeys(kind, server)
  BY FinishedDraft
<1>3. /\ kind = "HTTPRoute" => at > 3 /\ at > 4
      /\ kind = "Ingress" => at > 3 /\ at > 4 /\ at > 5
  BY <1>2
<1>4. /\ kind = "Ingress" =>
           ~RulesRefused(server) /\ ~TLSRefused(server) /\ GetIngressClassName(server) # << >>
      /\ kind = "HTTPRoute" => ~ParentRefused(server) /\ ~RulesRefused(server)
  BY <1>1, <1>3, Zenon DEF NoErrorSoFar
<1>5. \A key \in CustomKeys(kind, server) :
        /\ PrefixedOf(kind)[key] # ""
        /\ IsTemplate(server.annotations[key]) => Parses(server.annotations[key])
  BY <1>1, <1>2, Zenon DEF NoErrorSoFar, Suffix
<1>6. ~Invalid(kind, server)
  BY <1>1, <1>4, <1>5 DEF Invalid, Kinds
<1>. QED BY <1>1, <1>3, <1>6, Zenon DEF FieldsSoFar

(* The object is returned.                                                 *)
LEMMA FinishKeepsBuilderInv ==
  ASSUME BuilderInv, Finish
  PROVE  BuilderInv'
<1>1. /\ kind # None /\ at > Len(Options(kind, server))
      /\ built' = Put(built, kind, draft) /\ UNCHANGED <<server, refused>>
      /\ kind' = None /\ at' = 1
  BY DEF Finish, End
<1>2. kind \in Kinds
  BY <1>1, Position
<1>3. /\ DOMAIN built' = DOMAIN built \cup {kind}
      /\ built'[kind] = draft
      /\ \A n \in DOMAIN built : n # kind => built'[n] = built[n]
  BY <1>1, Zenon DEF Put
<1>4. TypeOK'
  BY <1>1, <1>2, <1>3, NoneAssumption DEF BuilderInv, TypeOK
<1>5. draft.annotations = Declared(kind, server)
  BY <1>1, FinishedAnnotations
<1>6. /\ ~Invalid(kind, server)
      /\ draft.ports = NewObject(kind, server).ports
      /\ kind = "Ingress" =>
           /\ draft.rules = IngressRules(server)
           /\ Terminates(server) => draft.tls = TLS(server)
      /\ kind = "HTTPRoute" =>
           draft.hostnames = Hostnames(server) /\ draft.rules = << HTTPRouteRule(server) >>
  BY <1>1, FinishedFields
<1>7. AnnotationsAsDeclared'
  BY <1>1, <1>3, <1>5 DEF BuilderInv, AnnotationsAsDeclared
<1>8. RefusedIffInvalid'
  BY <1>1, <1>3, <1>6 DEF BuilderInv, RefusedIffInvalid
<1>9. FieldsBuilt'
  <2>1. FieldsBuilt
    BY DEF BuilderInv
  <2>2. Done("Service")' => built'["Service"].ports = NewObject("Service", server).ports
    BY <1>3, <1>6, <2>1, Zenon DEF FieldsBuilt, Done
  <2>3. Done("Ingress")' => /\ built'["Ingress"].rules = IngressRules(server)
                            /\ Terminates(server) => built'["Ingress"].tls = TLS(server)
    BY <1>3, <1>6, <2>1, Zenon DEF FieldsBuilt, Done
  <2>4. Done("HTTPRoute")' => /\ built'["HTTPRoute"].hostnames = Hostnames(server)
                              /\ built'["HTTPRoute"].rules = << HTTPRouteRule(server) >>
    BY <1>3, <1>6, <2>1, Zenon DEF FieldsBuilt, Done
  <2>. QED BY <1>1, <2>2, <2>3, <2>4, Zenon DEF FieldsBuilt
<1>. QED BY <1>1, <1>4, <1>7, <1>8, <1>9 DEF BuilderInv

-----------------------------------------------------------------------------
(***************************************************************************)
(* The invariant and the properties it carries.                            *)
(***************************************************************************)

(* Before the first construction there is nothing to say.                  *)
LEMMA InitBuilderInv == Init => BuilderInv
<1>. SUFFICES ASSUME Init PROVE BuilderInv
  OBVIOUS
<1>1. server \in Servers /\ kind = None /\ at = 1 /\ built = << >> /\ refused = {}
  BY DEF Init
<1>2. DOMAIN built = {}
  BY <1>1
<1>. QED BY <1>1, <1>2 DEF BuilderInv, TypeOK, AnnotationsAsDeclared, RefusedIffInvalid,
                           FieldsBuilt, Done

(* An iteration of one of the six loops.                                   *)
LEMMA LoopKeepsBuilderInv ==
  ASSUME BuilderInv, NEW key,
         \/ WithCustomServiceAnnotations(key)
         \/ WithCustomServiceAnnotationsTemplate(key)
         \/ WithCustomAnnotations(key)
         \/ WithCustomAnnotationsTemplate(key)
         \/ WithCustomHTTPRouteAnnotations(key)
         \/ WithCustomHTTPRouteAnnotationsTemplate(key)
  PROVE  BuilderInv'
<1>1. CASE \/ WithCustomServiceAnnotations(key)
           \/ WithCustomAnnotations(key)
           \/ WithCustomHTTPRouteAnnotations(key)
  <2>1. PICK option \in CopyLoops : CopyAnnotation(option, key)
    BY <1>1, Zenon DEF WithCustomServiceAnnotations, WithCustomAnnotations,
                       WithCustomHTTPRouteAnnotations, CopyLoops
  <2>. QED BY <2>1, CopyKeepsBuilderInv
<1>2. CASE \/ WithCustomServiceAnnotationsTemplate(key)
           \/ WithCustomAnnotationsTemplate(key)
           \/ WithCustomHTTPRouteAnnotationsTemplate(key)
  <2>1. PICK option \in TemplateLoops : FillTemplate(option, key)
    BY <1>2, Zenon DEF WithCustomServiceAnnotationsTemplate, WithCustomAnnotationsTemplate,
                       WithCustomHTTPRouteAnnotationsTemplate, TemplateLoops
  <2>. QED BY <2>1, FillKeepsBuilderInv
<1>. QED BY <1>1, <1>2

(* Every step keeps the invariant.                                         *)
LEMMA NextBuilderInv ==
  ASSUME BuilderInv, [Next]_vars
  PROVE  BuilderInv'
<1>1. CASE \E k \in Kinds : Begin(k)
  BY <1>1, BeginKeepsBuilderInv
<1>2. ASSUME NEW key \in left,
             \/ WithCustomServiceAnnotations(key)
             \/ WithCustomServiceAnnotationsTemplate(key)
             \/ WithCustomAnnotations(key)
             \/ WithCustomAnnotationsTemplate(key)
             \/ WithCustomHTTPRouteAnnotations(key)
             \/ WithCustomHTTPRouteAnnotationsTemplate(key)
      PROVE  BuilderInv'
  BY <1>2, LoopKeepsBuilderInv
<1>3. CASE EndOfLoop
  BY <1>3, EndOfLoopKeepsBuilderInv
<1>4. CASE WithIngressRule
  BY <1>4, RuleKeepsBuilderInv
<1>5. CASE WithTLS
  BY <1>5, TLSKeepsBuilderInv
<1>6. CASE WithIngressClassName
  BY <1>6, ClassKeepsBuilderInv
<1>7. CASE WithTLSCertIssuer
  BY <1>7, IssuerKeepsBuilderInv
<1>8. CASE WithHTTPRouteParentRef
  BY <1>8, ParentKeepsBuilderInv
<1>9. CASE WithHTTPRouteRules
  BY <1>9, HTTPRulesKeepBuilderInv
<1>10. CASE Fail
  BY <1>10, FailKeepsBuilderInv
<1>11. CASE Finish
  BY <1>11, FinishKeepsBuilderInv
<1>12. CASE UNCHANGED vars
  <2>1. UNCHANGED <<server, kind, at, left, draft, built, refused>>
    BY <1>12 DEF vars, results
  <2>2. TypeOK' /\ (at' > 2 => left' = {})
    BY <2>1 DEF BuilderInv, TypeOK
  <2>3. AnnotationsAsDeclared' /\ RefusedIffInvalid' /\ FieldsBuilt'
    BY <2>1, ResultsStay DEF results
  <2>4. /\ Copied' = Copied /\ Templated' = Templated /\ \A x : Suffix(x)' = Suffix(x)
    BY <2>1 DEF Copied, Templated, Suffix
  <2>5. (Issued' <=> Issued) /\ Named' = Named
    BY <2>1, <2>4 DEF Issued, Named
  <2>6. AnnotationsSoFar => AnnotationsSoFar'
    BY <2>1, <2>4, <2>5, AnnotationsStay
  <2>7. NoErrorSoFar => NoErrorSoFar'
    BY <2>1, <2>4 DEF NoErrorSoFar
  <2>8. FieldsSoFar => FieldsSoFar'
    BY <2>1 DEF FieldsSoFar
  <2>. QED BY <2>1, <2>2, <2>3, <2>6, <2>7, <2>8 DEF BuilderInv
<1>. QED BY <1>1, <1>2, <1>3, <1>4, <1>5, <1>6, <1>7, <1>8, <1>9, <1>10, <1>11, <1>12 DEF Next

(* However the maps are ranged over, a draft is what its position and the  *)
(* keys left make it, for any GameServers and any prefixes.                *)
THEOREM BuilderInvariance == Spec => []BuilderInv
<1>. QED BY InitBuilderInv, NextBuilderInv, PTL DEF Spec

(* Positions, keys and objects have their types.                           *)
THEOREM BuilderTypes == Spec => []TypeOK
<1>1. BuilderInv => TypeOK
  BY DEF BuilderInv
<1>. QED BY <1>1, BuilderInvariance, PTL

(* The order of the maps does not show in the annotations of an object.    *)
THEOREM MapOrderIsNoMatter == Spec => []AnnotationsAsDeclared
<1>1. BuilderInv => AnnotationsAsDeclared
  BY DEF BuilderInv
<1>. QED BY <1>1, BuilderInvariance, PTL

(* Nor does it decide whether the object is refused.                       *)
THEOREM ErrorsAreDeclared == Spec => []RefusedIffInvalid
<1>1. BuilderInv => RefusedIffInvalid
  BY DEF BuilderInv
<1>. QED BY <1>1, BuilderInvariance, PTL

(* A route of either kind leads to the port of the Service.                *)
THEOREM RoutesLeadToService == Spec => []RoutesReachService
<1>1. ASSUME BuilderInv PROVE RoutesReachService
  <2>. SUFFICES ASSUME NEW k \in {"Ingress", "HTTPRoute"}, Done("Service"), Done(k),
                       NEW rule \in Range(built[k].rules)
                PROVE  \E exposed \in Range(built["Service"].ports) : rule.port = exposed.port
    BY DEF RoutesReachService
  <2>1. FieldsBuilt
    BY <1>1 DEF BuilderInv
  <2>. DEFINE exposed == [port |-> GetGameServerPort(server),
                          target |-> GetGameServerContainerPort(server)]
  <2>2. built["Service"].ports = << exposed >>
    BY <2>1 DEF FieldsBuilt, NewObject
  <2>3. exposed \in Range(built["Service"].ports)
    <3>1. 1 \in DOMAIN << exposed >> /\ << exposed >>[1] = exposed
      OBVIOUS
    <3>. QED BY <2>2, <3>1 DEF Range
  <2>4. rule.port = GetGameServerPort(server)
    <3>1. CASE k = "Ingress"
      <4>1. built["Ingress"].rules = IngressRules(server)
        BY <2>1, <3>1 DEF FieldsBuilt
      <4>2. PICK i \in DOMAIN IngressRules(server) : rule = IngressRules(server)[i]
        BY <3>1, <4>1 DEF Range
      <4>. QED BY <4>2 DEF IngressRules, newIngressRule
    <3>2. CASE k = "HTTPRoute"
      <4>1. built["HTTPRoute"].rules = << HTTPRouteRule(server) >>
        BY <2>1, <3>2 DEF FieldsBuilt
      <4>2. rule = HTTPRouteRule(server)
        BY <3>2, <4>1 DEF Range
      <4>. QED BY <4>2 DEF HTTPRouteRule
    <3>. QED BY <3>1, <3>2
  <2>5. rule.port = exposed.port
    BY <2>4
  <2>. QED BY <2>3, <2>5
<1>. QED BY <1>1, BuilderInvariance, PTL

-----------------------------------------------------------------------------
(***************************************************************************)
(* Hosts: what the three options make of the same list.                    *)
(***************************************************************************)

(* Every set of naturals that is not empty has a least element.            *)
LEMMA LeastNatural ==
  ASSUME NEW S, S \subseteq Nat, S # {}
  PROVE  \E x \in S : \A y \in S : x <= y
<1>1. PICK x \in S : \A y \in S : ~(<<y, x>> \in OpToRel(<, Nat))
  BY WFMin, NatLessThanWellFounded
<1>2. \A y \in S : ~(y < x)
  BY <1>1 DEF OpToRel
<1>. QED BY <1>2

(* A bounded one has a greatest element too.                               *)
LEMMA GreatestBounded ==
  ASSUME NEW n \in Nat, NEW S, S \subseteq 1 .. n, S # {}
  PROVE  \E x \in S : \A y \in S : x >= y
<1>. DEFINE gaps == {n - x : x \in S}
<1>1. gaps \subseteq Nat /\ gaps # {}
  <2>1. \A x \in S : n - x \in Nat
    OBVIOUS
  <2>. QED BY <2>1
<1>2. PICK m \in gaps : \A y \in gaps : m <= y
  <2>. HIDE DEF gaps
  <2>. QED BY <1>1, LeastNatural
<1>3. PICK x \in S : m = n - x
  OBVIOUS
<1>4. \A y \in S : n - x <= n - y
  BY <1>2, <1>3
<1>5. \A y \in S : x >= y
  BY <1>4
<1>. QED BY <1>5

(* The ends of a set of positions.                                         *)
LEMMA MinMaxIn ==
  ASSUME NEW n \in Nat, NEW S, S \subseteq 1 .. n, S # {}
  PROVE  /\ Min(S) \in S /\ \A y \in S : Min(S) <= y
         /\ Max(S) \in S /\ \A y \in S : Max(S) >= y
<1>1. \E x \in S : \A y \in S : x <= y
  <2>1. S \subseteq Nat
    OBVIOUS
  <2>. QED BY <2>1, LeastNatural
<1>2. \E x \in S : \A y \in S : x >= y
  BY GreatestBounded
<1>. QED BY <1>1, <1>2, Zenon DEF Min, Max

(* A text with no blank at either end is left alone.                       *)
LEMMA TrimTight ==
  ASSUME NEW S, NEW t \in Seq(S), t # << >>, t[1] # Blank, t[Len(t)] # Blank
  PROVE  TrimSpace(t) = t
<1>. DEFINE ink == {i \in DOMAIN t : t[i] # Blank}
<1>1. Len(t) \in Nat /\ Len(t) >= 1 /\ DOMAIN t = 1 .. Len(t)
  BY EmptySeq
<1>2. 1 \in ink /\ Len(t) \in ink /\ ink \subseteq 1 .. Len(t) /\ ink # {}
  BY <1>1
<1>3. TrimSpace(t) = SubSeq(t, Min(ink), Max(ink))
  BY <1>2 DEF TrimSpace
<1>. HIDE DEF ink
<1>4. /\ Min(ink) \in ink /\ \A y \in ink : Min(ink) <= y
      /\ Max(ink) \in ink /\ \A y \in ink : Max(ink) >= y
  BY <1>1, <1>2, MinMaxIn
<1>5. Min(ink) = 1 /\ Max(ink) = Len(t)
  <2>1. Min(ink) \in 1 .. Len(t) /\ Max(ink) \in 1 .. Len(t)
    BY <1>2, <1>4
  <2>2. Min(ink) <= 1 /\ Max(ink) >= Len(t)
    BY <1>2, <1>4
  <2>. QED BY <1>1, <2>1, <2>2
<1>6. SubSeq(t, 1, Len(t)) = t
  BY SubSeqFull
<1>. QED BY <1>3, <1>5, <1>6

(* A text that TrimSpace leaves alone is empty or ends without a blank.    *)
LEMMA TrimmedEnd ==
  ASSUME NEW S, NEW t \in Seq(S), TrimSpace(t) = t, t # << >>
  PROVE  t[Len(t)] # Blank
<1>. DEFINE ink == {i \in DOMAIN t : t[i] # Blank}
<1>1. Len(t) \in Nat /\ DOMAIN t = 1 .. Len(t) /\ ink \subseteq 1 .. Len(t)
  OBVIOUS
<1>2. ink # {}
  BY DEF TrimSpace
<1>3. t = SubSeq(t, Min(ink), Max(ink))
  BY <1>2 DEF TrimSpace
<1>4. Max(ink) \in ink => t[Max(ink)] # Blank
  OBVIOUS
<1>. HIDE DEF ink
<1>5. Min(ink) \in ink /\ Max(ink) \in ink /\ Min(ink) <= Max(ink)
  BY <1>1, <1>2, MinMaxIn
<1>. DEFINE a == Min(ink)
            b == Max(ink)
<1>. HIDE DEF a, b
<1>6. a \in 1 .. Len(t) /\ b \in 1 .. Len(t) /\ a <= b /\ t = SubSeq(t, a, b)
  BY <1>1, <1>3, <1>5 DEF a, b
<1>7. Len(SubSeq(t, a, b)) = b - a + 1
  BY <1>1, <1>6
<1>8. b = Len(t)
  <2>1. Len(t) = b - a + 1
    BY <1>6, <1>7
  <2>2. a \in Nat /\ a >= 1 /\ b \in Nat /\ b <= Len(t)
    BY <1>6
  <2>. QED BY <1>1, <2>1, <2>2
<1>. QED BY <1>4, <1>5, <1>8 DEF b

(* Nor does it change the host made of such a text.                        *)
LEMMA TrimSubdomain ==
  ASSUME NEW g \in Servers, NEW item \in Seq(STRING), TrimSpace(item) = item
  PROVE  TrimSpace(Subdomain(g, item)) = Subdomain(g, item)
<1>. DEFINE Tokens == STRING \cup {"."}
            t == <<g.name, ".">> \o item
<1>1. g.name \in STRING /\ g.name # Blank
  BY ServersAssumption
<1>2. t \in Seq(Tokens) /\ Len(t) = Len(item) + 2 /\ t[1] = g.name /\ t[2] = "."
  <2>. DEFINE head == <<g.name, ".">>
  <2>1. head \in Seq(Tokens) /\ Len(head) = 2 /\ head[1] = g.name /\ head[2] = "."
    BY <1>1
  <2>2. item \in Seq(Tokens) /\ Len(item) \in Nat
    OBVIOUS
  <2>. HIDE DEF head, Tokens
  <2>3. /\ head \o item \in Seq(Tokens) /\ Len(head \o item) = 2 + Len(item)
        /\ \A i \in 1 .. 2 + Len(item) :
             (head \o item)[i] = IF i <= 2 THEN head[i] ELSE item[i - 2]
    <3>1. /\ head \o item \in Seq(Tokens) /\ Len(head \o item) = Len(head) + Len(item)
          /\ \A i \in 1 .. Len(head) + Len(item) :
               (head \o item)[i] = IF i <= Len(head) THEN head[i] ELSE item[i - Len(head)]
      BY <2>1, <2>2, ConcatProperties, Zenon
    <3>. QED BY <2>1, <3>1
  <2>4. (head \o item)[1] = head[1] /\ (head \o item)[2] = head[2]
    BY <2>2, <2>3
  <2>. QED BY <2>1, <2>2, <2>3, <2>4 DEF head
<1>3. t # << >> /\ t[1] # Blank
  BY <1>1, <1>2
<1>4. t[Len(t)] # Blank
  <2>1. CASE item = << >>
    <3>1. Len(t) = 2
      BY <1>2, <2>1
    <3>. QED BY <1>2, <3>1 DEF Blank
  <2>2. CASE item # << >>
    <3>1. item[Len(item)] # Blank
      BY <2>2, TrimmedEnd
    <3>2. Len(item) \in Nat /\ Len(item) >= 1
      BY <2>2, EmptySeq
    <3>3. t[Len(item) + 2] = item[Len(item)]
      BY <1>1, <3>2
    <3>. QED BY <1>2, <3>1, <3>3
  <2>. QED BY <2>1, <2>2
<1>. HIDE DEF t, Tokens
<1>5. TrimSpace(t) = t
  BY <1>2, <1>3, <1>4, TrimTight
<1>. QED BY <1>5 DEF t, Subdomain

(* The items of a list that is not refused are texts.                      *)
LEMMA ItemsAreTexts ==
  ASSUME NEW g \in Servers, ~RulesRefused(g)
  PROVE  Items(g) \in Seq(Seq(STRING))
<1>1. HasAnnotation(g, ListKey(g)) /\ g.annotations[ListKey(g)] # << >>
  BY DEF RulesRefused, Text
<1>2. ListKey(g) \in DOMAIN g.annotations \cap {IngressDomain, IngressFQDN}
  BY <1>1 DEF ListKey, HasAnnotation
<1>. QED BY <1>1, <1>2, ServersAssumption DEF Items, Split

(* On a tidy list the rules and the TLS of an Ingress and the hostnames of *)
(* an HTTPRoute agree, item by item.                                       *)
LEMMA SameHosts ==
  ASSUME NEW g \in Servers, ~RulesRefused(g), Tidy(g), NEW i \in DOMAIN Items(g)
  PROVE  /\ IngressRules(g)[i] = [host |-> Hostnames(g)[i], path |-> Path(g),
                                  service |-> g.name, port |-> GetGameServerPort(g)]
         /\ TLS(g)[i].host = Hostnames(g)[i]
<1>1. Items(g)[i] \in Seq(STRING)
  BY ItemsAreTexts
<1>2. CASE GetIngressRoutingMode(g) = "path"
  BY <1>2 DEF IngressRules, newIngressRule, TLS, Hostnames
<1>3. CASE GetIngressRoutingMode(g) # "path"
  <2>1. TrimSpace(Items(g)[i]) = Items(g)[i]
    BY <1>3 DEF Tidy, Range
  <2>2. TrimSpace(Subdomain(g, Items(g)[i])) = Subdomain(g, Items(g)[i])
    BY <1>1, <2>1, TrimSubdomain
  <2>. QED BY <1>3, <2>1, <2>2 DEF IngressRules, newIngressRule, TLS, Hostnames
<1>. QED BY <1>2, <1>3

(* An Ingress is built from a list that is not refused.                    *)
LEMMA BuiltFromList ==
  ASSUME BuilderInv, NEW k \in {"Ingress", "HTTPRoute"}, Done(k)
  PROVE  server \in Servers /\ ~RulesRefused(server)
<1>1. ~Invalid(k, server)
  BY DEF BuilderInv, RefusedIffInvalid, Done
<1>. QED BY <1>1 DEF BuilderInv, TypeOK, Invalid

(* The hosts of the TLS and those of the rules of an Ingress are the same  *)
(* whenever the items of the list have no blanks at their ends or the mode *)
(* is path.                                                                *)
THEOREM TLSHasTheHosts == Spec => []TLSCoversHosts
<1>1. ASSUME BuilderInv PROVE TLSCoversHosts
  <2>. SUFFICES ASSUME Done("Ingress"), Terminates(server), Tidy(server)
                PROVE  {tls.host : tls \in Range(built["Ingress"].tls)}
                         = {rule.host : rule \in Range(built["Ingress"].rules)}
    BY DEF TLSCoversHosts
  <2>. DEFINE rules == IngressRules(server)
              tlss  == TLS(server)
              names == {Hostnames(server)[i] : i \in DOMAIN Items(server)}
  <2>1. built["Ingress"].rules = rules /\ built["Ingress"].tls = tlss
    BY <1>1 DEF BuilderInv, FieldsBuilt
  <2>2. server \in Servers /\ ~RulesRefused(server)
    BY <1>1, BuiltFromList
  <2>3. DOMAIN rules = DOMAIN Items(server) /\ DOMAIN tlss = DOMAIN Items(server)
    BY DEF IngressRules, TLS
  <2>4. \A i \in DOMAIN Items(server) :
          rules[i].host = Hostnames(server)[i] /\ tlss[i].host = Hostnames(server)[i]
    <3>. TAKE i \in DOMAIN Items(server)
    <3>1. /\ rules[i] = [host |-> Hostnames(server)[i], path |-> Path(server),
                         service |-> server.name, port |-> GetGameServerPort(server)]
          /\ tlss[i].host = Hostnames(server)[i]
      BY <2>2, SameHosts
    <3>. HIDE DEF rules, tlss
    <3>. QED BY <3>1
  <2>. HIDE DEF rules, tlss
  <2>5. {rule.host : rule \in Range(rules)} = names
    BY <2>3, <2>4 DEF Range
  <2>6. {tls.host : tls \in Range(tlss)} = names
    BY <2>3, <2>4 DEF Range
  <2>. QED BY <2>1, <2>5, <2>6
<1>. QED BY <1>1, BuilderInvariance, PTL

(* The two router backends publish a GameServer at the same addresses.     *)
THEOREM BackendsAgree == Spec => []SameRoutes
<1>1. ASSUME BuilderInv PROVE SameRoutes
  <2>. DEFINE address(host, rule) ==
                [host |-> host, path |-> rule.path, service |-> rule.service, port |-> rule.port]
              one == HTTPRouteRule(server)
  <2>. SUFFICES ASSUME Done("Ingress"), Done("HTTPRoute"), Tidy(server)
                PROVE  Range(built["Ingress"].rules) =
                         {address(host, rule) : host \in Range(built["HTTPRoute"].hostnames),
                                                rule \in Range(built["HTTPRoute"].rules)}
    BY DEF SameRoutes
  <2>1. /\ built["Ingress"].rules = IngressRules(server)
        /\ built["HTTPRoute"].hostnames = Hostnames(server)
        /\ built["HTTPRoute"].rules = << one >>
    BY <1>1 DEF BuilderInv, FieldsBuilt
  <2>2. server \in Servers /\ ~RulesRefused(server)
    BY <1>1, BuiltFromList
  <2>3. /\ DOMAIN IngressRules(server) = DOMAIN Items(server)
        /\ DOMAIN Hostnames(server) = DOMAIN Items(server)
    BY DEF IngressRules, Hostnames
  <2>4. \A i \in DOMAIN Items(server) :
          IngressRules(server)[i] = address(Hostnames(server)[i], one)
    <3>1. /\ one.path = Path(server) /\ one.service = server.name
          /\ one.port = GetGameServerPort(server)
      BY DEF HTTPRouteRule
    <3>. QED BY <2>2, <3>1, SameHosts
  <2>5. Range(<< one >>) = {one}
    BY DEF Range
  <2>. HIDE DEF one, address
  <2>6. Range(IngressRules(server)) = {address(host, one) : host \in Range(Hostnames(server))}
    BY <2>3, <2>4 DEF Range
  <2>. QED BY <2>1, <2>5, <2>6
<1>. QED BY <1>1, BuilderInvariance, PTL

-----------------------------------------------------------------------------
(***************************************************************************)
(* The annotation that the controller writes.                              *)
(***************************************************************************)

(* Whether an object can be built does not change when the controller      *)
(* marks the GameServer as ready, provided the key of that mark has        *)
(* neither prefix of a custom annotation: no Update of GameServerReconciler*)
(* makes a later event of the same GameServer fail.                        *)
THEOREM ReadyIsNotRead ==
  ASSUME NEW k \in Kinds, NEW g, NEW h,
         IngressReady \notin DOMAIN CustomPrefixed \cup DOMAIN ServicePrefixed,
         h.annotations = WithReady(g.annotations)
  PROVE  Invalid(k, h) <=> Invalid(k, g)
<1>1. /\ DOMAIN h.annotations = DOMAIN g.annotations \cup {IngressReady}
      /\ \A key \in DOMAIN g.annotations \ {IngressReady} :
           h.annotations[key] = g.annotations[key]
  BY DEF WithReady
<1>2. CustomKeys(k, h) = CustomKeys(k, g)
  BY <1>1 DEF CustomKeys, PrefixedOf
<1>3. \A key \in CustomKeys(k, g) : h.annotations[key] = g.annotations[key]
  BY <1>1 DEF CustomKeys, PrefixedOf
<1>4. /\ IngressMode # IngressReady /\ IngressDomain # IngressReady
      /\ IngressFQDN # IngressReady /\ TerminateTLS # IngressReady
      /\ TLSSecretName # IngressReady /\ IngressClassName # IngressReady
      /\ IngressClassLegacy # IngressReady /\ GatewayName # IngressReady
  BY DEF IngressMode, IngressDomain, IngressFQDN, TerminateTLS, TLSSecretName, IngressClassName,
         IngressClassLegacy, GatewayName, IngressReady
<1>5. \A key : key # IngressReady =>
        /\ HasAnnotation(h, key) <=> HasAnnotation(g, key)
        /\ HasAnnotation(g, key) => h.annotations[key] = g.annotations[key]
  BY <1>1 DEF HasAnnotation
<1>6. GetIngressRoutingMode(h) = GetIngressRoutingMode(g)
  BY <1>4, <1>5 DEF GetIngressRoutingMode
<1>7. ListKey(h) = ListKey(g) /\ ListKey(g) # IngressReady
  BY <1>4, <1>6 DEF ListKey
<1>8. RulesRefused(h) <=> RulesRefused(g)
  BY <1>5, <1>6, <1>7 DEF RulesRefused, Text
<1>9. TLSRefused(h) <=> TLSRefused(g)
  <2>1. /\ TLSUnparsable(h) <=> TLSUnparsable(g)
        /\ Terminates(h) <=> Terminates(g)
    BY <1>4, <1>5 DEF TLSUnparsable, Terminates, AsksTLS
  <2>2. /\ SecretGiven(h) <=> SecretGiven(g)
        /\ SecretGiven(g) => h.annotations[TLSSecretName] = g.annotations[TLSSecretName]
    BY <1>4, <1>5 DEF SecretGiven
  <2>. QED BY <1>5, <1>7, <2>1, <2>2 DEF TLSRefused
<1>10. GetIngressClassName(h) = GetIngressClassName(g)
  BY <1>4, <1>5 DEF GetIngressClassName
<1>11. ParentRefused(h) <=> ParentRefused(g)
  BY <1>4, <1>5 DEF ParentRefused, Text
<1>. QED BY <1>2, <1>3, <1>8, <1>9, <1>10, <1>11 DEF Invalid
=============================================================================
