----------------------------- MODULE Resolution -----------------------------
(***************************************************************************)
(* How service.resolve puts the installation parameters of a host together: *)
(* the layers are merged one after the other, the host's overrides last,    *)
(* and each value's origin is kept for the preview.                         *)
(*                                                                          *)
(* A path is a name, and Above says under which objects it lies: those of   *)
(* the network parameters, one that must be a scalar and one that must be   *)
(* an object whose keys are free.  A document says at each of its paths     *)
(* whether there is an object, or else in which layer the value was         *)
(* written, which is all a merge could confuse.  deep_merge() recurses into *)
(* the objects of a layer; each round of its loop is a step here, taken at  *)
(* any path all of whose objects have been entered.  The dictionary's order *)
(* is one of these orders.  The overlay of the host's own fqdn and          *)
(* management_ip, which no lock speaks of, is left out.                     *)
(***************************************************************************)
EXTENDS Sequences, Naturals

CONSTANTS
    Layers,     \* the layers before the host, in the order of the merge
    Host,       \* the name of the last layer
    Interfaces, \* keys of the interface filter
    Locks,      \* the fields a profile may lock: paths
    Object      \* what a document holds where it has an object

Sources == {Layers[i] : i \in DOMAIN Layers} \cup {Host}

Paths == {"network", "dns", "filter"} \cup Interfaces

ASSUME ResolutionAssumption ==
    /\ Layers \in Seq(Sources \ {Host})
    /\ Object \notin Sources
    /\ Interfaces \cap {"network", "dns", "filter"} = {}
    /\ Locks \subseteq Paths

VARIABLES
    lock,       \* one of the profile's locked_fields, each of which is checked for itself
    merged,     \* the layers merged so far with their documents, the one at hand last
    todo,       \* the paths of the document at hand that deep_merge has not come to
    resolved, provenance,
    outcome     \* "merging", or how resolve ended: "accepted" or "refused"

vars == <<lock, merged, todo, resolved, provenance, outcome>>

-----------------------------------------------------------------------------
(* Documents *)

\* The objects a path lies under.
Above(p) ==
    CASE p = "network" -> {}
      [] p \in Interfaces -> {"network", "filter"}
      [] OTHER -> {"network"}

IsObject(doc, p) == p \in DOMAIN doc /\ doc[p] = Object
IsScalar(doc, p) == p \in DOMAIN doc /\ doc[p] # Object

\* What an author may write as network parameters, in the right shape or not.
Documents(layer) ==
    {doc \in UNION {[ps -> {layer, Object}] : ps \in SUBSET Paths} :
        \A p \in DOMAIN doc : \A q \in Above(p) : IsObject(doc, q)}

\* leaf_paths(): the paths to everything that is not an object.
LeafPaths(doc) == {p \in DOMAIN doc : IsScalar(doc, p)}

-----------------------------------------------------------------------------
(* The merge *)

With(f, p, value) == [q \in DOMAIN f \cup {p} |-> IF q = p THEN value ELSE f[q]]

\* What takes the place of what was at p and below it.
Put(base, p, value) == With([q \in {x \in DOMAIN base : p \notin Above(x)} |-> base[q]], p, value)

\* Mutant: an object replaces what was there before.
Merged_Fresh(base, p, value) == Put(base, p, value)

\* An object is merged into what is there, unless it is no object.
Merged(base, p, value) ==
    IF value = Object /\ IsObject(base, p) THEN base ELSE Put(base, p, value)

\* Mutant: the first layer is taken for the origin.
Origin_First(from, p, source) == IF p \in DOMAIN from THEN from ELSE With(from, p, source)

Origin(from, p, source) == With(from, p, source)

AtHand == merged[Len(merged)]

\* One round of the loop of deep_merge().
Visit(p) ==
    LET value == AtHand.doc[p] IN
    /\ outcome = "merging"
    /\ p \in todo /\ Above(p) \cap todo = {}
    /\ todo' = todo \ {p}
    /\ resolved' = Merged(resolved, p, value)
    /\ provenance' = IF value = Object THEN provenance ELSE Origin(provenance, p, AtHand.layer)
    /\ UNCHANGED <<lock, merged, outcome>>

\* deep_merge() is called for this layer.
Begin(layer, doc) ==
    /\ merged' = Append(merged, [layer |-> layer, doc |-> doc])
    /\ todo' = DOMAIN doc
    /\ UNCHANGED <<lock, resolved, provenance, outcome>>

-----------------------------------------------------------------------------
(* What is refused *)

\* Whether the lock speaks of p.
Locked(p) == p = lock \/ lock \in Above(p)

\* No override of the host sets the locked field or a value below it.
Unlocked(doc) == \A p \in LeafPaths(doc) : ~Locked(p)

\* Mutant: the shape of the filter is not looked at.
WellFormed_Shallow(doc) ==
    /\ IsObject(doc, "network") /\ IsScalar(doc, "dns")
    /\ "filter" \in DOMAIN doc

\* validate_installation(), as far as it looks at the shape: the network is an object, the
\* name server a scalar, the filter an object that is not empty and has scalars only.
WellFormed(doc) ==
    /\ IsObject(doc, "network") /\ IsScalar(doc, "dns")
    /\ IsObject(doc, "filter") /\ DOMAIN doc \cap Interfaces # {}
    /\ \A k \in DOMAIN doc \cap Interfaces : IsScalar(doc, k)

-----------------------------------------------------------------------------
(* resolve *)

Init ==
    /\ lock \in Locks
    /\ merged = <<>> /\ todo = {}
    /\ resolved = <<>> /\ provenance = <<>>
    /\ outcome = "merging"

MergeNext ==
    /\ outcome = "merging" /\ todo = {} /\ Len(merged) < Len(Layers)
    /\ LET layer == Layers[Len(merged) + 1] IN
       \E doc \in Documents(layer) : Begin(layer, doc)

\* The lock is checked before the overrides are merged ...
MergeHost ==
    /\ outcome = "merging" /\ todo = {} /\ Len(merged) = Len(Layers)
    /\ \E doc \in Documents(Host) :
          IF Unlocked(doc)
          THEN Begin(Host, doc)
          ELSE outcome' = "refused" /\ UNCHANGED <<lock, merged, todo, resolved, provenance>>

\* ... the shape afterwards.
Validate ==
    /\ outcome = "merging" /\ todo = {} /\ Len(merged) > Len(Layers)
    /\ outcome' = IF WellFormed(resolved) THEN "accepted" ELSE "refused"
    /\ UNCHANGED <<lock, merged, todo, resolved, provenance>>

Next == MergeNext \/ (\E p \in todo : Visit(p)) \/ MergeHost \/ Validate

Spec == Init /\ [][Next]_vars

-----------------------------------------------------------------------------
(* Properties *)

\* Of the first n layers, layer i wrote the value at p, and no layer after it wrote p, a part
\* of p, or an object where the value was.
LastWord(n, i, p) ==
    /\ p \in LeafPaths(merged[i].doc)
    /\ \A j \in (i + 1)..n :
          p \notin DOMAIN merged[j].doc /\ Above(p) \cap LeafPaths(merged[j].doc) = {}

\* What the first n layers say together: paths, each with the layer whose value it has.
Said(n) ==
    {s \in Paths \X Sources : \E i \in 1..n : LastWord(n, i, s[1]) /\ merged[i].layer = s[2]}

\* Spezifischere Werte ueberschreiben allgemeinere (Feinkonzept section 5): the recursive
\* merge leaves exactly the values that no later layer overwrote, whatever the layers do to
\* each other's objects and in whatever order their keys are visited (service.py:73-85).
LastWriterWins ==
    todo = {} => {<<p, resolved[p]>> : p \in LeafPaths(resolved)} = Said(Len(merged))

\* Herkunft jedes Werts sichtbar (Feinkonzept section 5): for every value the preview names
\* the layer it came from, also where an object gave way to a scalar and came back.
OriginShown ==
    \A p \in LeafPaths(resolved) : p \in DOMAIN provenance /\ provenance[p] = resolved[p]

\* Gesperrte Variablen duerfen durch Hostwerte nicht gelockert werden (Feinkonzept section
\* 5): at and below a locked field an accepted host gets what it would get without its
\* overrides.  The lock compares the paths of values, so an override by an empty object, or
\* of an object above the locked field, passes it: the check of the shape has to stop those.
\* The shape here is that of the network parameters.  At disk_setup.lvm an empty object is
\* accepted, and replaces a malformed scalar despite the lock (service.py:166-169, 251-252).
LocksHold ==
    outcome = "accepted" =>
        \A s \in Paths \X Sources :
            Locked(s[1]) => (s \in Said(Len(merged)) <=> s \in Said(Len(merged) - 1))
=============================================================================
