----------------------------- MODULE Capability -----------------------------
(***************************************************************************)
(* Capabilities (capability.rs): everything that is not granted is denied. *)
(* A resource is a kind and a path of segments; a pattern may hold "**",   *)
(* which stands for any number of segments, and segments with a star,      *)
(* which stand for the values GlobSegment gives them.                      *)
(***************************************************************************)
EXTENDS Integers, Sequences, SequencesExt

CONSTANTS Segments,     \* segments and parameter values without a star
          Globs,        \* patterns for one segment, with a star
          GlobSegment,  \* the values a pattern matches
          Unnormalized  \* the segments a file pattern may not hold: "", ".", ".."

AnyPath == "**"

ASSUME PatternAssumption ==
    /\ GlobSegment \in [Segments \cup Globs -> SUBSET Segments]
    /\ \A s \in Segments : GlobSegment[s] = {s}
    /\ Segments \cap (Globs \cup {AnyPath}) = {}
    /\ AnyPath \notin Globs

Classes == <<"Pure", "Read", "LocalWrite", "ExternalWrite", "Destructive">>
Rank(class) == CHOOSE n \in DOMAIN Classes : Classes[n] = class
IsWrite(class) == Rank(class) >= Rank("LocalWrite")

-----------------------------------------------------------------------------
(* Matching.                                                               *)

HasWildcard(pattern) == \E k \in DOMAIN pattern : pattern[k] \notin Segments

(* Some cut of the path gives every part of the pattern its segments: one  *)
(* each, any number to "**"; end[k] is where the k-th part's ends.         *)
GlobPath(pattern, path) ==
    \E end \in [0..Len(pattern) -> 0..Len(path)] :
        /\ end[0] = 0 /\ end[Len(pattern)] = Len(path)
        /\ \A i \in 0..Len(pattern), j \in 0..Len(pattern) :
              i < j => /\ end[i] <= end[j]
                       /\ (\A k \in i+1..j : pattern[k] # AnyPath) => end[j] = end[i] + (j - i)
        /\ \A k \in DOMAIN pattern :
              pattern[k] # AnyPath => path[end[k]] \in GlobSegment[pattern[k]]

ResourceMatches(pattern, resource) ==
    pattern.kind = resource.kind /\ GlobPath(pattern.path, resource.path)

Permits(grant, request) ==
    /\ ~grant.revoked
    /\ grant.action = request.action
    /\ ResourceMatches(grant.resource, request.resource)
    /\ DOMAIN request.params = DOMAIN grant.constraints
    /\ \A key \in DOMAIN request.params :
          request.params[key] \in GlobSegment[grant.constraints[key]]

-----------------------------------------------------------------------------
(* Narrowing.  Containment is conservative: the same pattern, a literal    *)
(* that the parent matches, or anything below a literal prefix of the      *)
(* parent's "/**".                                                         *)

(* Mutant: any pattern lies within a pattern that ends in "/**".           *)
ResourceWithinAnyTree(child, parent) ==
    \/ child = parent
    \/ /\ child.kind = parent.kind
       /\ IF ~HasWildcard(child.path) THEN GlobPath(parent.path, child.path)
          ELSE parent.path[Len(parent.path)] = AnyPath

ResourceWithin(child, parent) ==
    \/ child = parent
    \/ /\ child.kind = parent.kind
       /\ IF ~HasWildcard(child.path) THEN GlobPath(parent.path, child.path)
          ELSE \/ parent.path = <<AnyPath>>
               \/ LET depth == Len(parent.path) - 1 IN
                  /\ depth > 0 /\ depth < Len(child.path)
                  /\ parent.path[depth + 1] = AnyPath
                  /\ \A k \in 1..depth : /\ parent.path[k] \in Segments
                                         /\ child.path[k] = parent.path[k]

ConstraintWithin(child, parent) ==
    child = parent \/ (child \in Segments /\ child \in GlobSegment[parent])

WellFormed(grant) ==
    /\ grant.resource.path # <<>>
    /\ grant.resource.kind = "file" => Unnormalized \cap ToSet(grant.resource.path) = {}

CanNarrow(grant, resource, constraints, class) ==
    /\ ~grant.revoked
    /\ ResourceWithin(resource, grant.resource)
    /\ Rank(class) <= Rank(grant.class)
    /\ DOMAIN constraints = DOMAIN grant.constraints
    /\ \A key \in DOMAIN constraints : ConstraintWithin(constraints[key], grant.constraints[key])
    /\ WellFormed([grant EXCEPT !.resource = resource])

Narrow(grant, resource, constraints, class) ==
    [grant EXCEPT !.resource = resource, !.constraints = constraints, !.class = class]

(* What a narrowed grant is for: it permits no request that the grant it   *)
(* was derived from does not, at no higher class.                          *)
NarrowsOnly(grant, resource, constraints, class, request) ==
    CanNarrow(grant, resource, constraints, class) =>
        LET narrowed == Narrow(grant, resource, constraints, class) IN
        /\ Permits(narrowed, request) => Permits(grant, request)
        /\ Rank(narrowed.class) <= Rank(grant.class)

-----------------------------------------------------------------------------
(* The policy question: grants is a sequence, in configuration order.      *)

Permitting(grants, subject, request) ==
    {g \in DOMAIN grants : subject \in grants[g].subjects /\ Permits(grants[g], request)}

(* Mutant: the first grant that permits answers.                           *)
AuthorizeFirst(grants, subject, request) ==
    CHOOSE g \in Permitting(grants, subject, request) :
        \A h \in Permitting(grants, subject, request) : g <= h

(* authorize: the most severe class wins.  Which grant of that class       *)
(* answers shows in the audit log only.                                    *)
Authorize(grants, subject, request) ==
    CHOOSE g \in Permitting(grants, subject, request) :
        \A h \in Permitting(grants, subject, request) :
            Rank(grants[h].class) <= Rank(grants[g].class)

PolicyValid(grants) == \A g \in DOMAIN grants : WellFormed(grants[g])
=============================================================================
