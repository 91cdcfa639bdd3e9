---------------------------- MODULE EventDelivery ----------------------------
(***************************************************************************)
(* What the EVIO plugin promises to the processors downstream of it: each  *)
(* physics block of each file is either delivered as physics-level events, *)
(* one per event number, in ascending order and without another block's    *)
(* events in between, each with exactly the hits of the admitted banks, in *)
(* readout order; or the processing fails, and then for a reason.  How the *)
(* blocks are scheduled is left open.                                      *)
(***************************************************************************)
EXTENDS EvioData

CONSTANTS Sources,  \* the event sources
          Files,    \* what a source's file may hold
          Parsers

VARIABLES file,     \* the file of each source
          filter,   \* the ROCs and banks to let through
          routes,   \* the bank-to-module map
          parsers,  \* the module-parser map
          children, \* the physics-level events, in the order delivered
          failed    \* has an exception stopped the processing?

vars == <<file, filter, routes, parsers, children, failed>>

Init ==
    /\ file \in [Sources -> Files]
    /\ filter \subseteq ROCs \X Banks
    /\ routes \in [Banks -> Modules \cup {NoModule}]
    /\ parsers \in [Modules -> Parsers \cup {NullParser}]
    /\ children = << >>
    /\ failed \in BOOLEAN  \* the configuration may be refused

IsPhysicsBlock(s, i) == file[s][i].kind = "physics" /\ file[s][i].filled

\* The event numbers of a block that are still to be delivered.
Outstanding(s, i) ==
    Numbers(file[s][i], filter, routes) \
        {c.num : c \in {d \in Range(children) : d.src = s /\ d.pos = i}}

\* Plugins configure the maps before anything is delivered.
Configure ==
    /\ children = << >>
    /\ routes' \in [Banks -> Modules \cup {NoModule}]
    /\ parsers' \in [Modules -> Parsers \cup {NullParser}]
    /\ UNCHANGED <<file, filter, children, failed>>

Deliver(s, i) ==
    LET e == file[s][i]
    IN  /\ ~failed
        /\ IsPhysicsBlock(s, i)
        /\ IsAcceptable(e, filter, routes, parsers)
        /\ children # << >> =>
              LET last == children[Len(children)]
              IN  <<last.src, last.pos>> = <<s, i>> \/ Outstanding(last.src, last.pos) = {}
        /\ \E n \in Outstanding(s, i) : \E h \in Listings(HitsOf(e, filter, routes, n)) :
              /\ \A m \in Outstanding(s, i) : n <= m
              /\ children' = Append(children, [src |-> s, pos |-> i, num |-> n, hits |-> h])
        /\ UNCHANGED <<file, filter, routes, parsers, failed>>

Fail ==
    /\ \E s \in Sources : \E i \in DOMAIN file[s] :
          IsPhysicsBlock(s, i) /\ ~IsAcceptable(file[s][i], filter, routes, parsers)
    /\ failed' = TRUE
    /\ UNCHANGED <<file, filter, routes, parsers, children>>

Next ==
    \/ Configure
    \/ \E s \in Sources : \E i \in DOMAIN file[s] : Deliver(s, i)
    \/ Fail

Spec == Init /\ [][Next]_vars

=============================================================================
