------------------------------- MODULE Router -------------------------------
(***************************************************************************)
(* The routers that a program builds before it serves (ws/router.go,        *)
(* ws/manager.go).  A Routers value is copied by Use and Group, with the    *)
(* slices handlerMembers and groups in it, and append extends a slice in    *)
(* the array it shares with its copies as long as there is room.  Hence the *)
(* slices are those of module Slices, over the heap arrays.                 *)
(***************************************************************************)
EXTENDS Slices

CONSTANTS
    Middlewares, \* the lists of middleware that are passed to Use
    Names,       \* the names of groups and actions
    Handler,     \* the handler that is passed to Add
    Unused,      \* the zero value of an array's elements
    MaxValues    \* bound: router values and routes in all

ASSUME BoundAssumption == MaxValues \in Nat

VARIABLES
    arrays,     \* the arrays behind the slices
    routers,    \* the router values, and what they were told (used, path)
    handlerMap, \* ActionManager.handlerMap and what was told of each route
    panicked    \* Add has found a duplicate route
routerVars == <<arrays, routers, handlerMap, panicked>>

RouterTypeOK ==
    /\ \A r \in DOMAIN routers : /\ IsSlice(arrays, routers[r].handlerMembers)
                                 /\ IsSlice(arrays, routers[r].groups)
    /\ \A i \in DOMAIN handlerMap : IsSlice(arrays, handlerMap[i].chain)
    /\ panicked \in BOOLEAN

RouterInit ==
    /\ arrays = <<>>
    /\ routers = <<[handlerMembers |-> Nil, groups |-> Nil, from |-> 0,
                    used |-> <<>>, path |-> <<>>]>>
    /\ handlerMap = <<>>
    /\ panicked = FALSE

-----------------------------------------------------------------------------
\* A program goes on building until it panics.
Building == ~panicked /\ Len(routers) + Len(handlerMap) < MaxValues

\* Mutant: only the first of the middleware is kept.
UseFirst(r) ==
    /\ Building
    /\ \E ms \in Middlewares :
         LET s == routers[r].handlerMembers
         IN  /\ arrays' = Appended(arrays, s, <<ms[1]>>, Unused)
             /\ routers' = Append(routers,
                  [routers[r] EXCEPT !.handlerMembers = AppendTo(arrays, s, <<ms[1]>>),
                                     !.used = @ \o ms, !.from = r])
    /\ UNCHANGED <<handlerMap, panicked>>

Use(r) ==
    /\ Building
    /\ \E ms \in Middlewares :
         LET s == routers[r].handlerMembers
         IN  /\ arrays' = Appended(arrays, s, ms, Unused)
             /\ routers' = Append(routers,
                  [routers[r] EXCEPT !.handlerMembers = AppendTo(arrays, s, ms),
                                     !.used = @ \o ms, !.from = r])
    /\ UNCHANGED <<handlerMap, panicked>>

\* Mutant: the length of the slice is not adjusted to its array.
GroupSkips(r) ==
    /\ Building
    /\ \E name \in Names :
         LET s == routers[r].groups
         IN  /\ arrays' = Appended(arrays, s, <<name>>, Unused)
             /\ routers' = Append(routers,
                  [routers[r] EXCEPT !.groups.len = @ + 1,
                                     !.path = Append(@, name), !.from = r])
    /\ UNCHANGED <<handlerMap, panicked>>

Group(r) ==
    /\ Building
    /\ \E name \in Names :
         LET s == routers[r].groups
         IN  /\ arrays' = Appended(arrays, s, <<name>>, Unused)
             /\ routers' = Append(routers,
                  [routers[r] EXCEPT !.groups = AppendTo(arrays, s, <<name>>),
                                     !.path = Append(@, name), !.from = r])
    /\ UNCHANGED <<handlerMap, panicked>>

Registered == {handlerMap[i].name : i \in DOMAIN handlerMap}

\* Mutant: the handler is appended to the router's own slice.
AddUncopied(r) ==
    /\ Building
    /\ \E n \in Names :
         LET name == Append(Contents(arrays, routers[r].groups), n)
             s == routers[r].handlerMembers
         IN  IF name \in Registered
             THEN panicked' = TRUE /\ UNCHANGED <<arrays, handlerMap>>
             ELSE /\ arrays' = Appended(arrays, s, <<Handler>>, Unused)
                  /\ handlerMap' = Append(handlerMap,
                       [name |-> name, chain |-> AppendTo(arrays, s, <<Handler>>),
                        added |-> Append(Contents(arrays, s), Handler),
                        declared |-> Append(routers[r].path, n),
                        used |-> Append(routers[r].used, Handler)])
                  /\ UNCHANGED panicked
    /\ UNCHANGED routers

\* A route gets an array of its own, made for the router's middleware and the
\* handler.
Add(r) ==
    /\ Building
    /\ \E n \in Names :
         LET name == Append(Contents(arrays, routers[r].groups), n)
             chain == Append(Contents(arrays, routers[r].handlerMembers), Handler)
         IN  IF name \in Registered
             THEN panicked' = TRUE /\ UNCHANGED <<arrays, handlerMap>>
             ELSE /\ arrays' = Append(arrays, chain)
                  /\ handlerMap' = Append(handlerMap,
                       [name |-> name, added |-> chain,
                        chain |-> [array |-> Len(arrays) + 1, len |-> Len(chain)],
                        declared |-> Append(routers[r].path, n),
                        used |-> Append(routers[r].used, Handler)])
                  /\ UNCHANGED panicked
    /\ UNCHANGED routers

RouterNext == \E r \in DOMAIN routers : Use(r) \/ Group(r) \/ Add(r)
RouterSpec == RouterInit /\ [][RouterNext]_routerVars

-----------------------------------------------------------------------------
(* Properties.                                                              *)

\* What Add has registered stays as it is, however the routers are extended
\* afterwards: no router can write into the chain of a route.
ChainsStay ==
    \A i \in DOMAIN handlerMap :
        Contents(arrays, handlerMap[i].chain) = handlerMap[i].added

\* A route runs the middleware registered with Use on its router, in order,
\* and then its handler (README.md:171), under the name its groups say.
RoutesAsDeclared ==
    \A i \in DOMAIN handlerMap :
        /\ Contents(arrays, handlerMap[i].chain) = handlerMap[i].used
        /\ handlerMap[i].name = handlerMap[i].declared

\* No router has been extended twice.
Linear ==
    \A j, k \in DOMAIN routers : j # k => routers[j].from # routers[k].from

\* The usual way of writing routes is safe: a program in which no router has
\* been extended twice gets the routes it has declared, whatever arrays its
\* routers share.
LinearRoutesAsDeclared == Linear => RoutesAsDeclared
=============================================================================
