------------------------------- MODULE Slipstopper -------------------------------
(***************************************************************************)
(* The slipstopper's picture of the placed conditional orders of a market. *)
(*                                                                         *)
(* On a subscription the websocket proxy reads the placed orders from the  *)
(* engine, and the client starts its tree from them (OnSubscribed); later  *)
(* the engine publishes every change of an order (OnPublication).  The     *)
(* tree maps trigger prices to orders; nodesByOrderId keeps the node of    *)
(* every order.  At a price the client asks the engine to execute the      *)
(* orders that wait for it (OnPriceUpdate).                                *)
(*                                                                         *)
(* The callbacks of the client run one after another.  The tree is a       *)
(* library's: it removes a node that has a right child by copying the      *)
(* successor into it, so nodesByOrderId may point to a node that has left  *)
(* the tree or has another key.                                            *)
(***************************************************************************)
EXTENDS Integers, Sequences, FiniteSets

CONSTANTS
    SlipOrders,       \* conditional orders of the market
    SlipPrices,       \* trigger prices and fair prices
    FiresBelow,       \* orders that fire once the fair price is at or below the trigger
    MaxSlipNodes,     \* bound: nodes that live or are pointed to
    MaxSlipChanges    \* bound: changes of orders at the engine, connections

ASSUME SlipAssumption ==
    /\ IsFiniteSet(SlipOrders) /\ FiresBelow \subseteq SlipOrders
    /\ IsFiniteSet(SlipPrices) /\ SlipPrices \subseteq Nat
    /\ MaxSlipNodes \in Nat /\ MaxSlipChanges \in Nat
    /\ Cardinality(SlipOrders) + Cardinality(SlipPrices) <= MaxSlipNodes

VARIABLES
    slipPlaced,   \* placed orders at the engine, as <<order, trigger price>>
    slipNew,      \* orders not created yet
    slipChannel,  \* publications of the channel conditional:<market>, the oldest first
    slipConn,     \* "off", "asked" or "on"
    snapshot,     \* the orders the proxy read for the subscription under way
    nodes,        \* nodes: key, orders and whether they are in the tree
    nodeOf,       \* nodesByOrderId, 0 for none
    moved,        \* a removal copied the successor since the tree was started
    gap,          \* publications were missed since the tree was started
    slipChanges

slipEngine == <<slipPlaced, slipNew>>
slipClient == <<nodes, nodeOf, moved>>
slipVars == <<slipEngine, slipChannel, slipConn, snapshot, slipClient, gap, slipChanges>>

NodeIds == 1 .. MaxSlipNodes

NoNode == [key |-> 0, orders |-> {}, live |-> FALSE]

SlipInit ==
    /\ slipPlaced = {}
    /\ slipNew = SlipOrders
    /\ slipChannel = <<>>
    /\ slipConn = "off"
    /\ snapshot = {}
    /\ nodes = [n \in NodeIds |-> NoNode]
    /\ nodeOf = [o \in SlipOrders |-> 0]
    /\ moved = FALSE
    /\ gap = FALSE
    /\ slipChanges = 0

-------------------------------------------------------------------------------
(* The tree.  Its operators take and return [nodes, nodeOf, moved].        *)

LiveNodes(s) == {n \in NodeIds : s.nodes[n].live}

NodeAt(s, key) == {n \in LiveNodes(s) : s.nodes[n].key = key}

Unused(s) == {n \in NodeIds : ~ s.nodes[n].live /\ \A o \in SlipOrders : s.nodeOf[o] # n}

(* Tree.Insert and Matcher.Insert of orders with the same trigger price.   *)
InsertAll(s, key, orders) ==
    LET n == CHOOSE n \in IF NodeAt(s, key) # {} THEN NodeAt(s, key) ELSE Unused(s) : TRUE
        old == IF NodeAt(s, key) # {} THEN s.nodes[n].orders ELSE {}
    IN  IF orders = {} THEN s
        ELSE [nodes |-> [s.nodes EXCEPT ![n] = [key |-> key, orders |-> old \cup orders, live |-> TRUE]],
              nodeOf |-> [o \in SlipOrders |-> IF o \in orders THEN n ELSE s.nodeOf[o]],
              moved |-> s.moved]

(* Tree.Delete: the node leaves the tree, or takes over key and orders of  *)
(* its successor, whose node leaves the tree instead.                      *)
Delete(s, key) ==
    LET bigger == {n \in LiveNodes(s) : s.nodes[n].key > key}
    IN  IF NodeAt(s, key) = {} THEN {s}
        ELSE LET n == CHOOSE n \in NodeAt(s, key) : TRUE
             IN  {[s EXCEPT !.nodes[n].live = FALSE]} \cup
                 {[s EXCEPT !.nodes = [@ EXCEPT ![n] = s.nodes[b], ![b].live = FALSE],
                            !.moved = TRUE] :
                     b \in {b \in bigger : \A c \in bigger : s.nodes[b].key <= s.nodes[c].key}}

(* Mutant: the other orders of the node are not inserted again.            *)
RemovePriceNode(s, o) ==
    {[t EXCEPT !.nodeOf[o] = 0] : t \in Delete(s, s.nodes[s.nodeOf[o]].key)}

(* Matcher.Remove: the node is found by the order's id; the other orders   *)
(* it names are inserted again.                                            *)
RemovePrice(s, o) ==
    LET old == s.nodes[s.nodeOf[o]]
    IN  {InsertAll([t EXCEPT !.nodeOf[o] = 0], old.key, old.orders \ {o}) :
            t \in Delete(s, old.key)}

Matcher == [nodes |-> nodes, nodeOf |-> nodeOf, moved |-> moved]

SetMatcher(s) == nodes' = s.nodes /\ nodeOf' = s.nodeOf /\ moved' = s.moved

FirstNode(key) == Cardinality({k \in SlipPrices : k <= key})

(* ClearAll, and the orders of the first answer: a node per trigger price. *)
Started(orders) ==
    LET At(key) == {o \in SlipOrders : <<o, key>> \in orders}
        Keys(n) == {key \in SlipPrices : FirstNode(key) = n /\ At(key) # {}}
        Key(n) == CHOOSE key \in Keys(n) : TRUE
    IN  [nodes |-> [n \in NodeIds |->
                       IF Keys(n) = {} THEN NoNode
                       ELSE [key |-> Key(n), orders |-> At(Key(n)), live |-> TRUE]],
         nodeOf |-> [o \in SlipOrders |->
                       IF \E key \in SlipPrices : o \in At(key)
                       THEN FirstNode(CHOOSE key \in SlipPrices : o \in At(key)) ELSE 0],
         moved |-> FALSE]

-------------------------------------------------------------------------------
(* The engine places, amends and ends orders and publishes each change.    *)

Publish(o, key, placed) ==
    slipChannel' = Append(slipChannel, [order |-> o, key |-> key, placed |-> placed])

Changes == slipChanges < MaxSlipChanges /\ slipChanges' = slipChanges + 1

WithoutOrder(o) == {p \in slipPlaced : p[1] # o}

send_conditional_order ==
    /\ Changes
    /\ \E o \in SlipOrders, key \in SlipPrices :
         /\ o \in slipNew \/ \E p \in slipPlaced : p[1] = o /\ p[2] # key
         /\ slipPlaced' = WithoutOrder(o) \cup {<<o, key>>}
         /\ slipNew' = slipNew \ {o}
         /\ Publish(o, key, TRUE)
    /\ UNCHANGED <<slipConn, snapshot, slipClient, gap>>

Ends(o, key) ==
    /\ <<o, key>> \in slipPlaced
    /\ slipPlaced' = WithoutOrder(o)
    /\ Publish(o, key, FALSE)
    /\ UNCHANGED <<slipNew, slipConn, snapshot, slipClient, gap, slipChanges>>

OrderCanceled == \E p \in slipPlaced : Ends(p[1], p[2])

(* Orders whose trigger the price has reached: Tree.LTE holds those that   *)
(* fire at or above their trigger, Tree.GTE the others.                    *)
Reached(price) ==
    {o \in SlipOrders : \E n \in LiveNodes(Matcher) :
        /\ o \in nodes[n].orders
        /\ IF o \in FiresBelow THEN nodes[n].key >= price ELSE nodes[n].key <= price}

(* OnPriceUpdate asks the engine to execute them; the engine looks at its  *)
(* own row.  An order stays in the tree until its status is published.     *)
OnPriceUpdate ==
    \E price \in SlipPrices : \E o \in Reached(price), key \in SlipPrices :
        /\ IF o \in FiresBelow THEN key >= price ELSE key <= price
        /\ Ends(o, key)

-------------------------------------------------------------------------------
(* The client.                                                             *)

(* RunProxy: the initial state for a channel "conditional:<market>".       *)
RunProxy ==
    /\ slipConn = "off" /\ slipConn' = "asked"
    /\ snapshot' = slipPlaced
    /\ UNCHANGED <<slipEngine, slipChannel, slipClient, gap, slipChanges>>

(* OnSubscribed.  A recovered subscription is sent what it missed; one     *)
(* that could not be recovered misses what was published after the answer. *)
OnSubscribed ==
    /\ slipConn = "asked" /\ slipConn' = "on"
    /\ SetMatcher(Started(snapshot))
    /\ snapshot' = {}
    /\ \/ gap' = FALSE /\ UNCHANGED slipChannel
       \/ gap' = (snapshot # slipPlaced) /\ slipChannel' = <<>>
    /\ UNCHANGED <<slipEngine, slipChanges>>

Disconnected ==
    /\ slipConn # "off" /\ slipConn' = "off"
    /\ Changes
    /\ snapshot' = {}
    /\ UNCHANGED <<slipEngine, slipChannel, slipClient, gap>>

(* Placed: an order that is known is removed first.  Any other status: it  *)
(* is removed, if it is known.                                             *)
Update(s, m) ==
    LET without == IF s.nodeOf[m.order] # 0 THEN RemovePrice(s, m.order) ELSE {s}
    IN  IF m.placed THEN {InsertAll(t, m.key, {m.order}) : t \in without} ELSE without

OnPublication ==
    /\ slipConn = "on" /\ slipChannel # <<>>
    /\ \E s \in Update(Matcher, Head(slipChannel)) : SetMatcher(s)
    /\ slipChannel' = Tail(slipChannel)
    /\ UNCHANGED <<slipEngine, slipConn, snapshot, gap, slipChanges>>

SlipNext ==
    \/ send_conditional_order \/ OrderCanceled \/ OnPriceUpdate
    \/ RunProxy \/ OnSubscribed \/ Disconnected \/ OnPublication

SlipSpec == SlipInit /\ [][SlipNext]_slipVars

-------------------------------------------------------------------------------
Watched == {p \in SlipOrders \X SlipPrices :
                \E n \in LiveNodes(Matcher) : nodes[n].key = p[2] /\ p[1] \in nodes[n].orders}

(* Once every publication is applied, the tree holds the placed orders of  *)
(* the engine and no others, each at its present trigger price and in the  *)
(* node nodesByOrderId names: none is missed when the price comes, through *)
(* amendments, several orders at a price, lost connections and replays.    *)
(* A missed publication and a successor that was copied are excepted.      *)
PlacedAreWatched ==
    slipConn = "on" /\ slipChannel = <<>> /\ ~ gap /\ ~ moved =>
        /\ Watched = slipPlaced
        /\ \A o \in SlipOrders : nodeOf[o] # 0 =>
               nodes[nodeOf[o]].live /\ o \in nodes[nodeOf[o]].orders
================================================================================
