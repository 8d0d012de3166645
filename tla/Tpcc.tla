-------------------------------- MODULE Tpcc --------------------------------
(***************************************************************************)
(* The TPC-C workload of frontend/tpcc on the distributed B-tree: the      *)
(* tables as the loader leaves them, and the five transactions that the    *)
(* workers of all nodes run.  There is no concurrency control above the    *)
(* B-tree: an operation of the adapter (insert, scan, update1, lookup1,    *)
(* erase) is one step, and the steps of two transactions interleave.       *)
(* A failed ensure or assert is recorded in "failed" and stops the         *)
(* program.                                                                *)
(*                                                                         *)
(* Scaled numbers: Districts for 10, Customers for 3000 customers and      *)
(* loaded orders of a district, Delivered for 2100, Items for ITEMS_NO,    *)
(* Window for the 20 orders that stockLevel looks at.                      *)
(***************************************************************************)
EXTENDS Integers, FiniteSets, FiniteSetsExt, Sequences, SequencesExt, Functions

CONSTANTS Nodes,        \* FLAGS_nodes
          Worker,       \* FLAGS_worker
          WarehouseCount, Districts, Customers, Items,
          Delivered,    \* the last order that is loaded as delivered
          Window,       \* how many orders back stockLevel reads
          Names,        \* how many last names there are (1000)
          StockQty,     \* loaded values of s_quantity, within 10..100
          Qty,          \* quantities ordered, within 1..10
          MaxLines,     \* most lines of a new order
          Affinity,     \* FLAGS_tpcc_warehouse_affinity
          Kinds,        \* the transactions this instance mixes
          MaxTx         \* bound: transactions per worker

Wh == 1..WarehouseCount
Ds == 1..Districts
Cs == 1..Customers
Is == 1..Items
Threads == (0..Nodes - 1) \X (0..Worker - 1)
MinInteger == -1
MaxInteger == 1000

VARIABLES w_ytd, d_ytd, d_next_o_id, stock, customer, order, orderWdc,
          neworder, orderline, history, h_id,
          pc, x, done, failed

tables == <<w_ytd, d_ytd, d_next_o_id, stock, customer, order, orderWdc,
            neworder, orderline, history, h_id>>
vars == <<tables, pc, x, done, failed>>

(***************************************************************************)
(* Keys are tuples in lexicographic order; a scan starts at the first key  *)
(* that is not below the one it is given, scanDesc at the last not above.  *)
(***************************************************************************)
Below(a, b) == \E i \in 1..Len(a) : a[i] < b[i] /\ \A j \in 1..i - 1 : a[j] = b[j]

ScanFrom(S, k) == LET at == {a \in S : ~Below(a, k)}
                  IN  {a \in at : \A b \in at : ~Below(b, a)}

ScanDescFrom(S, k) == LET at == {a \in S : ~Below(k, a)}
                      IN  {a \in at : \A b \in at : ~Below(a, b)}

\* update1, lookup1 and lookupField: ensure(res) fails on a key that is not there
Ensure(found, what) == failed' = IF found THEN failed ELSE failed \cup {what}

(***************************************************************************)
(* Which worker works on which warehouse.                                  *)
(***************************************************************************)
ThreadId(t) == t[2] + t[1] * Worker

Partition(id, participants, N) ==
    LET blockSize == N \div participants
        begin == id * blockSize
    IN  [begin |-> begin,
         end |-> IF id = participants - 1 THEN N ELSE begin + blockSize]

HomeWarehouses(t) ==
    IF Affinity THEN {t[2] + 1 + Partition(t[1], Nodes, WarehouseCount).begin}
                ELSE Wh

\* urandexcept(1, warehouseCount, w): any other warehouse, w if there is none
OtherWarehouses(w) == IF WarehouseCount <= 1 THEN {1} ELSE Wh \ {w}

(***************************************************************************)
(* The tables as loaded.                                                   *)
(***************************************************************************)
LoadWarehouse == w_ytd = [w \in Wh |-> 0]

LoadDistrinct == /\ d_ytd = [k \in Wh \X Ds |-> 0]
                 /\ d_next_o_id = [k \in Wh \X Ds |-> Customers + 1]

LoadStock == \E q \in StockQty :
    stock = [k \in Wh \X Is |-> [quantity |-> q, ytd |-> 0, order_cnt |-> 0]]

\* the first Names customers have one name each, the others a random one
LoadCustomer ==
    \E last \in {f \in [Cs -> 1..Names] : \A c \in Cs : c <= Names => f[c] = c} :
        customer = [k \in Wh \X Ds \X Cs |->
                      [last |-> last[k[3]], balance |-> 0, ytd_payment |-> 0,
                       payment_cnt |-> 0, delivery_cnt |-> 0]]

Carrier(o) == IF o <= Delivered THEN 1 ELSE 0

LoadOrders ==
    LET keys == Wh \X Ds \X Cs
    IN  /\ order = [k \in keys |-> [c |-> k[3], carrier |-> Carrier(k[3]), ol_cnt |-> 1]]
        /\ orderWdc = {<<k[1], k[2], k[3], k[3]>> : k \in keys}
        /\ orderline = [k \in {k \o <<1>> : k \in keys} |->
                          [i |-> 1, supply |-> k[1], qty |-> 0, delivered |-> k[3] <= Delivered]]
        /\ neworder = {k \in keys : k[3] >= Delivered}

Idle == [op |-> "none"]

Init == /\ LoadWarehouse /\ LoadDistrinct /\ LoadStock /\ LoadCustomer /\ LoadOrders
        /\ history = <<>>
        /\ h_id = [k \in {<<t[1], ThreadId(t)>> : t \in Threads} |-> 0]
        /\ pc = [t \in Threads |-> "idle"]
        /\ x = [t \in Threads |-> Idle]
        /\ done = [t \in Threads |-> 0]
        /\ failed = {}

CanStart(t, kind) == /\ failed = {}
                     /\ pc[t] = "idle"
                     /\ kind \in Kinds
                     /\ done[t] < MaxTx

At(t, where) == failed = {} /\ pc[t] = where

Go(t, where) == /\ pc' = [pc EXCEPT ![t] = where]
                /\ UNCHANGED done

End(t) == /\ pc' = [pc EXCEPT ![t] = "idle"]
          /\ done' = [done EXCEPT ![t] = @ + 1]
          /\ x' = [x EXCEPT ![t] = Idle]

(***************************************************************************)
(* newOrder                                                                *)
(***************************************************************************)
\* newOrderRnd: a line names an item, a quantity and, rarely, a remote supplier
NewOrderRnd(w) ==
    [d : Ds, c : Cs,
     lines : SeqOf([item : Is, supply : {w} \cup OtherWarehouses(w), qty : Qty], MaxLines)
             \ {<<>>}]

\* Mutant: the index is written before the order
TakeOrderIdAndIndex(t) ==
    /\ CanStart(t, "newOrder")
    /\ \E w \in HomeWarehouses(t) : \E in \in NewOrderRnd(w) :
         /\ x' = [x EXCEPT ![t] = [op |-> "newOrder", w |-> w, d |-> in.d, c |-> in.c,
                                   lines |-> in.lines, i |-> 1,
                                   o |-> d_next_o_id[w, in.d]]]
         /\ d_next_o_id' = [d_next_o_id EXCEPT ![w, in.d] = @ + 1]
         /\ orderWdc' = orderWdc \cup {<<w, in.d, in.c, d_next_o_id[w, in.d]>>}
    /\ Go(t, "order")
    /\ UNCHANGED <<w_ytd, d_ytd, stock, customer, order, neworder,
                   orderline, history, h_id, failed>>

\* Mutant: the district's counter is advanced only by the insert
TakeOrderIdStale(t) ==
    /\ CanStart(t, "newOrder")
    /\ \E w \in HomeWarehouses(t) : \E in \in NewOrderRnd(w) :
         x' = [x EXCEPT ![t] = [op |-> "newOrder", w |-> w, d |-> in.d, c |-> in.c,
                                lines |-> in.lines, i |-> 1,
                                o |-> 1 + Max({k[3] : k \in {k \in DOMAIN order :
                                                  k[1] = w /\ k[2] = in.d}})]]
    /\ Go(t, "order")
    /\ d_next_o_id' = [k \in DOMAIN d_next_o_id |->
                         IF k = <<x'[t].w, x'[t].d>> THEN x'[t].o + 1 ELSE d_next_o_id[k]]
    /\ UNCHANGED <<w_ytd, d_ytd, stock, customer, order, orderWdc, neworder,
                   orderline, history, h_id, failed>>

TakeOrderId(t) ==
    /\ CanStart(t, "newOrder")
    /\ \E w \in HomeWarehouses(t) : \E in \in NewOrderRnd(w) :
         /\ x' = [x EXCEPT ![t] = [op |-> "newOrder", w |-> w, d |-> in.d, c |-> in.c,
                                   lines |-> in.lines, i |-> 1,
                                   o |-> d_next_o_id[w, in.d]]]
         /\ d_next_o_id' = [d_next_o_id EXCEPT ![w, in.d] = @ + 1]
    /\ Go(t, "order")
    /\ UNCHANGED <<w_ytd, d_ytd, stock, customer, order, orderWdc, neworder,
                   orderline, history, h_id, failed>>

InsertOrder(t) ==
    /\ At(t, "order")
    /\ order' = (<<x[t].w, x[t].d, x[t].o>> :>
                    [c |-> x[t].c, carrier |-> 0, ol_cnt |-> Len(x[t].lines)]) @@ order
    /\ Go(t, "wdc")
    /\ UNCHANGED <<w_ytd, d_ytd, d_next_o_id, stock, customer, orderWdc, neworder,
                   orderline, history, h_id, x, failed>>

InsertOrderWdc(t) ==
    /\ At(t, "wdc")
    /\ orderWdc' = orderWdc \cup {<<x[t].w, x[t].d, x[t].c, x[t].o>>}
    /\ Go(t, "neworder")
    /\ UNCHANGED <<w_ytd, d_ytd, d_next_o_id, stock, customer, order, neworder,
                   orderline, history, h_id, x, failed>>

InsertNewOrder(t) ==
    /\ At(t, "neworder")
    /\ neworder' = neworder \cup {<<x[t].w, x[t].d, x[t].o>>}
    /\ Go(t, "stock")
    /\ UNCHANGED <<w_ytd, d_ytd, d_next_o_id, stock, customer, order, orderWdc,
                   orderline, history, h_id, x, failed>>

\* what is left of a stock of q after an order of qty
Taken(q, qty) == IF q >= qty + 10 THEN q - qty ELSE q + 91 - qty

UpdateStock(t) ==
    LET l == x[t].lines[x[t].i]
        last == x[t].i = Len(x[t].lines)
    IN  /\ At(t, "stock")
        /\ stock' = [stock EXCEPT ![l.supply, l.item] =
                        [quantity |-> Taken(@.quantity, l.qty), ytd |-> @.ytd + l.qty,
                         order_cnt |-> @.order_cnt + 1]]
        /\ x' = [x EXCEPT ![t].i = IF last THEN 1 ELSE @ + 1]
        /\ Go(t, IF last THEN "line" ELSE "stock")
        /\ UNCHANGED <<w_ytd, d_ytd, d_next_o_id, customer, order, orderWdc, neworder,
                       orderline, history, h_id, failed>>

InsertOrderLine(t) ==
    LET l == x[t].lines[x[t].i]
    IN  /\ At(t, "line")
        /\ orderline' = (<<x[t].w, x[t].d, x[t].o, x[t].i>> :>
                           [i |-> l.item, supply |-> l.supply, qty |-> l.qty,
                            delivered |-> FALSE]) @@ orderline
        /\ IF x[t].i = Len(x[t].lines) THEN End(t)
           ELSE x' = [x EXCEPT ![t].i = @ + 1] /\ Go(t, "line")
        /\ UNCHANGED <<w_ytd, d_ytd, d_next_o_id, stock, customer, order, orderWdc,
                       neworder, history, h_id, failed>>

NewOrder(t) == \/ TakeOrderId(t) \/ InsertOrder(t) \/ InsertOrderWdc(t)
               \/ InsertNewOrder(t) \/ UpdateStock(t) \/ InsertOrderLine(t)

(***************************************************************************)
(* delivery: one order of each district in turn                            *)
(***************************************************************************)
DeliveryBegin(t) ==
    /\ CanStart(t, "delivery")
    /\ \E w \in HomeWarehouses(t) :
         x' = [x EXCEPT ![t] = [op |-> "delivery", w |-> w, d |-> 1, o |-> MinInteger,
                                c |-> 0, ol_cnt |-> 0, i |-> 1, total |-> 0]]
    /\ Go(t, "scanNew")
    /\ UNCHANGED <<tables, failed>>

\* "continue" and the end of the loop body
NextDistrict(t) ==
    IF x[t].d = Districts THEN End(t)
    ELSE /\ x' = [x EXCEPT ![t] = [@ EXCEPT !.d = @ + 1, !.o = MinInteger, !.i = 1, !.total = 0]]
         /\ Go(t, "scanNew")

ScanNewOrder(t) ==
    LET hit == {k \in ScanFrom(neworder, <<x[t].w, x[t].d, MinInteger>>) :
                   k[1] = x[t].w /\ k[2] = x[t].d}
    IN  /\ At(t, "scanNew")
        /\ \/ hit = {} /\ NextDistrict(t)
           \/ \E k \in hit : /\ x' = [x EXCEPT ![t].o = k[3]]
                             /\ Go(t, "erase")
        /\ UNCHANGED <<tables, failed>>

EraseNewOrder(t) ==
    /\ At(t, "erase")
    /\ neworder' = neworder \ {<<x[t].w, x[t].d, x[t].o>>}
    /\ Go(t, "scanOrder")
    /\ UNCHANGED <<w_ytd, d_ytd, d_next_o_id, stock, customer, order, orderWdc,
                   orderline, history, h_id, x, failed>>

\* is_safe_to_continue holds afterwards unless the district is skipped
ScanOrder(t) ==
    LET key == <<x[t].w, x[t].d, x[t].o>>
    IN  /\ At(t, "scanOrder")
        /\ IF ScanFrom(DOMAIN order, key) = {key}
           THEN /\ x' = [x EXCEPT ![t] = [@ EXCEPT !.c = order[key].c,
                                                   !.ol_cnt = order[key].ol_cnt]]
                /\ Go(t, "carrier")
           ELSE NextDistrict(t)
        /\ UNCHANGED <<tables, failed>>

SetCarrier(t) ==
    LET key == <<x[t].w, x[t].d, x[t].o>>
    IN  /\ At(t, "carrier")
        /\ Ensure(key \in DOMAIN order, "order")
        /\ order' = IF key \in DOMAIN order THEN [order EXCEPT ![key].carrier = 1] ELSE order
        /\ Go(t, "scanLine")
        /\ UNCHANGED <<w_ytd, d_ytd, d_next_o_id, stock, customer, orderWdc, neworder,
                       orderline, history, h_id, x>>

\* the callback sets is_safe_to_continue; without a key at or after the last
\* line it is not called and the flag keeps the value of the order scan, true
ScanLastLine(t) ==
    LET key == <<x[t].w, x[t].d, x[t].o, x[t].ol_cnt>>
    IN  /\ At(t, "scanLine")
        /\ IF ScanFrom(DOMAIN orderline, key) \in {{key}, {}}
           THEN Go(t, "deliver") /\ UNCHANGED x
           ELSE NextDistrict(t)
        /\ UNCHANGED <<tables, failed>>

DeliverLine(t) ==
    LET key == <<x[t].w, x[t].d, x[t].o, x[t].i>>
        found == key \in DOMAIN orderline
    IN  /\ At(t, "deliver")
        /\ Ensure(found, "orderline")
        /\ orderline' = IF found THEN [orderline EXCEPT ![key].delivered = TRUE] ELSE orderline
        /\ x' = [x EXCEPT ![t] = [@ EXCEPT !.i = @ + 1,
                     !.total = @ + (IF found THEN orderline[key].qty ELSE 0)]]
        /\ Go(t, IF x[t].i = x[t].ol_cnt THEN "credit" ELSE "deliver")
        /\ UNCHANGED <<w_ytd, d_ytd, d_next_o_id, stock, customer, order, orderWdc,
                       neworder, history, h_id>>

CreditCustomer(t) ==
    LET key == <<x[t].w, x[t].d, x[t].c>>
    IN  /\ At(t, "credit")
        /\ customer' = [customer EXCEPT ![key] = [@ EXCEPT !.balance = @ + x[t].total,
                                                           !.delivery_cnt = @ + 1]]
        /\ NextDistrict(t)
        /\ UNCHANGED <<w_ytd, d_ytd, d_next_o_id, stock, order, orderWdc, neworder,
                       orderline, history, h_id, failed>>

Delivery(t) == \/ DeliveryBegin(t) \/ ScanNewOrder(t) \/ EraseNewOrder(t) \/ ScanOrder(t)
               \/ SetCarrier(t) \/ ScanLastLine(t) \/ DeliverLine(t) \/ CreditCustomer(t)

(***************************************************************************)
(* stockLevel: the items of the last orders whose stock is low             *)
(***************************************************************************)
StockLevelBegin(t) ==
    /\ CanStart(t, "stockLevel")
    /\ \E w \in HomeWarehouses(t), d \in Ds, threshold \in {10, 20} :
         x' = [x EXCEPT ![t] = [op |-> "stockLevel", w |-> w, d |-> d, i |-> 1,
                                threshold |-> threshold, o |-> d_next_o_id[w, d],
                                from |-> {}, items |-> <<>>, count |-> 0]]
    /\ Go(t, "scanItems")
    /\ UNCHANGED <<tables, failed>>

InWindow(o, next) == o < next /\ o >= next - Window

\* sort, then unique without erase: the distinct items first, and behind them
\* what the sorted sequence held there
SortUnique(s) ==
    LET sorted == SortSeq(s, <)
        distinct == SetToSortSeq(Range(s), <)
    IN  distinct \o SubSeq(sorted, Len(distinct) + 1, Len(s))

ScanItems(t) ==
    LET lines == {k \in DOMAIN orderline : /\ k[1] = x[t].w /\ k[2] = x[t].d
                                           /\ InWindow(k[3], x[t].o)}
        found == SetToSortSeq(lines, Below)
    IN  /\ At(t, "scanItems")
        /\ x' = [x EXCEPT ![t] = [@ EXCEPT !.from = {k[3] : k \in lines},
                     !.items = SortUnique([n \in DOMAIN found |-> orderline[found[n]].i])]]
        /\ Go(t, "count")
        /\ UNCHANGED <<tables, failed>>

CountItem(t) ==
    /\ At(t, "count")
    /\ IF x[t].i > Len(x[t].items) THEN End(t)
       ELSE /\ x' = [x EXCEPT ![t] = [@ EXCEPT !.i = @ + 1,
                        !.count = @ + IF stock[x[t].w, x[t].items[x[t].i]].quantity
                                         < x[t].threshold THEN 1 ELSE 0]]
            /\ Go(t, "count")
    /\ UNCHANGED <<tables, failed>>

StockLevel(t) == StockLevelBegin(t) \/ ScanItems(t) \/ CountItem(t)

(***************************************************************************)
(* orderStatus and payment, by customer id or by last name                 *)
(***************************************************************************)
\* customerwdl.scan: the customers of this name, the middle one by first name;
\* first names are random, so it may be any of them
ByName(w, d, last) == {c \in Cs : customer[w, d, c].last = last}

OrderStatusBegin(t) ==
    /\ CanStart(t, "orderStatus")
    /\ \E w \in HomeWarehouses(t), d \in Ds :
         \/ \E c \in Cs :
              x' = [x EXCEPT ![t] = [op |-> "statusId", w |-> w, d |-> d, c |-> c, o |-> -1]]
         \/ \E last \in 1..Names : \E c \in ByName(w, d, last) :
              x' = [x EXCEPT ![t] = [op |-> "statusName", w |-> w, d |-> d, c |-> c, o |-> -1]]
    /\ Go(t, "latest")
    /\ UNCHANGED <<tables, failed>>

\* order_wdc.scanDesc from the largest id of the customer, and its asserts
LatestOrder(t) ==
    LET hit == ScanDescFrom(orderWdc, <<x[t].w, x[t].d, x[t].c, MaxInteger>>)
        mine == {k \in hit : k[1] = x[t].w /\ k[2] = x[t].d /\ k[3] = x[t].c}
    IN  /\ At(t, "latest")
        /\ Ensure(mine # {}, "latest")
        /\ x' = [x EXCEPT ![t].o = IF hit = {} THEN -1 ELSE (CHOOSE k \in hit : TRUE)[4]]
        /\ Go(t, "status")
        /\ UNCHANGED tables

\* order.lookup1, and the scan of the lines, which changes nothing
OrderStatusId(t) ==
    \/ LatestOrder(t) /\ x[t].op = "statusId"
    \/ /\ At(t, "status") /\ x[t].op = "statusId"
       /\ Ensure(<<x[t].w, x[t].d, x[t].o>> \in DOMAIN order, "order")
       /\ End(t)
       /\ UNCHANGED tables

OrderStatusName(t) ==
    \/ LatestOrder(t) /\ x[t].op = "statusName"
    \/ /\ At(t, "status") /\ x[t].op = "statusName"
       /\ End(t)
       /\ UNCHANGED <<tables, failed>>

OrderStatus(t) == OrderStatusBegin(t) \/ OrderStatusId(t) \/ OrderStatusName(t)

\* paymentRnd: the customer may live in another warehouse
PaymentRnd(w) == {in \in [d : Ds, cw : Wh, cd : Ds, by : {"id", "name"}, who : Cs] :
                    /\ (in.cw = w /\ in.cd = in.d) \/ in.cw \in OtherWarehouses(w)
                    /\ in.by = "name" => in.who <= Names}

PayWarehouse(t) ==
    /\ CanStart(t, "payment")
    /\ \E w \in HomeWarehouses(t) : \E in \in PaymentRnd(w) :
         /\ x' = [x EXCEPT ![t] = [op |-> "payment", w |-> w, d |-> in.d, cw |-> in.cw,
                                   cd |-> in.cd, by |-> in.by, c |-> in.who,
                                   ytd |-> d_ytd[w, in.d], read |-> Idle]]
         /\ w_ytd' = [w_ytd EXCEPT ![w] = @ + 1]
    /\ Go(t, "district")
    /\ UNCHANGED <<d_ytd, d_next_o_id, stock, customer, order, orderWdc, neworder,
                   orderline, history, h_id, failed>>

\* Mutant: the sum read with the district's address is written back
PayDistrictStale(t) ==
    /\ At(t, "district")
    /\ d_ytd' = [d_ytd EXCEPT ![x[t].w, x[t].d] = x[t].ytd + 1]
    /\ Go(t, IF x[t].by = "id" THEN "read" ELSE "name")
    /\ UNCHANGED <<w_ytd, d_next_o_id, stock, customer, order, orderWdc, neworder,
                   orderline, history, h_id, x, failed>>

PayDistrict(t) ==
    /\ At(t, "district")
    /\ d_ytd' = [d_ytd EXCEPT ![x[t].w, x[t].d] = @ + 1]
    /\ Go(t, IF x[t].by = "id" THEN "read" ELSE "name")
    /\ UNCHANGED <<w_ytd, d_next_o_id, stock, customer, order, orderWdc, neworder,
                   orderline, history, h_id, x, failed>>

\* without a customer of that name the payment ends here, nothing is undone
PickByName(t) ==
    LET ids == ByName(x[t].cw, x[t].cd, x[t].c)
    IN  /\ At(t, "name")
        /\ IF ids = {} THEN End(t)
           ELSE \E c \in ids : x' = [x EXCEPT ![t].c = c] /\ Go(t, "read")
        /\ UNCHANGED <<tables, failed>>

ReadCustomer(t) ==
    /\ At(t, "read")
    /\ x' = [x EXCEPT ![t].read = customer[x[t].cw, x[t].cd, x[t].c]]
    /\ Go(t, "write")
    /\ UNCHANGED <<tables, failed>>

WriteCustomer(t) ==
    /\ At(t, "write")
    /\ customer' = [customer EXCEPT ![x[t].cw, x[t].cd, x[t].c] =
                      [@ EXCEPT !.balance = x[t].read.balance - 1,
                                !.ytd_payment = x[t].read.ytd_payment + 1,
                                !.payment_cnt = x[t].read.payment_cnt + 1]]
    /\ Go(t, "history")
    /\ UNCHANGED <<w_ytd, d_ytd, d_next_o_id, stock, order, orderWdc, neworder,
                   orderline, history, h_id, x, failed>>

\* variable_for_workload is an array of each process; an insert of a key that
\* exists replaces its row
InsertHistory(t) ==
    /\ At(t, "history")
    /\ history' = (<<ThreadId(t), h_id[t[1], ThreadId(t)]>> :> x[t].w) @@ history
    /\ h_id' = [h_id EXCEPT ![t[1], ThreadId(t)] = @ + 1]
    /\ End(t)
    /\ UNCHANGED <<w_ytd, d_ytd, d_next_o_id, stock, customer, order, orderWdc,
                   neworder, orderline, failed>>

PaymentById(t) == /\ x[t].op = "payment" => x[t].by = "id"
                  /\ \/ PayWarehouse(t) \/ PayDistrict(t) \/ ReadCustomer(t)
                     \/ WriteCustomer(t) \/ InsertHistory(t)

PaymentByName(t) == /\ x[t].op = "payment" /\ x[t].by = "name"
                    /\ \/ PayDistrict(t) \/ PickByName(t) \/ ReadCustomer(t)
                       \/ WriteCustomer(t) \/ InsertHistory(t)

AllDone == /\ \A t \in Threads : pc[t] = "idle" /\ done[t] = MaxTx
           /\ UNCHANGED vars

\* tx
Tx(t) == NewOrder(t) \/ Delivery(t) \/ StockLevel(t) \/ OrderStatus(t)
         \/ PaymentById(t) \/ PaymentByName(t)

Next == (\E t \in Threads : Tx(t)) \/ AllDone

Spec == Init /\ [][Next]_vars

(***************************************************************************)
(* Properties                                                              *)
(***************************************************************************)
Sum(f, S) == MapThenSumSet(LAMBDA k : f[k], S)

Running(op) == {t \in Threads : x[t].op = op}

\* The order ids of a district are dense and no two orders share one:
\* d_next_o_id is read and advanced in one update of the district, so every id
\* below it is an order in the table or the order of exactly one newOrder that
\* has not inserted it yet, whatever the interleaving of the workers.
OrderIdsAreDense ==
    \A w \in Wh, d \in Ds :
        LET stored == {k[3] : k \in {k \in DOMAIN order : k[1] = w /\ k[2] = d}}
            taken == {t \in Running("newOrder") : pc[t] = "order" /\ x[t].w = w /\ x[t].d = d}
        IN  /\ stored \cup {x[t].o : t \in taken} = 1..d_next_o_id[w, d] - 1
            /\ Cardinality(stored) + Cardinality(taken) = d_next_o_id[w, d] - 1

\* No ensure and no assert of a transaction fails: the index order_wdc names only
\* orders that are in the table, each customer has an order from the loader on,
\* and delivery touches only lines that are there.
EnsuresHold == failed = {}

\* The restocking rule of newOrder keeps every s_quantity within 10..100, for any
\* order of updates by local and remote warehouses.
StockStaysInRange == \A k \in DOMAIN stock : stock[k].quantity \in 10..100

\* s_ytd of a stock is what the order lines that name it ordered, plus the lines of
\* running newOrders that have updated the stock and not inserted the line yet.
StockAccountsForLines ==
    \A s \in Wh, i \in Is :
        LET lines == {k \in DOMAIN orderline : orderline[k].supply = s /\ orderline[k].i = i}
            ahead == {<<t, n>> \in Running("newOrder") \X (1..MaxLines) :
                        /\ n <= Len(x[t].lines)
                        /\ x[t].lines[n].supply = s /\ x[t].lines[n].item = i
                        /\ \/ pc[t] = "stock" /\ n < x[t].i
                           \/ pc[t] = "line" /\ n >= x[t].i}
        IN  stock[s, i].ytd = MapThenSumSet(LAMBDA k : orderline[k].qty, lines)
                              + MapThenSumSet(LAMBDA a : x[a[1]].lines[a[2]].qty, ahead)

\* A warehouse has earned what its districts have, except for payments that are
\* between the two updates.
YtdIsBalanced ==
    \A w \in Wh : w_ytd[w] = Sum(d_ytd, {w} \X Ds)
                   + Cardinality({t \in Running("payment") : pc[t] = "district" /\ x[t].w = w})

\* Every finished payment has its own row in history: the keys of two workers, on
\* one node or on two, never collide, and no payment by name ends early, with the
\* money booked and nothing recorded.
PaymentsAreRecorded ==
    \A w \in Wh : w_ytd[w] = Cardinality({k \in DOMAIN history : history[k] = w})
                   + Cardinality({t \in Running("payment") : x[t].w = w})

\* A customer's balance and year-to-date payment are written together from one read:
\* without deliveries they stay opposite, even when a concurrent payment is lost.
BalanceMatchesPayments ==
    \A k \in DOMAIN customer : customer[k].balance + customer[k].ytd_payment = 0

\* With a warehouse per worker, c_delivery_cnt counts each order that left the list of
\* new orders exactly once, but for the one whose delivery is under way.
EachOrderDeliveredOnce ==
    \A w \in Wh, d \in Ds :
        LET mine(t) == x[t].w = w /\ x[t].d = d
            left == {k \in DOMAIN order : /\ k[1] = w /\ k[2] = d /\ k[3] >= Delivered
                                          /\ k \notin neworder}
            coming == {t \in Running("newOrder") : mine(t) /\ pc[t] \in {"wdc", "neworder"}}
            leaving == {t \in Running("delivery") : mine(t) /\ pc[t] \in
                          {"scanOrder", "carrier", "scanLine", "deliver", "credit"}}
        IN  Sum([c \in Cs |-> customer[w, d, c].delivery_cnt], Cs)
              = Cardinality(left) - Cardinality(coming) - Cardinality(leaving)

\* With a warehouse per worker, stockLevel has seen the lines of exactly the last
\* Window orders of its district.
StockLevelSeesWindow ==
    \A t \in Running("stockLevel") :
        pc[t] = "count" => x[t].from = x[t].o - Window .. x[t].o - 1
=============================================================================
