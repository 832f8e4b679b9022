------------------------------- MODULE OrderCards -------------------------------
(***************************************************************************)
(* The saved orders: order/index.ts, the /order command, its list card and *)
(* its edit cards (router/index.ts), and the aliases a message may begin   *)
(* with (order/alias-resolve.ts).  The store is changed in memory first    *)
(* and then written; the write may fail, and then the memory keeps the     *)
(* change until the file is read again.  A card may be clicked on long     *)
(* after it was drawn.  Texts and names stand for themselves; the limits   *)
(* of their lengths are a text and a name that are refused.                *)
(***************************************************************************)
EXTENDS ListCards, FiniteSetsExt, SequencesExt

CONSTANTS
    Texts, BadText,    \* texts of orders; one that is empty or too long
    Names, BadName,    \* alias names; one the pattern refuses
    MaxOrders,         \* MAX_ORDERS
    OrderPageSize,     \* ORDER_PAGE_SIZE
    MaxOrderIds,       \* bound: orders ever made
    MaxOrderCards,     \* bound: cards sent
    MaxOrderClicks     \* bound: commands and clicks

ASSUME OrderAssumption ==
    /\ OrderPageSize \in Nat \ {0}
    /\ {MaxOrders, MaxOrderIds, MaxOrderCards, MaxOrderClicks} \subseteq Nat

NoAlias == "-"
VARIABLES
    orders,      \* OrderStore.data
    orderFile,   \* orders.json
    orderCards,  \* the messages with a card: what each shows
    sentOrders,  \* orders queued as messages, by "run" or by an alias
    \* History variables
    deleted,     \* orders the user was told are gone
    unremoved,   \* orders taken out of the store while the file kept them
    made, orderClicks

orderVars == <<orders, orderFile, orderCards, sentOrders, deleted, unremoved, made, orderClicks>>

OrderInit ==
    /\ orders = <<>>
    /\ orderFile = <<>>
    /\ orderCards = <<>>
    /\ sentOrders = {}
    /\ deleted = {}
    /\ unremoved = {}
    /\ made = 0
    /\ orderClicks = 0

-----------------------------------------------------------------------------
(* The store.                                                              *)

Has(list, id) == \E k \in DOMAIN list : list[k].id = id
Find(list, id) == CHOOSE k \in DOMAIN list : list[k].id = id

(* persist: throws when the write fails.  The outcome is what the caller   *)
(* sees.                                                                   *)
Persist(list, ok) ==
    /\ orders' = list
    /\ orderFile' = IF ok THEN list ELSE orderFile

(* What the store answers: the list it holds afterwards, and whether a     *)
(* write is made, or the change is refused.                                *)
Changed(list) == [list |-> list, write |-> TRUE, error |-> FALSE]
Kept(list) == [list |-> list, write |-> FALSE, error |-> FALSE]
Error(list) == [list |-> list, write |-> FALSE, error |-> TRUE]

(* save: up to MAX_ORDERS.                                                 *)
SaveOrder(list, text) ==
    IF text = BadText \/ Len(list) >= MaxOrders THEN Error(list)
    ELSE Changed(Append(list, [id |-> made + 1, text |-> text, alias |-> NoAlias, used |-> FALSE]))

(* updateUsedAt.                                                           *)
UpdateUsedAt(list, id) ==
    IF Has(list, id) THEN Changed([list EXCEPT ![Find(list, id)].used = TRUE]) ELSE Kept(list)

(* updateText: an unchanged text is not written.                           *)
UpdateText(list, id, text) ==
    IF text = BadText \/ ~ Has(list, id) THEN Error(list)
    ELSE IF list[Find(list, id)].text = text THEN Kept(list)
    ELSE Changed([list EXCEPT ![Find(list, id)].text = text])

(* setAlias: the name is of one order only; none takes it away.            *)
SetAlias(list, id, name) ==
    IF ~ Has(list, id) THEN Kept(list)
    ELSE IF name = BadName \/ (name # NoAlias /\ \E k \in DOMAIN list : list[k].id # id /\ list[k].alias = name)
    THEN Error(list)
    ELSE Changed([list EXCEPT ![Find(list, id)].alias = name])

(* Mutant of RemoveOrder: the file is not written.                         *)
RemoveOrderUnwritten(list, id) == Kept(RemoveAt(list, Find(list, id)))

(* remove: the others are kept.  The caller saw that it is there, and no   *)
(* two have the same id.                                                   *)
RemoveOrder(list, id) == Changed(RemoveAt(list, Find(list, id)))

(* The answer is carried out: TRUE says that the caller goes on.           *)
Apply(answer, ok) ==
    IF answer.write THEN Persist(answer.list, ok) ELSE orders' = answer.list /\ UNCHANGED orderFile
Told(answer, ok) == ~ answer.error /\ (answer.write => ok)

(* load: the file as it is.                                                *)
LoadOrders == orderFile

-----------------------------------------------------------------------------
(* Cards.                                                                  *)

(* cmdOrder, the list: the file is read again.                             *)
OrderListCard(list, offset) ==
    LET slice == PageSlice(list, offset, OrderPageSize)
    IN  [kind |-> "list", ids |-> [k \in DOMAIN slice.items |-> slice.items[k].id],
         aliased |-> {o.id : o \in {x \in ToSet(slice.items) : x.alias # NoAlias}},
         offset |-> slice.offset, total |-> Len(list)]

(* showOrderEditCard: one input box.                                       *)
OrderEditCard(cmd, id, offset) == [kind |-> "edit", cmd |-> cmd, id |-> id, offset |-> offset]

OrderButton(cmd, id, offset) == [cmd |-> cmd, id |-> id, offset |-> offset]

(* The buttons of the row of an order, and of the bar.                     *)
OrderRow(c, id) ==
    {OrderButton(cmd, id, c.offset) :
       cmd \in {"order.aliasEdit", "order.textEdit", "order.delete", "order.exec"}
                 \cup (IF id \in c.aliased THEN {"order.aliasRemove"} ELSE {})}

OrderButtons(c) ==
    IF c.kind = "edit" THEN {OrderButton(c.cmd, c.id, c.offset)}
    ELSE {OrderButton("order.page", 0, o) : o \in PaginationBar(c, OrderPageSize, c.total)}
           \cup (UNION {OrderRow(c, id) : id \in ToSet(c.ids)})

Shows(m, card) == orderCards' = [orderCards EXCEPT ![m] = card]

(* The user is told that the order does not exist or was deleted.          *)
ToldGone(id) == deleted' = deleted \cup {id}

(* /order, /order list and /order alias list.                              *)
OrderList ==
    /\ Len(orderCards) < MaxOrderCards
    /\ orders' = LoadOrders
    /\ orderCards' = Append(orderCards, OrderListCard(LoadOrders, 0))
    /\ UNCHANGED <<orderFile, sentOrders, deleted, unremoved, made>>

(* /order save.                                                            *)
OrderSave(text, ok) ==
    /\ made < MaxOrderIds
    /\ Apply(SaveOrder(orders, text), ok)
    /\ made' = IF SaveOrder(orders, text).error THEN made ELSE made + 1
    /\ UNCHANGED <<orderCards, sentOrders, deleted, unremoved>>

(* resolveOrderTarget: an id, or the number in the list of this moment.    *)
ResolveOrderTarget(n) == IF n \in DOMAIN orders THEN {orders[n].id} ELSE {}

(* /order edit.                                                            *)
OrderEdit(n, text, ok) ==
    /\ \E id \in ResolveOrderTarget(n) : Apply(UpdateText(orders, id, text), ok)
    /\ UNCHANGED <<orderCards, sentOrders, deleted, unremoved, made>>

(* /order alias add.                                                       *)
CmdOrderAliasAdd(n, name, ok) ==
    /\ \E id \in ResolveOrderTarget(n) : Apply(SetAlias(orders, id, name), ok)
    /\ UNCHANGED <<orderCards, sentOrders, deleted, unremoved, made>>

(* /order alias rm.                                                        *)
CmdOrderAliasRemove(n, ok) ==
    /\ \E id \in ResolveOrderTarget(n) :
         /\ orders[Find(orders, id)].alias # NoAlias
         /\ Apply(SetAlias(orders, id, NoAlias), ok)
    /\ UNCHANGED <<orderCards, sentOrders, deleted, unremoved, made>>

(* order.delete.  A failed write is thrown, and only logged: then the card *)
(* stays as it is, and a second click is told that the order is gone.      *)
HandleOrderDelete(m, v, ok) ==
    /\ IF Has(orders, v.id)
       THEN LET answer == RemoveOrder(orders, v.id)
            IN  /\ Apply(answer, ok)
                /\ IF ok
                   THEN /\ Shows(m, OrderListCard(answer.list, v.offset))
                        /\ ToldGone(v.id)
                        /\ unremoved' = unremoved \ {v.id}
                   ELSE /\ unremoved' = unremoved \cup {v.id}
                        /\ UNCHANGED <<orderCards, deleted>>
       ELSE ToldGone(v.id) /\ UNCHANGED <<orders, orderFile, orderCards, unremoved>>
    /\ UNCHANGED <<sentOrders, made>>

(* order.page.                                                             *)
HandleOrderPage(m, v, i) ==
    LET asked == PagingOffset(v.offset, i, OrderPageSize)
    IN  /\ IF asked.ok
           THEN orders' = LoadOrders /\ Shows(m, OrderListCard(LoadOrders, asked.offset))
           ELSE UNCHANGED <<orders, orderCards>>
        /\ UNCHANGED <<orderFile, sentOrders, deleted, unremoved, made>>

(* order.aliasEdit and order.textEdit: the order must still be there.      *)
ShowOrderEditCard(m, v, cmd) ==
    /\ orders' = LoadOrders
    /\ IF Has(LoadOrders, v.id)
       THEN Shows(m, OrderEditCard(cmd, v.id, v.offset)) /\ UNCHANGED deleted
       ELSE ToldGone(v.id) /\ UNCHANGED orderCards
    /\ UNCHANGED <<orderFile, sentOrders, unremoved, made>>

HandleOrderAliasEdit(m, v) == ShowOrderEditCard(m, v, "order.aliasInput")
HandleOrderTextEdit(m, v) == ShowOrderEditCard(m, v, "order.textInput")

(* mutateOrderAndRefreshCard: the file is read, the order is changed if it *)
(* is still there, and the list takes the place of the edit card.  "answer"*)
(* is of the list as read.                                                 *)
MutateOrderAndRefreshCard(m, v, answer, ok) ==
    /\ IF Has(LoadOrders, v.id)
       THEN /\ Apply(answer, ok)
            /\ IF Told(answer, ok) THEN Shows(m, OrderListCard(answer.list, v.offset)) ELSE UNCHANGED orderCards
            /\ UNCHANGED deleted
       ELSE orders' = LoadOrders /\ ToldGone(v.id) /\ UNCHANGED <<orderFile, orderCards>>
    /\ UNCHANGED <<sentOrders, unremoved, made>>

(* order.aliasInput: an empty text takes the alias away.                   *)
HandleOrderAliasInput(m, v, name, ok) ==
    MutateOrderAndRefreshCard(m, v, SetAlias(LoadOrders, v.id, name), ok)

(* order.aliasRemove: refused when the order has no alias any more.        *)
HandleOrderAliasRemove(m, v, ok) ==
    LET aliased == \E k \in DOMAIN LoadOrders : LoadOrders[k].id = v.id /\ LoadOrders[k].alias # NoAlias
    IN  MutateOrderAndRefreshCard(m, v,
            IF aliased THEN SetAlias(LoadOrders, v.id, NoAlias) ELSE Error(LoadOrders), ok)

(* order.textInput.                                                        *)
HandleOrderTextInput(m, v, text, ok) ==
    MutateOrderAndRefreshCard(m, v, UpdateText(LoadOrders, v.id, text), ok)

(* resolveOrderExecForQueue: the use is recorded before the order is       *)
(* queued; when the record cannot be written it is not queued.             *)
ResolveOrderExecForQueue(v, ok) ==
    /\ IF Has(orders, v.id)
       THEN /\ Apply(UpdateUsedAt(orders, v.id), ok)
            /\ sentOrders' = IF ok THEN sentOrders \cup {v.id} ELSE sentOrders
            /\ UNCHANGED deleted
       ELSE ToldGone(v.id) /\ UNCHANGED <<orders, orderFile, sentOrders>>
    /\ UNCHANGED <<orderCards, unremoved, made>>

(* expandAliasMessage, resolveAlias: a message that begins with the name.  *)
ExpandAliasMessage(name) ==
    /\ sentOrders' = sentOrders \cup {o.id : o \in {x \in ToSet(orders) : x.alias = name}}
    /\ UNCHANGED <<orders, orderFile, orderCards, deleted, unremoved, made>>

ClickOrder(m, ok) ==
    \E v \in OrderButtons(orderCards[m]) :
       \/ v.cmd = "order.delete" /\ HandleOrderDelete(m, v, ok)
       \/ v.cmd = "order.page" /\ ok /\ \E i \in {NoInput, DigitsOf(2), Word} : HandleOrderPage(m, v, i)
       \/ v.cmd = "order.aliasEdit" /\ ok /\ HandleOrderAliasEdit(m, v)
       \/ v.cmd = "order.textEdit" /\ ok /\ HandleOrderTextEdit(m, v)
       \/ v.cmd = "order.aliasInput" /\ \E n \in Names \cup {NoAlias, BadName} : HandleOrderAliasInput(m, v, n, ok)
       \/ v.cmd = "order.aliasRemove" /\ HandleOrderAliasRemove(m, v, ok)
       \/ v.cmd = "order.textInput" /\ \E t \in Texts \cup {BadText} : HandleOrderTextInput(m, v, t, ok)
       \/ v.cmd = "order.exec" /\ ResolveOrderExecForQueue(v, ok)

(* The process starts again: the orders are those of the file.             *)
OrderRestart ==
    /\ orders # orderFile
    /\ orders' = LoadOrders
    /\ UNCHANGED <<orderFile, orderCards, sentOrders, deleted, unremoved, made, orderClicks>>

OrderNext ==
    \/ /\ orderClicks < MaxOrderClicks
       /\ orderClicks' = orderClicks + 1
       /\ \/ OrderList
          \/ \E name \in Names : ExpandAliasMessage(name)
          \/ \E ok \in BOOLEAN :
               \/ \E t \in Texts : OrderSave(t, ok)
               \/ \E n \in 1 .. MaxOrders :
                    \/ \E t \in Texts : OrderEdit(n, t, ok)
                    \/ \E name \in Names : CmdOrderAliasAdd(n, name, ok)
                    \/ CmdOrderAliasRemove(n, ok)
               \/ \E m \in DOMAIN orderCards : ClickOrder(m, ok)
    \/ OrderRestart

OrderSpec == OrderInit /\ [][OrderNext]_orderVars

-----------------------------------------------------------------------------
(* Properties.                                                             *)

(* An order the user was told is gone, by the click that deleted it or by  *)
(* a later one on any card that still shows it, is neither in the store    *)
(* nor in the file again, whichever other writes failed in between.  The   *)
(* exception is an order whose own removal could not be written: the store *)
(* is without it until the file is read again, a second click meanwhile is *)
(* told that it is gone, and then it is back (order/index.ts remove,       *)
(* router/index.ts handleOrderDelete).                                     *)
DeletedStaysDeleted ==
    \A id \in deleted \ unremoved : ~ Has(orders, id) /\ ~ Has(orderFile, id)

=============================================================================
