------------------------------- MODULE OrderBook -------------------------------
(***************************************************************************)
(* What the order connector owes the people whose orders it takes, without *)
(* threads, signatures, order numbers, answers or a network: an order they *)
(* asked for is entered in the book once and with the terms they asked;    *)
(* an entry is never changed but to be cancelled, and leaves only with the *)
(* whole book; and two entries under one client id were being placed at    *)
(* the same time.                                                          *)
(***************************************************************************)
EXTENDS Naturals, Sequences

VARIABLES
  asked,     \* what was asked for, in the order it was signed: requests
  placing,   \* the requests whose orders are being placed
  doubled,   \* client ids of orders that were being placed together
  book       \* the entries: orders with the request they are from, and a status

bookVars == <<asked, placing, doubled, book>>

BookInit == asked = <<>> /\ placing = {} /\ doubled = {} /\ book = <<>>

Entered(client) == \E i \in DOMAIN book : book[i].client = client

Ask ==
  /\ Len(asked') = Len(asked) + 1
  /\ \A n \in DOMAIN asked : asked'[n] = asked[n]
  /\ UNCHANGED <<placing, doubled, book>>

(* An order is asked for, and its client id has no entry yet.               *)
Start(n) ==
  /\ asked[n].kind = "submit"
  /\ ~Entered(asked[n].client)
  /\ placing' = placing \cup {n}
  /\ doubled' = IF \E m \in placing : asked[m].client = asked[n].client
                THEN doubled \cup {asked[n].client}
                ELSE doubled
  /\ UNCHANGED <<asked, book>>

Place(n) ==
  /\ \A i \in DOMAIN book : book[i].request # n
  /\ Entered(asked[n].client) => asked[n].client \in doubled
  /\ book' = Append(book, [request |-> n, client |-> asked[n].client,
                           terms |-> asked[n].terms, status |-> "submitted"])
  /\ placing' = placing \ {n}
  /\ UNCHANGED <<asked, doubled>>

Cancel(i) ==
  /\ book' = [book EXCEPT ![i].status = "cancelled"]
  /\ UNCHANGED <<asked, placing, doubled>>

(* The book is kept in memory only.                                         *)
Forget ==
  /\ placing' = {} /\ doubled' = {} /\ book' = <<>>
  /\ UNCHANGED asked

BookNext ==
  \/ Ask
  \/ \E n \in DOMAIN asked \ placing : Start(n)
  \/ \E n \in placing : Place(n)
  \/ \E i \in DOMAIN book : Cancel(i)
  \/ Forget

BookSpec == BookInit /\ [][BookNext]_bookVars
=============================================================================
