------------------------------- MODULE BookSet -------------------------------
(***************************************************************************)
(* A set of books keyed by symbol (Books in crates/book/src/reference.rs,  *)
(* BookSet in view.rs), the digest taken of it (digest.rs) and the         *)
(* consumer's side of the feed, which turns a message into a book change   *)
(* (apply.rs).  A set of books is a function on the symbols touched so     *)
(* far, and results carry the error they were refused with, "" for none.   *)
(***************************************************************************)
EXTENDS ReferenceBook

book_of(books, symbol) == IF symbol \in DOMAIN books THEN books[symbol] ELSE EmptyBook

\* get_or_create, and then the book of the symbol is replaced by b.
with_book(books, symbol, b) ==
  [s \in DOMAIN books \cup {symbol} |-> IF s = symbol THEN b ELSE books[s]]

get_or_create(books, symbol) == with_book(books, symbol, book_of(books, symbol))

clear_all(books) == [s \in DOMAIN books |-> clear(books[s])]

total_orders(books) ==
  FoldFunction(LAMBDA b, n : Cardinality(DOMAIN b.orders) + n, 0, books)

\* A symbol that is present but empty counts as absent.
HeldSymbols(books) == {s \in DOMAIN books : DOMAIN books[s].orders # {}}

\* hash_books, as the text it hashes.
hash_books(books, depth) ==
  [s \in HeldSymbols(books) |-> [side \in Sides |-> levels(books[s], side, depth)]]

\* BookDigest::of
digest_of(books, top) ==
  [top |-> hash_books(books, top), full |-> hash_books(books, 0),
   orders |-> total_orders(books)]

\* Everything the books hold, queue positions included: what a digest cannot see.
Holding(books) == [s \in HeldSymbols(books) |-> books[s]]

------------------------------------------------------------------------------
\* The result r of an operation on the book of one symbol, as a set of books.
Into(books, symbol, r) == [books |-> with_book(books, symbol, r.book), err |-> r.err]

\* apply_snapshot_orders: the fragment's orders are added in wire order; the
\* first that is refused ends it, leaving the ones before it in place.
apply_snapshot_orders(books, m) ==
  LET added[i \in 0 .. Len(m.orders)] ==
        IF i = 0 THEN Ok(book_of(books, m.symbol))
        ELSE IF added[i - 1].err # "" THEN added[i - 1]
        ELSE LET o == m.orders[i]
             IN  add(added[i - 1].book, o.order_id, o.side, o.price, o.quantity)
  IN  Into(books, m.symbol, added[Len(m.orders)])

\* Mutant of apply_message: a trade is taken off the resting order as well as
\* the reduce or delete that follows it.
apply_message_AppliesTrades(books, m) ==
  LET b == book_of(books, m.symbol)
  IN  CASE m.kind = "Add" -> Into(books, m.symbol, add(b, m.order_id, m.side, m.price, m.quantity))
        [] m.kind = "Reduce" -> Into(books, m.symbol, reduce(b, m.order_id, m.quantity))
        [] m.kind = "Replace" -> Into(books, m.symbol, replace(b, m.order_id, m.price, m.quantity))
        [] m.kind = "Trade" -> Into(books, m.symbol, delete(b, m.resting))
        [] m.kind = "Delete" -> Into(books, m.symbol, delete(b, m.order_id))
        [] m.kind = "Snapshot" -> apply_snapshot_orders(books, m)
        [] OTHER -> [books |-> books, err |-> ""]

apply_message(books, m) ==
  LET b == book_of(books, m.symbol)
  IN  CASE m.kind = "Add" -> Into(books, m.symbol, add(b, m.order_id, m.side, m.price, m.quantity))
        [] m.kind = "Reduce" -> Into(books, m.symbol, reduce(b, m.order_id, m.quantity))
        [] m.kind = "Replace" -> Into(books, m.symbol, replace(b, m.order_id, m.price, m.quantity))
        [] m.kind = "Delete" -> Into(books, m.symbol, delete(b, m.order_id))
        [] m.kind = "Snapshot" -> apply_snapshot_orders(books, m)
        [] OTHER -> [books |-> books, err |-> ""]     \* Trade, Heartbeat

=============================================================================
