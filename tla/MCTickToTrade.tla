---------------------------- MODULE MCTickToTrade ---------------------------
(***************************************************************************)
(* An instance of TickToTrade.  All bytes of an integer differ, so that an *)
(* offset or an order of bytes that is wrong changes it.                   *)
(***************************************************************************)
EXTENDS TickToTrade

AAPL == <<65, 65, 80, 76, 32, 32, 32, 32>>

MCMessages ==
    {[type |-> "AddOrder", orderReferenceNumber |-> 12345678, side |-> "Buy", shares |-> 8642,
      stock |-> AAPL, price |-> 9753],
     [type |-> "AddOrder", orderReferenceNumber |-> 34567812, side |-> "Sell", shares |-> 8643,
      stock |-> AAPL, price |-> 9754],
     [type |-> "CancelOrder", orderReferenceNumber |-> 12345678, shares |-> 2468],
     [type |-> "DeleteOrder", orderReferenceNumber |-> 23456789],
     [type |-> "ExecuteOrder", orderReferenceNumber |-> 12345678, shares |-> 1357,
      matchNumber |-> 87654321],
     [type |-> "ReplaceOrder", orderReferenceNumber |-> 12345678, newReferenceNumber |-> 98765432,
      shares |-> 4321, price |-> 1234],
     [type |-> "Other"]}

Plain == [etherType |-> <<8, 0>>, version |-> 4, ihl |-> 5, protocol |-> 17,
          port |-> <<35, 40>>, padding |-> 0]

OneHeader ==
    {Plain, [Plain EXCEPT !.ihl = 6], [Plain EXCEPT !.padding = 4],
     [Plain EXCEPT !.etherType = <<8, 6>>], [Plain EXCEPT !.version = 6],
     [Plain EXCEPT !.protocol = 6], [Plain EXCEPT !.port = <<35, 41>>]}

\* At most one frame is not plain.
MCHeaders ==
    {[[j \in 1 .. FeedLength |-> Plain] EXCEPT ![i] = h] : i \in 1 .. FeedLength, h \in OneHeader}
=============================================================================
