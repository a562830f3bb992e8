------------------------ MODULE MCAuthoritativeStore ------------------------
(* Small instances of AuthoritativeStore: a sale and its retry, a second       *)
(* terminal, and a request that reuses the sale's key with another body.       *)
EXTENDS AuthoritativeStore, TLC

CONSTANTS sale, saleRetry, other, reused, callback

MCKeyOf == (sale :> "k1") @@ (saleRetry :> "k1") @@ (other :> "k2") @@ (reused :> "k1")
MCBodyOf == (sale :> "add") @@ (saleRetry :> "add") @@ (other :> "move")
            @@ (reused :> "addTwo")

MCEntities == {"order", "payment"}
MCValues   == 0..3
MCAbsent   == 0
Cap(n) == IF n > 3 THEN 3 ELSE n

\* "add" writes the order; "move" replaces the order by a payment (a delete and
\* an insert); a callback's save writes the payment.
MCMutate(s, body) ==
  CASE body = "add"    -> [s EXCEPT !["order"] = Cap(@ + 1)]
    [] body = "addTwo" -> [s EXCEPT !["order"] = Cap(@ + 2)]
    [] body = "move"   -> [order |-> 0, payment |-> Cap(s["payment"] + s["order"] + 1)]
    [] OTHER           -> [s EXCEPT !["payment"] = Cap(@ + 1)]
=============================================================================
