----------------------------- MODULE ReadStream -----------------------------
(***************************************************************************)
(* The fields of an owned transfer stream that decide its cleanup, and a   *)
(* read within a byte budget: FtpReadStream of sync/stream.rs, whose       *)
(* TokioReadStream twin polls to the same effect.  A write stream carries  *)
(* the same record and uses none of the reading fields.                    *)
(*                                                                         *)
(*   want        the offset the caller asked for, 0 or 1                   *)
(*   pos         the offset of the first byte the caller is given: where   *)
(*               the server started the RETR, advanced by a local skip     *)
(*   tail        bytes the data socket still delivers, capped at one       *)
(*   remaining   the byte budget; Unlimited stands for None                *)
(*   eof         at_eof                                                    *)
(***************************************************************************)
EXTENDS Naturals

Unlimited == 2

HandleInfo == [dir : {"read", "write"}, want : 0..1, pos : Nat,
               tail : 0..1, remaining : 0..Unlimited, eof : BOOLEAN]

Info(dir, wanted, pos, tail, remaining, eof) ==
    [dir |-> dir, want |-> wanted, pos |-> pos,
     tail |-> tail, remaining |-> remaining, eof |-> eof]

NoInfo == Info("read", 0, 0, 0, 0, FALSE)

Spend(budget, n) == IF budget = Unlimited THEN budget ELSE budget - n

AfterReading(i, n, eof) ==
    Info(i.dir, i.want, i.pos, i.tail - n, Spend(i.remaining, n), eof)

Readable(i) == IF i.remaining = 0 THEN 0 ELSE i.tail

(* Variants: an exhausted budget taken for the end of the file; a read that *)
(* ignores the budget it then subtracts from.                              *)
AfterReadBudgetIsEof(i) ==
    AfterReading(i, Readable(i), i.eof \/ Readable(i) = 0)

AfterReadUnlimited(i) ==
    AfterReading(i, i.tail, i.eof \/ (i.tail = 0 /\ i.remaining # 0))

(* One read, a byte at a time, within the budget; no byte for a nonempty    *)
(* request is the end of the file.                                         *)
AfterRead(i) ==
    AfterReading(i, Readable(i), i.eof \/ (i.tail = 0 /\ i.remaining # 0))
=============================================================================
