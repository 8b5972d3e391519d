----------------------------- MODULE MemoryCard -----------------------------
(***************************************************************************)
(* The memory card (adapter/memory_card.c), its reading over the            *)
(* configuration service (bluetooth/att_cfg.c) and the HCI trace that is    *)
(* kept in its buffer (bluetooth/mon.c).                                    *)
(*                                                                         *)
(* The card is a record of the state in memory: buf the contents of         *)
(* mc_buffer by address, dirty the blocks set in mc_block_state, ready is   *)
(* mc_ready, trace the next address of the trace, left the blocks mc_store  *)
(* has still to write.  over: something was written past the end of a       *)
(* block, which is past the end of an allocation.  Its file holds a number  *)
(* of whole blocks.  A unit stands for the word that reading is aligned to. *)
(*                                                                         *)
(* adapter_q_fb is empty at this commit: mc_write marks the block and       *)
(* nothing starts the timer of mc_store_spread, so the file is written once, *)
(* when there is none.                                                      *)
(***************************************************************************)
EXTENDS Integers, Sequences

CONSTANTS
    Blocks,       \* MC_BUFFER_BLOCK_CNT
    BlockSize     \* MC_BUFFER_BLOCK_SIZE, in units

ASSUME CardAssumption == Blocks \in Nat \ {0} /\ BlockSize \in Nat \ {0}

BankMax == 4                            \* CONFIG_BANKSEL_MAX
Block == 0 .. Blocks - 1
CardSize == Blocks * BlockSize          \* MC_BUFFER_SIZE
BlockOf(a) == a \div BlockSize

(* mc_init_mem: what heap_caps_malloc returns, and static variables *)
NewCard ==
    [buf |-> [a \in 0 .. CardSize - 1 |-> [by |-> "heap", at |-> a]],
     dirty |-> {}, ready |-> FALSE, trace |-> 0, left |-> 0, over |-> FALSE]

NoCardFile == [exists |-> FALSE, has |-> 0, buf |-> NewCard.buf]

-----------------------------------------------------------------------------
(* mc_restore, of a file that is there: the blocks that are read go to the  *)
(* buffer even if some are missing.                                         *)
Restore(card, onFile) ==
    [card EXCEPT
        !.buf = [a \in DOMAIN @ |-> IF BlockOf(a) < onFile.has THEN onFile.buf[a] ELSE @[a]],
        !.ready = onFile.has = Blocks]

(* mc_init with the file system up or not: the card, and its file; when     *)
(* there is no file, fopen in mc_store creates an empty one.                *)
McInit(bank, fs, card, onFile) ==
    CASE bank >= BankMax \/ ~fs -> [card |-> card, onFile |-> onFile]
      [] bank < BankMax /\ fs /\ onFile.exists ->
            [card |-> Restore(card, onFile), onFile |-> onFile]
      [] OTHER -> [card |-> [card EXCEPT !.left = Blocks],
                   onFile |-> [onFile EXCEPT !.exists = TRUE, !.has = 0]]

(* mc_store: the next block; with the last one the marks are cleared. *)
StoreNext(card, onFile) ==
    LET b == Blocks - card.left
        last == card.left = 1
    IN [onFile |-> [onFile EXCEPT !.has = b + 1,
                                  !.buf = [a \in DOMAIN @ |-> IF BlockOf(a) = b THEN card.buf[a]
                                                              ELSE @[a]]],
        card |-> [card EXCEPT !.left = @ - 1,
                              !.ready = last,
                              !.dirty = IF last THEN {} ELSE @]]

(* mc_write of n units *)
McWrite(bank, card, at, n, by) ==
    [card EXCEPT
        !.buf = [a \in DOMAIN @ |-> IF a \in at .. at + n - 1 THEN [by |-> by, at |-> a] ELSE @[a]],
        !.over = @ \/ BlockOf(at) # BlockOf(at + n - 1),
        !.dirty = IF bank < BankMax THEN @ \cup {BlockOf(at)} ELSE @]

(* bt_mon_tx in the bank for debugging: the header, one unit, and n units of *)
(* data.  What does not fit in the block is written past its end, and again *)
(* to the next block.  The check for room forgets the header.               *)
HasRoom(card, n) == card.trace + n <= CardSize
MonTx(bank, card, n) ==
    LET header == McWrite(bank, card, card.trace, 1, "trace")
    IN [McWrite(bank, header, card.trace + 1, n, "trace") EXCEPT !.trace = card.trace + 1 + n]

(* Mutant: the answer does not end with the block. *)
CardRdLenLong(at, mtu) ==
    IF mtu - 1 > CardSize - at THEN CardSize - at ELSE mtu - 1

(* bt_att_cmd_mc_rd_rsp: how many units from address at; no answer crosses   *)
(* the end of a block.                                                      *)
CardRdLen(at, mtu) ==
    LET room == (BlockOf(at) + 1) * BlockSize - at
    IN IF room > mtu - 1 THEN mtu - 1 ELSE room

(* mc_read of n units: past the end of the block is another allocation. *)
McRead(card, at, n) ==
    [k \in 1 .. n |-> IF BlockOf(at + k - 1) = BlockOf(at) THEN card.buf[at + k - 1]
                      ELSE [by |-> "heap", at |-> -1]]
=============================================================================
