---------------------------- MODULE XdmaRequest ----------------------------
(***************************************************************************)
(* How a read() or write() becomes descriptors: xdma_init_request of       *)
(* XDMA/linux-kernel/xdma/libxdma.c.  Addresses are left out; a page or a  *)
(* descriptor is its length.                                               *)
(***************************************************************************)
EXTENDS Integers, Sequences, SequencesExt

\* A page in pieces of at most max, and what is left of it.
Chop(len, max) ==
  [j \in 1 .. (len + max - 1) \div max |->
     IF j * max <= len THEN max ELSE len % max]

\* req->sdesc for the given page lengths, desc_blen_max being max.
SwDescs(pages, max) == FlattenSeq([i \in 1 .. Len(pages) |-> Chop(pages[i], max)])
=============================================================================
