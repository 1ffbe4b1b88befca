----------------------------- MODULE SharedTables -----------------------------
(***************************************************************************)
(* The tables of layer stacks, tokens, path nodes and listeners, side by   *)
(* side.                                                                   *)
(***************************************************************************)
EXTENDS PcpLayerStackRegistry

CONSTANTS
  Strings, Tokens, Reps,           \* of TfTokenRegistry
  Handles, Names, Nodes, Root, MaxDepth,  \* of SdfPathNodes
  Callers, Deliverers, NumLists, MaxCalls \* of TfNoticeRegistry

VARIABLES
  tkTable, tkStr, tkRefCount, isCounted, rep, bit, text, tkPc, source,
  pnTable, parent, pnName, pnRefCount, hasToken, tokens, node, pnPc, dying,
  lists, nrState, keyed, active, marked, expired, userCount, deadEntries, calls

tokenVars == <<tkTable, tkStr, tkRefCount, isCounted, rep, bit, text, tkPc, source>>
nodeVars  == <<pnTable, parent, pnName, pnRefCount, hasToken, tokens, node, pnPc,
               dying>>
noticeVars == <<lists, nrState, keyed, active, marked, expired, userCount,
                deadEntries, calls>>

TK == INSTANCE TfTokenRegistry WITH
  table <- tkTable, str <- tkStr, refCount <- tkRefCount, pc <- tkPc

PN == INSTANCE SdfPathNodes WITH
  table <- pnTable, name <- pnName, refCount <- pnRefCount, pc <- pnPc

NR == INSTANCE TfNoticeRegistry WITH
  state <- nrState, Threads <- Callers, MaxDepth <- MaxCalls
=============================================================================
