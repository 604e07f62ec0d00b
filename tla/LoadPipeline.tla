----------------------------- MODULE LoadPipeline -----------------------------
(***************************************************************************)
(* What a worker thread promises of the requests it sends, with no socket, *)
(* buffers or event loop: requests 1, 2, 3, ... are put in the pipeline,   *)
(* and answers leave it first in first out, each with the response the     *)
(* server made to that very request.                                       *)
(***************************************************************************)
EXTENDS Naturals, Sequences

VARIABLES
  pipeline,  \* ids of the requests whose response has not been handled
  issued,    \* how many requests were put in the pipeline
  answered   \* pairs <<request, request its response answers>>

pipelineVars == <<pipeline, issued, answered>>

PipelineInit ==
  /\ pipeline = <<>>
  /\ issued = 0
  /\ answered = {}

Issue ==
  /\ issued' = issued + 1
  /\ pipeline' = Append(pipeline, issued + 1)
  /\ UNCHANGED answered

Answer ==
  /\ pipeline # <<>>
  /\ answered' = answered \cup {<<Head(pipeline), Head(pipeline)>>}
  /\ pipeline' = Tail(pipeline)
  /\ UNCHANGED issued

PipelineNext == Issue \/ Answer

PipelineSpec == PipelineInit /\ [][PipelineNext]_pipelineVars
===============================================================================
