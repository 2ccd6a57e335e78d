------------------------- MODULE MCExecutionTimeline -------------------------
(* The module timeline_*.cfg instantiate: events, cycles and deliveries are *)
(* model values.                                                            *)
EXTENDS ExecutionTimeline

OneOfEach(messages) == CHOOSE content \in [Events -> messages] : IsInjective(content)

\* Two events whose checks differ.
MCLifecycle ==
  OneOfEach({CreateNodeExecutionFailedMessage, CreateWorkflowExecutionCompletedMessage})

\* An event, and the trace the timeline is not for.
MCWithTrace == OneOfEach({CreateNodeExecutionStartedMessage, CreateAiTraceCreatedMessage})

=============================================================================
