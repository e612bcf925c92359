------------------------------- MODULE Routes -------------------------------
(* The two applications, side by side: a behaviour is one of the net/http  *)
(* application (App) or of the native fasthttp one (FastApp).              *)
EXTENDS FastApp

CONSTANTS  \* of App
  WebOptions, WebControllers, WebScope, WebGlobal, WebAsk, Documented

VARIABLES
  live,  \* the application of this behaviour
  options, phase, webGlobals, webTodo, webFrames, root, webPending, routers, table,
  registry, profiler, spec, log, served

Web == INSTANCE App WITH
  Options <- WebOptions, Controllers <- WebControllers, Scope <- WebScope,
  Global <- WebGlobal, Ask <- WebAsk,
  globals <- webGlobals, todo <- webTodo, frames <- webFrames, pending <- webPending

ASSUME WebAssumption == Web!Configured

-----------------------------------------------------------------------------
webVars == <<options, phase, webGlobals, webTodo, webFrames, root, webPending,
             routers, table, registry, profiler, spec, log, served>>

RoutesInit ==
  /\ live \in {"web", "fast"}
  /\ Web!Init /\ Init
  /\ live = "fast" => options = CHOOSE o \in WebOptions : TRUE

RoutesNext ==
  \/ live = "web" /\ Web!Next /\ UNCHANGED <<live, vars>>
  \/ live = "fast" /\ Next /\ UNCHANGED <<live, webVars>>

RoutesSpec == RoutesInit /\ [][RoutesNext]_<<live, webVars, vars>>

-----------------------------------------------------------------------------
(* The properties of App, by the names they have there. *)

\* Every middleware that is meant for a handler is passed once and in order.
MiddlewaresApplyOnce == Web!MiddlewaresApplyOnce
\* A HandlerV2 is called with inputs that have been checked.
InputsAreChecked == Web!InputsAreChecked
\* The OpenAPI description is of the routes that are served.
DescribedAsServed == Web!DescribedAsServed
=============================================================================
