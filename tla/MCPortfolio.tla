----------------------------- MODULE MCPortfolio -----------------------------
(* A small instance of PortfolioStream for TLC. *)
EXTENDS PortfolioStream
=============================================================================
