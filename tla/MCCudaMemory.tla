------------------------------ MODULE MCCudaMemory ------------------------------
(* CudaMemory with the bound of CudaMemory.cfg.                              *)
EXTENDS CudaMemory
=============================================================================
