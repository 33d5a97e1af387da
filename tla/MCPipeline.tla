------------------------------ MODULE MCPipeline ------------------------------
EXTENDS Pipeline

CONSTANTS r1, r2, p1
===============================================================================
